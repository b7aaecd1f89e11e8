-------------------------- MODULE OperatorsProofs --------------------------
(***************************************************************************)
(* Proofs about Clients, on boxes and a clock of this instant, and about   *)
(* Operators, for any number of shells, any command lines and any calls of *)
(* others in between.                                                      *)
(*                                                                         *)
(* A script acts on what it read earlier.  What of it is still true is     *)
(* what no call of anybody undoes (Onward): an agreement keeps its terms,  *)
(* is never open again once it is not, and goes through its refunds in one *)
(* direction; a deadline that has passed stays passed; an id is given      *)
(* once.  Each script's reading is stated in those terms (Scans, Drains,   *)
(* Releases), so it holds however long the script takes over its next      *)
(* request.                                                                *)
(*                                                                         *)
(* The last part shows that what a script sends is taken unless something  *)
(* moved: the contract's invariants hold under the scripts (Chain), a      *)
(* record keeps what a caller counts on (Kept), and a run knows of its     *)
(* call that it would pass on what was read (Sends).                       *)
(***************************************************************************)
EXTENDS Operators, EscrowProofs

-----------------------------------------------------------------------------
(* What the clients decide on boxes and a clock read this instant.         *)

\* The larger and the smaller of two numbers.
LEMMA OfTwo ==
  ASSUME NEW x \in Int, NEW y \in Int
  PROVE  /\ Max({x, y}) \in {x, y} /\ Max({x, y}) >= x /\ Max({x, y}) >= y
         /\ Min({x, y}) \in {x, y} /\ Min({x, y}) <= x /\ Min({x, y}) <= y
  <1>1. \E m \in {x, y} : \A n \in {x, y} : m >= n
    OBVIOUS
  <1>2. Max({x, y}) \in {x, y} /\ \A n \in {x, y} : Max({x, y}) >= n
    BY <1>1 DEF Max
  <1>3. \E m \in {x, y} : \A n \in {x, y} : m <= n
    OBVIOUS
  <1>4. Min({x, y}) \in {x, y} /\ \A n \in {x, y} : Min({x, y}) <= n
    BY <1>3 DEF Min
  <1> QED
    BY <1>2, <1>4

\* Zero where a number is below it.
LEMMA AboveZero ==
  ASSUME NEW x \in Int
  PROVE  Max({0, x}) = IF x > 0 THEN x ELSE 0
  <1>1. \A y \in Int : Max({y, x}) \in {y, x} /\ Max({y, x}) >= y /\ Max({y, x}) >= x
    BY OfTwo
  <1>2. Max({0, x}) \in {0, x} /\ Max({0, x}) >= 0 /\ Max({0, x}) >= x
    BY <1>1
  <1> QED
    BY <1>2

\* The batch a client asks for is one the contract takes.
LEMMA BatchIsAllowed ==
  ASSUME NEW a, a.seats \in Nat, a.refund_cursor \in Nat
  PROVE  RefundBatchSize(a) \in 1..BatchCeiling
  <1> DEFINE left == a.seats - a.refund_cursor
             least == Min({BatchCeiling, left})
  <1>1. left \in Int /\ BatchCeiling \in Nat \ {0}
    BY NumberAssumption
  <1>2. least \in Int /\ least <= BatchCeiling
    BY <1>1, OfTwo
  <1> HIDE DEF least
  <1>3. Max({1, least}) \in {1, least} /\ Max({1, least}) >= 1
    <2>1. \A x \in Int : Max({x, least}) \in {x, least} /\ Max({x, least}) >= x
      BY <1>2, OfTwo
    <2> QED
      BY <2>1
  <1> QED
    BY <1>1, <1>2, <1>3 DEF RefundBatchSize, least

\* pool_ops' guard before expire (_guard_expire) refuses exactly what the
\* contract would, in every state: no call is sent to be refused, and no rescue
\* of a filled agreement with a stranded beneficiary is withheld.
THEOREM ExpireGuardExactAlways == Spec => []ExpireGuardExact
  <1>1. ASSUME IInv PROVE ExpireGuardExact
    <2> SUFFICES ASSUME NEW id \in Live, NEW sender \in Account
                 PROVE  GuardExpire(agreements[id], sender) <=> ExpirePasses(sender, id)
      BY DEF ExpireGuardExact
    <2> DEFINE a == agreements[id]
    <2>1. a \in Agreement /\ now \in Nat
      BY <1>1, BoxOf DEF IInv, TypeOK
    <2>2. a.deadline \in Nat
      BY <2>1 DEF Agreement
    <2>3. ClockExpires(a, sender) <=> (a.seats = 0 /\ sender = a.creator) \/ now >= a.deadline
      BY <2>1, <2>2 DEF ClockExpires
    <2>4. StateExpires(a) <=> Expirable(a)
      BY DEF StateExpires, Expirable
    <2> QED
      BY <2>3, <2>4 DEF GuardExpire, ExpirePasses
  <1> QED
    BY <1>1, Invariant, PTL

\* What a buyer composes from the agreement's own terms is a join the contract
\* takes.
LEMMA BuyersJoin ==
  ASSUME NEW id \in Live, NEW q, q.amount = agreements[id].share_price,
         NEW acct \in Buyers(id, q.amount), ~paused, App \in canReceive,
         agreements[id].state = "OPEN", now < agreements[id].deadline,
         agreements[id].seats < agreements[id].max_seats
  PROVE  JoinPasses(acct, id, Paying(acct, q))
  <1> DEFINE p == Paying(acct, q)
  <1>1. /\ p.sender = acct /\ p.receiver = App /\ p.asset = "usdc"
        /\ p.amount = agreements[id].share_price /\ p.bare
    BY DEF Paying
  <1>2. acct \in canReceive /\ p.amount <= usdc[acct] /\ ~AlreadyJoined(id, acct)
    BY <1>1 DEF Buyers
  <1> HIDE DEF p
  <1>3. Transferable(p) /\ Settles(p, acct, agreements[id])
    BY <1>1, <1>2 DEF Transferable, Settles
  <1> QED
    BY <1>2, <1>3 DEF JoinPasses, p

\* A pool the server serves has a seat that anybody who can pay for it and does
\* not sit in it yet can have, every pool of this edition with such a seat is
\* served, and a quote of any age that still agrees with the chain can be paid
\* (api/pool.py's read_pinned_pool, the page's quoteDisagreements).  The server
\* reads its own clock and may be any bounded distance from the chain's: the
\* one exception is a deadline that stands between the two.
THEOREM SoldIsJoinableAlways == Spec => []SoldIsJoinable
  <1>1. ASSUME IInv PROVE ServedIsJoinable
    <2> SUFFICES ASSUME NEW id \in Live, NEW moment \in Moments, ~paused, App \in canReceive,
                        ~DeadlineBetween(agreements[id], moment)
                 PROVE  LET a == agreements[id] q == QuoteFor(id) IN
                        /\ MatchesThisEdition(a, moment) =>
                             /\ q.seatsLeft > 0
                             /\ \A acct \in Buyers(id, q.amount) : JoinPasses(acct, id, Paying(acct, q))
                        /\ (/\ a.condition = "hash" /\ a.min_seats = Seats /\ Seats > 1
                            /\ \E acct \in Payers :
                                 JoinPasses(acct, id, [Paying(acct, q) EXCEPT !.amount = SharePrice]))
                             => MatchesThisEdition(a, moment)
      BY DEF ServedIsJoinable
    <2> DEFINE a == agreements[id]
               q == QuoteFor(id)
    <2>1. a \in Agreement /\ Staged(a) /\ now \in Nat
      BY <1>1, BoxOf DEF Sound, IInv, TypeOK
    <2>2. /\ a.min_seats \in Nat /\ a.max_seats \in Nat /\ a.seats \in Nat /\ a.deadline \in Nat
          /\ a.min_seats = a.max_seats /\ (a.state = "OPEN" => a.seats < a.min_seats)
      BY <2>1 DEF Agreement, Staged
    <2>3. q.amount = a.share_price /\ q.seatsLeft = Max({0, a.min_seats - a.seats})
      BY DEF QuoteFor
    <2> HIDE DEF q
    <2>4. moment \in Int
      BY <2>1, EditionAssumption DEF Moments
    <2>5. a.deadline > moment <=> now < a.deadline
      BY <2>4, <2>1, <2>2 DEF DeadlineBetween
    <2>6. ASSUME MatchesThisEdition(a, moment)
          PROVE  /\ q.seatsLeft > 0
                 /\ \A acct \in Buyers(id, q.amount) : JoinPasses(acct, id, Paying(acct, q))
      <3>1. a.state = "OPEN" /\ a.deadline > moment
        BY <2>6 DEF MatchesThisEdition, IsOpenPoolShape
      <3>2. q.seatsLeft > 0
        <4> DEFINE left == a.min_seats - a.seats
        <4>1. left \in Int /\ left > 0
          BY <2>2, <3>1
        <4> HIDE DEF left
        <4>2. Max({0, left}) = left
          BY <4>1, AboveZero
        <4> QED
          BY <2>3, <4>1, <4>2 DEF left
      <3>3. now < a.deadline /\ a.seats < a.max_seats
        BY <2>2, <2>5, <3>1
      <3> QED
        BY <2>3, <3>1, <3>2, <3>3, BuyersJoin
    <2>7. ASSUME a.condition = "hash", a.min_seats = Seats, Seats > 1,
                 NEW acct \in Payers,
                 JoinPasses(acct, id, [Paying(acct, q) EXCEPT !.amount = SharePrice])
          PROVE  MatchesThisEdition(a, moment)
      <3>1. a.state = "OPEN" /\ now < a.deadline
            /\ [Paying(acct, q) EXCEPT !.amount = SharePrice].amount = a.share_price
        BY <2>7 DEF JoinPasses, Settles
      <3>2. SharePrice = a.share_price
        BY <3>1 DEF Paying
      <3> QED
        BY <2>7, <2>5, <3>1, <3>2 DEF MatchesThisEdition, IsOpenPoolShape
    <2> QED
      BY <2>6, <2>7 DEF q
  <1>2. ASSUME IInv PROVE VerifiedQuoteIsJoinable
    <2> SUFFICES ASSUME NEW id \in Pools, NEW left \in 1..SeatsCeiling,
                        QuoteAgrees([QuoteFor(id) EXCEPT !.seatsLeft = left]),
                        ~paused, App \in canReceive, now < agreements[id].deadline,
                        NEW acct \in Buyers(id, [QuoteFor(id) EXCEPT !.seatsLeft = left].amount)
                 PROVE  JoinPasses(acct, id, Paying(acct, [QuoteFor(id) EXCEPT !.seatsLeft = left]))
      BY DEF VerifiedQuoteIsJoinable
    <2> DEFINE a == agreements[id]
               q == [QuoteFor(id) EXCEPT !.seatsLeft = left]
    <2>1. id \in Live
      BY DEF Pools
    <2>2. a.max_seats \in Nat /\ a.seats \in Nat
      BY <1>2, <2>1, BoxOf DEF Agreement
    <2>3. q.agreementId = id /\ q.amount = a.share_price /\ q.seatsLeft = left
      BY DEF QuoteFor
    <2> HIDE DEF q
    <2>4. a.state = "OPEN" /\ left = Max({0, a.max_seats - a.seats})
      BY <2>3 DEF QuoteAgrees, q
    <2>5. a.seats < a.max_seats
      <3> DEFINE free == a.max_seats - a.seats
      <3>1. free \in Int
        BY <2>2
      <3>2. left \in Int /\ left >= 1 /\ left = Max({0, free})
        BY <2>4, NumberAssumption
      <3> HIDE DEF free
      <3>3. free > 0
        BY <3>1, <3>2, AboveZero
      <3> QED
        BY <2>2, <3>1, <3>3 DEF free
    <2>6. acct \in Buyers(id, q.amount)
      BY DEF q
    <2>7. JoinPasses(acct, id, Paying(acct, q))
      BY <2>1, <2>3, <2>4, <2>5, <2>6, BuyersJoin
    <2> QED
      BY <2>7 DEF q
  <1> QED
    BY <1>1, <1>2, Invariant, PTL DEF SoldIsJoinable

\* Whoever the call looks at is among the payers of the window's seats.
LEMMA WindowNamed ==
  ASSUME IInv, NEW id \in Live, NEW count \in Nat, NEW named,
         \A s \in DOMAIN roster[id] :
           s >= agreements[id].refund_cursor /\ s < agreements[id].refund_cursor + count
             => roster[id][s].payer \in named
  PROVE  LET last == WindowEnd(agreements[id], count) IN
         {roster[id][s].payer : s \in Payable(id, last) \cup Skipped(id, last)} \subseteq named
  <1> DEFINE a == agreements[id]
             last == WindowEnd(a, count)
  <1>1. /\ a.seats \in Nat /\ a.max_seats \in Nat /\ a.refund_cursor \in Nat
        /\ a.seats <= a.max_seats /\ DOMAIN roster[id] = 0..(a.max_seats - 1)
        /\ a.refund_cursor <= a.seats
    BY BoxOf DEF Agreement, Sound, Staged
  <1>2. last \in Int /\ last <= a.refund_cursor + count /\ last <= a.max_seats
    BY <1>1 DEF WindowEnd
  <1>3. ASSUME NEW s \in Payable(id, last) \cup Skipped(id, last)
        PROVE  roster[id][s].payer \in named
    <2>1. s \in a.refund_cursor..(last - 1)
      BY DEF Payable, Skipped
    <2>2. s \in DOMAIN roster[id] /\ s >= a.refund_cursor /\ s < a.refund_cursor + count
      BY <1>1, <1>2, <2>1
    <2> QED
      BY <2>2
  <1> QED
    BY <1>3

\* The refund a client composes from the boxes as they are passes.
LEMMA FreshRefundOpen ==
  ASSUME IInv, Balanced, Receptive, minFee = InitialFee,
         NEW id \in Live, agreements[id].state \in {"EXPIRED", "REFUNDING"},
         NEW count \in 1..BatchCeiling
  PROVE  FreshRefundPasses(id, count)
  <1> DEFINE named == NamedPayers(agreements[id], roster[id], count)
  <1>1. \A s \in DOMAIN roster[id] :
          s >= agreements[id].refund_cursor /\ s < agreements[id].refund_cursor + count
            => roster[id][s].payer \in named
    BY DEF NamedPayers
  <1> HIDE DEF named
  <1>2. count \in Nat
    BY NumberAssumption
  <1>3. RefundNextPasses(id, count)
    BY RefundOpen
  <1> QED
    BY <1>1, <1>2, <1>3, WindowNamed DEF FreshRefundPasses, SentRefundPasses, named

\* The one seat of a payer on the roster is the one findSeat finds.
LEMMA FoundSeat ==
  ASSUME IInv, NEW id \in Live, NEW acct, NEW s \in SeatsHeld(id, acct)
  PROVE  FindSeat(id, acct) = s
  <1>1. Seating(agreements[id], roster[id])
    BY BoxOf DEF Sound
  <1>2. SeatsHeld(id, acct) = {s} /\ s \in Int
    BY <1>1 DEF SeatsHeld, Occupied, Seating
  <1>3. Min({s}) = s
    BY <1>2 DEF Min
  <1> QED
    BY <1>2, <1>3 DEF FindSeat

LEMMA OwedSeat ==
  ASSUME IInv, NEW id \in Live, NEW acct, IsOwed(id, acct)
  PROVE  FindSeat(id, acct) \in Unpaid(id) /\ roster[id][FindSeat(id, acct)].payer = acct
  <1>1. PICK s \in SeatsHeld(id, acct) : TRUE
    BY DEF IsOwed
  <1>2. FindSeat(id, acct) = s
    BY FoundSeat
  <1> QED
    BY <1>2 DEF IsOwed, SeatsHeld, Unpaid

\* No button of the page is refused, as long as deposits cover the fees.
LEMMA OfferedPasses ==
  ASSUME IInv, Balanced, Receptive, minFee = InitialFee
  PROVE  OfferedIsAccepted
  <1> SUFFICES ASSUME NEW id \in Pools, NEW acct \in Account,
                      NEW action \in AvailableActions(id, acct)
               PROVE  \/ SentPasses(action, id, acct)
                      \/ action = "claim_refund" /\ acct \notin canReceive
    BY DEF OfferedIsAccepted
  <1> DEFINE a == agreements[id]
  <1>1. id \in Live /\ a \in Agreement
    BY BoxOf DEF Pools
  <1>2. action \in {"expire", "refund_next", "claim_refund", "close"}
    BY DEF AvailableActions
  <1>3. CASE action = "expire"
    <2>1. a.state \in {"OPEN", "FUNDED"} /\ now >= a.deadline
      BY <1>3 DEF AvailableActions
    <2>2. ExpirePasses(acct, id)
      BY <1>1, <2>1 DEF ExpirePasses, Expirable
    <2> QED
      BY <1>3, <2>2 DEF SentPasses
  <1>4. CASE action = "refund_next"
    <2>1. a.state \in {"EXPIRED", "REFUNDING"}
      BY <1>4 DEF AvailableActions
    <2>2. RefundBatchSize(a) \in 1..BatchCeiling
      BY <1>1, BatchIsAllowed DEF Agreement
    <2>3. FreshRefundPasses(id, RefundBatchSize(a))
      BY <1>1, <2>1, <2>2, FreshRefundOpen
    <2> QED
      BY <1>4, <2>3 DEF SentPasses
  <1>5. CASE action = "claim_refund"
    <2>1. IsSkipped(id, acct) /\ a.state \in {"EXPIRED", "REFUNDING", "REFUNDED"}
      BY <1>5 DEF AvailableActions
    <2>2. FindSeat(id, acct) \in Unpaid(id) /\ roster[id][FindSeat(id, acct)].payer = acct
      BY <1>1, <2>1, OwedSeat DEF IsSkipped
    <2>3. FindSeat(id, acct) < a.refund_cursor /\ a.state \in Returning
      BY <2>1 DEF IsSkipped, Returning
    <2>4. acct \in canReceive => ClaimRefundPasses(id, FindSeat(id, acct))
      BY <1>1, <2>2, <2>3, ClaimOpen
    <2> QED
      BY <1>5, <2>4 DEF SentPasses
  <1>6. CASE action = "close"
    <2>1. Closable(a)
      BY <1>6 DEF AvailableActions, Closable
    <2>2. ClosePasses(id)
      BY <1>1, <2>1, CloseOpen
    <2> QED
      BY <1>6, <2>2 DEF SentPasses
  <1> QED
    BY <1>2, <1>3, <1>4, <1>5, <1>6

\* A finished pass with nothing unclaimed has returned everything.
LEMMA NothingLeft ==
  ASSUME IInv, NEW id \in Live, agreements[id].state = "REFUNDED",
         agreements[id].unclaimed_seats = 0
  PROVE  agreements[id].total_held = 0
  <1> DEFINE a == agreements[id]
             owed == Owed(a, roster[id])
  <1>1. a \in Agreement /\ Sound(a, roster[id])
    BY BoxOf
  <1>2. {s \in owed : s < a.refund_cursor} = owed
    BY <1>1 DEF Owed, Sound, Staged, Agreement
  <1>3. Cardinality(owed) = 0
    BY <1>1, <1>2 DEF Sound, SkipsExact
  <1>4. a.share_price * Cardinality(owed) = 0
    BY <1>1, <1>3 DEF Agreement
  <1> QED
    BY <1>1, <1>4 DEF Sound, HeldExact

\* A pool past its deadline always has a button, for whoever is owed by it.
LEMMA ButtonsGoOn ==
  ASSUME IInv
  PROVE  NoDeadEnd
  <1> SUFFICES ASSUME NEW id \in Pools, NEW acct \in Account,
                      now >= agreements[id].deadline, agreements[id].state # "RELEASED"
               PROVE  LET a == agreements[id] IN
                      \/ AvailableActions(id, acct) # {}
                      \/ a.state = "REFUNDED" /\ ~IsOwed(id, acct) /\ a.unclaimed_seats > 0
    BY DEF NoDeadEnd
  <1> DEFINE a == agreements[id]
  <1>1. id \in Live /\ a \in Agreement /\ Sound(a, roster[id]) /\ a.condition = "hash"
    BY BoxOf DEF Pools
  <1>2. CASE a.state \in {"OPEN", "FUNDED"}
    <2>1. "expire" \in AvailableActions(id, acct)
      BY <1>2 DEF AvailableActions
    <2> QED
      BY <2>1
  <1>3. CASE a.state \in {"EXPIRED", "REFUNDING"}
    <2>1. "refund_next" \in AvailableActions(id, acct)
      BY <1>3 DEF AvailableActions
    <2> QED
      BY <2>1
  <1>4. CASE a.state = "REFUNDED" /\ a.unclaimed_seats = 0
    <2>1. "close" \in AvailableActions(id, acct)
      BY <1>1, <1>4, NothingLeft DEF AvailableActions
    <2> QED
      BY <2>1
  <1>5. CASE a.state = "REFUNDED" /\ IsOwed(id, acct)
    <2>1. FindSeat(id, acct) \in 0..(a.seats - 1)
      BY <1>1, <1>5, OwedSeat DEF Unpaid, Occupied
    <2>2. FindSeat(id, acct) < a.refund_cursor
      BY <1>1, <1>5, <2>1 DEF Sound, Staged, Agreement
    <2>3. "claim_refund" \in AvailableActions(id, acct)
      BY <1>5, <2>2 DEF AvailableActions, IsSkipped
    <2> QED
      BY <2>3
  <1>6. a.unclaimed_seats \in Nat /\ a.state \in States /\ a.state # "FILLED"
    BY <1>1 DEF Agreement, Sound, Staged
  <1> QED
    BY <1>2, <1>3, <1>4, <1>5, <1>6 DEF States

\* The buttons are right as long as the minimum fee is the one deposits were
\* priced at (web/src/pool/view.ts's availableActions): none is refused, and
\* from its deadline on no pool is without the one that is needed.
THEOREM ButtonsAreRightAlways == Spec => [](minFee = InitialFee => ButtonsAreRight)
  <1>1. IInv /\ Balanced /\ Receptive => (minFee = InitialFee => ButtonsAreRight)
    BY OfferedPasses, ButtonsGoOn DEF ButtonsAreRight
  <1> QED
    BY <1>1, Invariant, BalancedAlways, ReceptiveAlways, PTL

-----------------------------------------------------------------------------
(* What the chain never undoes.                                            *)

Fields ==
  {"condition", "state", "deadline", "share_price", "min_seats", "max_seats", "seats",
   "refund_cursor", "unclaimed_seats", "total_held", "commit_hash", "beneficiary",
   "verifier", "creator"}

\* A record as far as the scripts' readings depend on it.
Recorded(a) ==
  /\ DOMAIN a = Fields
  /\ a.state \in States /\ a.condition \in {"hash", "quorum"}
  /\ a.deadline \in Int
  /\ a.seats \in Nat
  /\ a.refund_cursor \in 0..a.seats
  /\ a.state = "FUNDED" => a.condition = "hash"

BoxInv ==
  /\ now \in Nat /\ agreement_count \in Nat
  /\ Live \subseteq 1..agreement_count
  /\ \A id \in Live : Recorded(agreements[id])

\* b is the record a, later.
Later(b, a) ==
  /\ b.condition = a.condition /\ b.deadline = a.deadline
  /\ b.min_seats = a.min_seats /\ b.max_seats = a.max_seats
  /\ b.refund_cursor >= a.refund_cursor
  /\ a.state # "OPEN" => b.state # "OPEN"
  /\ a.state \in Returning => b.state \in Returning
  /\ a.state \in {"REFUNDING", "REFUNDED"} => b.state \in {"REFUNDING", "REFUNDED"}
  /\ a.state = "REFUNDED" => b.state = "REFUNDED"

Onward ==
  /\ now' >= now /\ agreement_count' >= agreement_count
  /\ \A id \in 1..agreement_count :
       id \in Live' => id \in Live /\ Later(agreements'[id], agreements[id])

-----------------------------------------------------------------------------
(* What a run knows of what it read.                                       *)

Ended == {"idle", "stalled", "lost"}

\* An agreement that does not stop a create whose scan began at this moment.
Passed(id, moment) == id \in Live => ~IsOpenPoolShape(agreements[id], moment)

\* A run has passed its own checks, on a command line of its scene but for
\* the count drain puts in it.
Begun(r) ==
  /\ "pc" \in DOMAIN r
  /\ r.pc \notin Ended => "job" \in DOMAIN r /\ Offline(r.job)
  /\ r.pc \notin Ended /\ r.job.cmd = "create" =>
       /\ r.job.length \in Int /\ r.job.price \in Nat /\ r.job.seats \in Nat
       /\ r.job.manifest.sha256 \in Hash \cup {ZeroHash}
  /\ r.pc \notin Ended /\ r.job.cmd = "drain" =>
       {"cmd", "id", "count"} \subseteq DOMAIN r.job

\* create_pool: what its scan has been through does not stop it.
Scans(r) ==
  /\ r.pc \in {"paused", "count", "scan", "name", "create"} => r.job.cmd = "create"
  /\ r.pc \in {"count", "scan"} => r.moment \in Nat /\ r.moment <= now
  /\ r.pc = "scan" =>
       /\ DOMAIN r = {"pc", "job", "moment", "at", "saw"}
       /\ r.saw \in 0..agreement_count /\ r.at \in 0..r.saw
       /\ \A id \in (r.at + 1)..r.saw : Passed(id, r.moment)
  /\ r.pc \in {"name", "create"} =>
       /\ r.saw \in 0..agreement_count /\ r.deadline \in Int
       /\ \A id \in 1..r.saw : Passed(id, now)

\* A record on its way through the refunds, since drain read it as `before`.
Onto(a, before) ==
  /\ a.refund_cursor >= before.refund_cursor
  /\ before.state = "REFUNDING" => a.state \in {"REFUNDING", "REFUNDED"}

Moved(a, before) ==
  \/ a.state = "REFUNDED"
  \/ /\ a.state = "REFUNDING"
     /\ before.state = "EXPIRED" \/ a.refund_cursor > before.refund_cursor

\* drain, expire, refund: drain is past expire for good, and a refund of its
\* own, once it has landed, has moved the record.
Drains(r) ==
  /\ r.pc \in {"cursor", "roster", "refund"} =>
       r.job.cmd \in {"refund", "drain"} /\ r.job.count \in Nat \ {0}
  /\ r.pc = "reread" => r.job.cmd = "drain"
  /\ r.pc \in {"cursor", "roster", "refund", "reread"} /\ r.job.cmd = "drain" =>
       /\ r.job.id \in 1..agreement_count
       /\ r.job.id \in Live => agreements[r.job.id].state \in Returning
       /\ "before" \in DOMAIN r =>
            r.before.state \in {"EXPIRED", "REFUNDING"} /\ r.before.refund_cursor \in Nat
       /\ "before" \in DOMAIN r /\ r.job.id \in Live =>
            /\ Onto(agreements[r.job.id], r.before)
            /\ r.pc = "reread" => Moved(agreements[r.job.id], r.before)
       /\ r.pc # "reread" => "before" \in DOMAIN r

\* A file of the bundle is what the manifest says.
Serves(job, name) ==
  /\ name \in DOMAIN Bundle[job.cid]
  /\ Bundle[job.cid][name] = job.manifest.files[name]

Served(job) == job.skip \/ \A name \in DOMAIN job.manifest.files : Serves(job, name)

\* The releases: what has been fetched is the manifest's, and what an edition's
\* release sends is the manifest's hash and a note of it.
Releases(r) ==
  /\ r.pc \in {"runway", "fetch", "again", "margin"} => r.job.cmd = "release_edition"
  /\ r.pc = "fetch" =>
       /\ DOMAIN r = {"pc", "job", "attempt", "pending"}
       /\ \A name \in DOMAIN r.job.manifest.files \ r.pending : Serves(r.job, name)
  /\ r.pc \in {"again", "margin"} => Served(r.job)
  /\ r.pc = "release" => r.job.cmd \in {"release", "release_edition"}
  /\ r.pc = "release" /\ r.job.cmd = "release_edition" =>
       /\ Served(r.job)
       /\ r.hash = r.job.manifest.sha256
       /\ r.note = ReleaseNote(r.job.manifest, r.job.id, r.job.cid)
  /\ r.pc = "release" /\ r.job.cmd = "release" =>
       /\ r.job.id \in 1..agreement_count
       /\ r.job.id \in Live =>
            LET a == agreements[r.job.id] IN
            a.condition = "hash" /\ a.max_seats > 1 => r.job.no_edition_note

Knows(r) ==
  Begun(r) /\ Scans(r) /\ Drains(r) /\ Releases(r) /\ r.pc \notin {"stalled", "lost"}

\* What a create's scan saw does not stand beside what it created.
Beheld ==
  \A id \in DOMAIN scanned :
    /\ scanned[id] \in 0..agreement_count
    /\ \A seen \in 1..scanned[id] : Passed(seen, now)

RunsInv ==
  /\ BoxInv
  /\ plan \in Plans
  /\ DOMAIN run = Shell
  /\ \A s \in Shell : Knows(run[s])
  /\ Beheld
  /\ LinkKept

-----------------------------------------------------------------------------
(* Every call of the contract goes on from the records before it.          *)

\* A record is later than itself.
LEMMA LaterSelf ==
  ASSUME NEW a, Recorded(a)
  PROVE  Later(a, a)
  BY DEF Recorded, Later

\* The boxes as they were.
LEMMA SameBoxes ==
  ASSUME BoxInv, UNCHANGED <<agreement_count, agreements>>, now' \in Nat, now' >= now
  PROVE  BoxInv' /\ Onward
  <1>1. Live' = Live /\ agreements' = agreements
    BY DEF Live
  <1>2. \A id \in Live : Later(agreements'[id], agreements[id])
    BY <1>1, LaterSelf DEF BoxInv
  <1>3. BoxInv'
    BY <1>1 DEF BoxInv
  <1> QED
    BY <1>1, <1>2, <1>3 DEF Onward, BoxInv

\* One record replaced by a later one.
LEMMA OneReplaced ==
  ASSUME BoxInv, UNCHANGED <<now, agreement_count>>, NEW id \in Live, NEW a,
         Recorded(a), Later(a, agreements[id]), agreements' = [agreements EXCEPT ![id] = a]
  PROVE  BoxInv' /\ Onward
  <1>1. \A i \in Live : Later(agreements[i], agreements[i])
    BY LaterSelf DEF BoxInv
  <1>2. Live' = Live /\ \A i \in Live : agreements'[i] = IF i = id THEN a ELSE agreements[i]
    BY DEF Live
  <1>3. \A i \in Live : Recorded(agreements'[i]) /\ Later(agreements'[i], agreements[i])
    BY <1>1, <1>2 DEF BoxInv
  <1>4. BoxInv'
    BY <1>2, <1>3 DEF BoxInv
  <1> QED
    BY <1>2, <1>3, <1>4 DEF BoxInv, Onward

LEMMA CreateOnward ==
  ASSUME BoxInv, NEW caller, NEW o, o.deadline \in Int, NEW deposit,
         CreateAgreement(caller, o, deposit)
  PROVE  BoxInv' /\ Onward /\ agreement_count' = agreement_count + 1
  <1> DEFINE new == NewAgreement(o, caller)
             id == agreement_count + 1
  <1>1. agreement_count' = id /\ agreements' = WithBox(agreements, id, new) /\ now' = now
    BY DEF CreateAgreement, ledgerVars
  <1>2. Live' = Live \cup {id}
    BY <1>1 DEF WithBox, Live
  <1>3. id \notin Live /\ \A i \in Live : agreements'[i] = agreements[i]
    <2>1. id \notin Live
      BY DEF BoxInv
    <2> QED
      BY <1>1, <2>1 DEF WithBox, Live
  <1>4. agreements'[id] = new
    BY <1>1 DEF WithBox
  <1>5. Recorded(new)
    <2>1. o.condition \in {"hash", "quorum"}
      BY DEF CreateAgreement, CreatePasses, ValidOffer
    <2> QED
      BY <2>1 DEF NewAgreement, Recorded, Fields, States
  <1>6. \A i \in Live' : Recorded(agreements'[i])
    BY <1>2, <1>3, <1>4, <1>5 DEF BoxInv
  <1>7. BoxInv'
    BY <1>1, <1>2, <1>6 DEF BoxInv
  <1>8. \A i \in Live : Later(agreements'[i], agreements[i])
    BY <1>3, LaterSelf DEF BoxInv
  <1>9. id \notin 1..agreement_count
    BY DEF BoxInv
  <1> QED
    BY <1>1, <1>2, <1>7, <1>8, <1>9 DEF Onward, BoxInv

LEMMA JoinOnward ==
  ASSUME BoxInv, NEW caller, NEW id, NEW p, Join(caller, id, p)
  PROVE  BoxInv' /\ Onward
  <1> DEFINE a == agreements[id]
             b == Seated(a, p.amount)
  <1>1. id \in Live /\ Recorded(a) /\ a.state = "OPEN"
    BY DEF Join, JoinPasses, BoxInv
  <1>2. DOMAIN b = Fields
    BY <1>1 DEF Seated, Recorded
  <1>3. /\ b.seats = a.seats + 1 /\ b.refund_cursor = a.refund_cursor
        /\ b.condition = a.condition /\ b.deadline = a.deadline
        /\ b.min_seats = a.min_seats /\ b.max_seats = a.max_seats
        /\ b.state \in {"OPEN", "FUNDED", "FILLED"}
        /\ b.state = "FUNDED" => a.condition # "quorum"
    BY <1>1 DEF Seated, Recorded, Fields
  <1>4. Recorded(b) /\ Later(b, a)
    BY <1>1, <1>2, <1>3 DEF Recorded, Later, States, Returning
  <1> QED
    BY <1>1, <1>4, OneReplaced DEF Join, ledgerVars

\* A record whose state goes on from what is not open, or to EXPIRED from
\* before the refunds.
LEMMA StateOnward ==
  ASSUME NEW a, Recorded(a), NEW b, DOMAIN b = Fields,
         \A f \in Fields \ {"state", "total_held", "unclaimed_seats"} : b[f] = a[f],
         \/ b.state = a.state
         \/ a.state \notin Returning /\ b.state \in {"RELEASED", "EXPIRED"}
  PROVE  Recorded(b) /\ Later(b, a)
  <1>1. /\ b.seats = a.seats /\ b.refund_cursor = a.refund_cursor
        /\ b.condition = a.condition /\ b.deadline = a.deadline
        /\ b.min_seats = a.min_seats /\ b.max_seats = a.max_seats
    BY DEF Fields
  <1> QED
    BY <1>1 DEF Recorded, Later, States, Returning

LEMMA ReleaseOnward ==
  ASSUME BoxInv, NEW id \in Live, agreements[id].state \in {"FUNDED", "FILLED"}, Release(id)
  PROVE  BoxInv' /\ Onward
  <1> DEFINE a == agreements[id]
             b == [a EXCEPT !.total_held = 0, !.state = "RELEASED"]
  <1>1. Recorded(a)
    BY DEF BoxInv
  <1>2. DOMAIN b = Fields /\ b.state = "RELEASED"
    BY <1>1 DEF Recorded, Fields
  <1>3. \A f \in Fields \ {"state", "total_held", "unclaimed_seats"} : b[f] = a[f]
    BY <1>1 DEF Recorded
  <1>4. Recorded(b) /\ Later(b, a)
    BY <1>1, <1>2, <1>3, StateOnward DEF Returning
  <1> QED
    BY <1>4, OneReplaced DEF Release, ledgerVars

LEMMA ExpireOnward ==
  ASSUME BoxInv, NEW caller, NEW id, Expire(caller, id)
  PROVE  /\ BoxInv' /\ Onward
         /\ id \in Live
         /\ agreements'[id].state = "EXPIRED"
  <1> DEFINE a == agreements[id]
             b == [a EXCEPT !.state = "EXPIRED"]
  <1>1. id \in Live /\ Recorded(a) /\ a.state \notin Returning
    BY DEF Expire, ExpirePasses, Expirable, BoxInv, Returning
  <1>2. DOMAIN b = Fields /\ b.state = "EXPIRED"
    BY <1>1 DEF Recorded, Fields
  <1>3. \A f \in Fields \ {"state", "total_held", "unclaimed_seats"} : b[f] = a[f]
    BY <1>1 DEF Recorded
  <1>4. Recorded(b) /\ Later(b, a)
    BY <1>1, <1>2, <1>3, StateOnward
  <1>5. agreements' = [agreements EXCEPT ![id] = b] /\ UNCHANGED <<now, agreement_count>>
    BY DEF Expire, ledgerVars
  <1>6. agreements'[id] = b
    BY <1>1, <1>5 DEF Live
  <1> QED
    BY <1>1, <1>2, <1>4, <1>5, <1>6, OneReplaced

LEMMA ClaimOnward ==
  ASSUME BoxInv, NEW id, NEW seat, ClaimRefund(id, seat)
  PROVE  BoxInv' /\ Onward
  <1> DEFINE a == agreements[id]
             b == [a EXCEPT !.total_held = a.total_held - roster[id][seat].amount,
                            !.unclaimed_seats = a.unclaimed_seats - 1]
  <1>1. id \in Live /\ Recorded(a)
    BY DEF ClaimRefund, ClaimRefundPasses, BoxInv
  <1>2. DOMAIN b = Fields /\ b.state = a.state
    BY <1>1 DEF Recorded, Fields
  <1>3. \A f \in Fields \ {"state", "total_held", "unclaimed_seats"} : b[f] = a[f]
    BY <1>1 DEF Recorded
  <1>4. Recorded(b) /\ Later(b, a)
    BY <1>1, <1>2, <1>3, StateOnward
  <1>5. agreements' = [agreements EXCEPT ![id] = b] /\ UNCHANGED <<now, agreement_count>>
    BY DEF ClaimRefund, ledgerVars
  <1> QED
    BY <1>1, <1>4, <1>5, OneReplaced

\* A refund moves the cursor, or finishes the pass.
LEMMA RefundOnward ==
  ASSUME BoxInv, NEW id, NEW count \in Nat, RefundNext(id, count)
  PROVE  /\ BoxInv' /\ Onward
         /\ id \in Live /\ agreements[id].state \in {"EXPIRED", "REFUNDING"}
         /\ LET b == agreements'[id] IN
            \/ b.state = "REFUNDED"
            \/ b.state = "REFUNDING" /\ b.refund_cursor > agreements[id].refund_cursor
  <1> DEFINE a == agreements[id]
             last == WindowEnd(a, count)
             b == [a EXCEPT !.refund_cursor = last,
                            !.total_held = a.total_held - Worth(id, Payable(id, last)),
                            !.unclaimed_seats =
                               a.unclaimed_seats + Cardinality(Skipped(id, last)),
                            !.state = IF last >= a.seats THEN "REFUNDED" ELSE "REFUNDING"]
  <1>1. id \in Live /\ Recorded(a) /\ a.state \in {"EXPIRED", "REFUNDING"} /\ count > 0
    BY DEF RefundNext, RefundNextPasses, BoxInv
  <1>2. /\ last \in 0..a.seats /\ last >= a.refund_cursor
        /\ last < a.seats => last > a.refund_cursor
    BY <1>1 DEF WindowEnd, Recorded
  <1>3. DOMAIN b = Fields
    BY <1>1 DEF Recorded
  <1>4. b.state = (IF last >= a.seats THEN "REFUNDED" ELSE "REFUNDING") /\ b.refund_cursor = last
    BY <1>1 DEF Recorded, Fields
  <1>5. \A f \in Fields \ {"state", "total_held", "unclaimed_seats", "refund_cursor"} :
          b[f] = a[f]
    BY <1>1 DEF Recorded
  <1>6. /\ b.seats = a.seats /\ b.condition = a.condition /\ b.deadline = a.deadline
        /\ b.min_seats = a.min_seats /\ b.max_seats = a.max_seats
    BY <1>5 DEF Fields
  <1>7. b.state \in {"REFUNDED", "REFUNDING"}
    BY <1>4
  <1>8. Recorded(b)
    BY <1>1, <1>2, <1>3, <1>4, <1>6, <1>7 DEF Recorded, States
  <1>9. a.state # "REFUNDED"
    BY <1>1
  <1>10. Later(b, a)
    BY <1>1, <1>2, <1>4, <1>6, <1>7, <1>9 DEF Recorded, Later, Returning
  <1>11. agreements' = [agreements EXCEPT ![id] = b] /\ UNCHANGED <<now, agreement_count>>
    BY DEF RefundNext, ledgerVars
  <1>12. agreements'[id] = b
    BY <1>1, <1>11 DEF Live
  <1>13. last >= a.seats \/ last < a.seats
    BY <1>1, <1>2 DEF Recorded
  <1> HIDE DEF b, last
  <1>14. b.state = "REFUNDED" \/ (b.state = "REFUNDING" /\ b.refund_cursor > a.refund_cursor)
    BY <1>2, <1>4, <1>13
  <1> QED
    BY <1>1, <1>8, <1>10, <1>11, <1>12, <1>14, OneReplaced

LEMMA CloseOnward ==
  ASSUME BoxInv, NEW id, Close(id)
  PROVE  BoxInv' /\ Onward
  <1>1. agreements' = WithoutBox(agreements, id) /\ UNCHANGED <<now, agreement_count>>
    BY DEF Close, ledgerVars
  <1>2. Live' = Live \ {id} /\ \A i \in Live' : agreements'[i] = agreements[i]
    BY <1>1 DEF WithoutBox, Live
  <1>3. BoxInv'
    BY <1>1, <1>2 DEF BoxInv
  <1>4. \A i \in Live' : i \in Live /\ Later(agreements'[i], agreements[i])
    BY <1>2, LaterSelf DEF BoxInv
  <1> QED
    BY <1>1, <1>3, <1>4 DEF Onward, BoxInv

-----------------------------------------------------------------------------
(* What a run knows stays true while others act.                           *)

\* What a scan has been through stays so.
LEMMA PassedStays ==
  ASSUME BoxInv, Onward, NEW id \in 1..agreement_count,
         NEW m \in Int, Passed(id, m), NEW n \in Int, n >= m
  PROVE  id \in Live' => ~IsOpenPoolShape(agreements'[id], n)
  <1> SUFFICES ASSUME id \in Live', IsOpenPoolShape(agreements'[id], n) PROVE FALSE
    OBVIOUS
  <1>1. id \in Live /\ Later(agreements'[id], agreements[id]) /\ Recorded(agreements[id])
    BY DEF Onward, BoxInv
  <1>2. IsOpenPoolShape(agreements[id], m)
    BY <1>1 DEF IsOpenPoolShape, Later, Recorded
  <1> QED
    BY <1>1, <1>2 DEF Passed

\* A run that does not act knows what it knew.
LEMMA ScansStay ==
  ASSUME BoxInv, BoxInv', Onward, NEW s, run'[s] = run[s], Scans(run[s])
  PROVE  Scans(run[s])'
  <1> DEFINE r == run[s]
  <1>1. now \in Nat /\ now' \in Nat /\ now' >= now
    BY DEF BoxInv, Onward
  <1>2. agreement_count \in Nat /\ agreement_count' \in Nat /\ agreement_count' >= agreement_count
    BY DEF BoxInv, Onward
  <1>3. ASSUME r.pc = "scan"
        PROVE  /\ r.saw \in 0..agreement_count'
               /\ \A id \in (r.at + 1)..r.saw :
                    id \in Live' => ~IsOpenPoolShape(agreements'[id], r.moment)
    <2>1. /\ r.saw \in 0..agreement_count /\ r.at \in 0..r.saw /\ r.moment \in Nat
          /\ \A id \in (r.at + 1)..r.saw : Passed(id, r.moment)
      BY <1>3 DEF Scans
    <2>2. \A id \in (r.at + 1)..r.saw : id \in 1..agreement_count
      BY <1>2, <2>1
    <2> QED
      BY <1>2, <2>1, <2>2, PassedStays
  <1>4. ASSUME r.pc \in {"name", "create"}
        PROVE  /\ r.saw \in 0..agreement_count'
               /\ \A id \in 1..r.saw : id \in Live' => ~IsOpenPoolShape(agreements'[id], now')
    <2>1. r.saw \in 0..agreement_count /\ \A id \in 1..r.saw : Passed(id, now)
      BY <1>4 DEF Scans
    <2>2. \A id \in 1..r.saw : id \in 1..agreement_count
      BY <1>2, <2>1
    <2> QED
      BY <1>1, <1>2, <2>1, <2>2, PassedStays
  <1>5. r.pc \in {"count", "scan"} => r.moment \in Nat /\ r.moment <= now'
    BY <1>1 DEF Scans
  <1>6. r.pc = "scan" =>
          DOMAIN r = {"pc", "job", "moment", "at", "saw"} /\ r.at \in 0..r.saw
    BY DEF Scans
  <1>7. r.pc \in {"name", "create"} => r.deadline \in Int
    BY DEF Scans
  <1>8. r.pc \in {"paused", "count", "scan", "name", "create"} => r.job.cmd = "create"
    BY DEF Scans
  <1> QED
    BY <1>3, <1>4, <1>5, <1>6, <1>7, <1>8 DEF Scans, Passed

\* What drain knows of a record since it read it holds of the record later.
LEMMA LaterIsOnto ==
  ASSUME NEW a, NEW b, NEW before, Recorded(a), Recorded(b), Later(b, a),
         before.refund_cursor \in Nat, Onto(a, before)
  PROVE  /\ Onto(b, before)
         /\ Moved(a, before) => Moved(b, before)
  <1>1. a.refund_cursor \in Nat /\ b.refund_cursor \in Nat
    BY DEF Recorded
  <1>2. /\ b.refund_cursor >= a.refund_cursor
        /\ a.state \in {"REFUNDING", "REFUNDED"} => b.state \in {"REFUNDING", "REFUNDED"}
        /\ a.state = "REFUNDED" => b.state = "REFUNDED"
    BY DEF Later
  <1>3. Onto(b, before)
    BY <1>1, <1>2 DEF Onto
  <1>4. Moved(a, before) => Moved(b, before)
    BY <1>1, <1>2 DEF Moved
  <1> QED
    BY <1>3, <1>4

LEMMA DrainsStay ==
  ASSUME BoxInv, BoxInv', Onward, NEW s, run'[s] = run[s], Drains(run[s])
  PROVE  Drains(run[s])'
  <1> DEFINE r == run[s]
             id == r.job.id
  <1>1. ASSUME r.pc \in {"cursor", "roster", "refund", "reread"}, r.job.cmd = "drain"
        PROVE  /\ id \in 1..agreement_count'
               /\ id \in Live' => agreements'[id].state \in Returning
               /\ "before" \in DOMAIN r /\ id \in Live' =>
                    /\ Onto(agreements'[id], r.before)
                    /\ r.pc = "reread" => Moved(agreements'[id], r.before)
    <2>1. id \in 1..agreement_count
      BY <1>1 DEF Drains
    <2>2. id \in 1..agreement_count'
      BY <2>1 DEF BoxInv, Onward
    <2>3. id \in Live' =>
            /\ id \in Live /\ Later(agreements'[id], agreements[id])
            /\ Recorded(agreements[id]) /\ Recorded(agreements'[id])
      BY <2>1 DEF Onward, BoxInv
    <2>4. id \in Live' => agreements[id].state \in Returning
      BY <1>1, <2>3 DEF Drains
    <2>5. id \in Live' => agreements'[id].state \in Returning
      BY <2>3, <2>4 DEF Later
    <2>6. ASSUME "before" \in DOMAIN r, id \in Live'
          PROVE  /\ Onto(agreements'[id], r.before)
                 /\ r.pc = "reread" => Moved(agreements'[id], r.before)
      <3>1. /\ Onto(agreements[id], r.before) /\ r.before.refund_cursor \in Nat
            /\ r.pc = "reread" => Moved(agreements[id], r.before)
        BY <1>1, <2>3, <2>6 DEF Drains
      <3> QED
        BY <2>3, <2>6, <3>1, LaterIsOnto
    <2> QED
      BY <2>2, <2>5, <2>6
  <1> QED
    BY <1>1 DEF Drains

LEMMA ReleasesStay ==
  ASSUME BoxInv, BoxInv', Onward, NEW s, run'[s] = run[s], Releases(run[s])
  PROVE  Releases(run[s])'
  <1> DEFINE r == run[s]
             id == r.job.id
  <1>1. ASSUME r.pc = "release", r.job.cmd = "release"
        PROVE  /\ id \in 1..agreement_count'
               /\ id \in Live' =>
                    (agreements'[id].condition = "hash" /\ agreements'[id].max_seats > 1
                       => r.job.no_edition_note)
    <2>1. id \in 1..agreement_count
      BY <1>1 DEF Releases
    <2>2. id \in 1..agreement_count'
      BY <2>1 DEF BoxInv, Onward
    <2>3. id \in Live' => id \in Live /\ Later(agreements'[id], agreements[id])
      BY <2>1 DEF Onward
    <2> QED
      BY <1>1, <2>2, <2>3 DEF Releases, Later
  <1> QED
    BY <1>1 DEF Releases

LEMMA KnowsStays ==
  ASSUME BoxInv, BoxInv', Onward, NEW s, run'[s] = run[s], Knows(run[s])
  PROVE  Knows(run[s])'
  <1>1. Begun(run[s])'
    BY DEF Knows, Begun
  <1>2. Scans(run[s])' /\ Drains(run[s])' /\ Releases(run[s])'
    BY ScansStay, DrainsStay, ReleasesStay DEF Knows
  <1> QED
    BY <1>1, <1>2 DEF Knows

LEMMA BeheldStays ==
  ASSUME BoxInv, BoxInv', Onward, Beheld, NEW id \in DOMAIN scanned
  PROVE  /\ scanned[id] \in 0..agreement_count'
         /\ \A seen \in 1..scanned[id] :
              seen \in Live' => ~IsOpenPoolShape(agreements'[seen], now')
  <1>1. now \in Nat /\ now' \in Nat /\ now' >= now
    BY DEF BoxInv, Onward
  <1>2. agreement_count \in Nat /\ agreement_count' \in Nat /\ agreement_count' >= agreement_count
    BY DEF BoxInv, Onward
  <1>3. scanned[id] \in 0..agreement_count /\ \A seen \in 1..scanned[id] : Passed(seen, now)
    BY DEF Beheld
  <1>4. \A seen \in 1..scanned[id] : seen \in 1..agreement_count
    BY <1>2, <1>3
  <1> QED
    BY <1>1, <1>2, <1>3, <1>4, PassedStays

-----------------------------------------------------------------------------
(* The steps of everybody else, and of the clock.                          *)

\* A step of the chain, whoever takes it.
Around ==
  \/ \E caller : \E o \in OfferType :
       CreateAgreement(caller, o, RequiredDeposit(o.max_seats))
  \/ \E value \in BOOLEAN : SetPaused(admin, value)
  \/ \E id \in Live :
       \/ \E payer \in Payers, p \in Payments : Join(payer, id, p)
       \/ agreements[id].state \in {"FUNDED", "FILLED"} /\ CanDeliver(id) /\ Release(id)
       \/ \E caller : Expire(caller, id)
       \/ \E count \in 1..BatchCeiling : RefundNext(id, count)
       \/ \E seat \in DOMAIN roster[id] : ClaimRefund(id, seat)
       \/ Close(id)
  \/ Tick
  \/ \E acct \in Fickle : LoseHolding(acct) \/ RegainHolding(acct)
  \/ UNCHANGED vars

LEMMA AroundOnward ==
  ASSUME BoxInv, Around
  PROVE  BoxInv' /\ Onward
  <1>1. ASSUME NEW caller, NEW o \in OfferType,
               CreateAgreement(caller, o, RequiredDeposit(o.max_seats))
        PROVE  BoxInv' /\ Onward
    <2>1. o.deadline \in Int
      BY DEF OfferType
    <2> QED
      BY <1>1, <2>1, CreateOnward
  <1>2. ASSUME NEW value, SetPaused(admin, value)
        PROVE  BoxInv' /\ Onward
    BY <1>2, SameBoxes DEF SetPaused, ledgerVars, boxVars, BoxInv
  <1>3. ASSUME NEW id \in Live, NEW payer, NEW p, Join(payer, id, p)
        PROVE  BoxInv' /\ Onward
    BY <1>3, JoinOnward
  <1>4. ASSUME NEW id \in Live, agreements[id].state \in {"FUNDED", "FILLED"}, Release(id)
        PROVE  BoxInv' /\ Onward
    BY <1>4, ReleaseOnward
  <1>5. ASSUME NEW id \in Live, NEW caller, Expire(caller, id)
        PROVE  BoxInv' /\ Onward
    BY <1>5, ExpireOnward
  <1>6. ASSUME NEW id \in Live, NEW count \in 1..BatchCeiling, RefundNext(id, count)
        PROVE  BoxInv' /\ Onward
    <2>1. count \in Nat
      BY NumberAssumption
    <2> QED
      BY <1>6, <2>1, RefundOnward
  <1>7. ASSUME NEW id \in Live, NEW seat, ClaimRefund(id, seat)
        PROVE  BoxInv' /\ Onward
    BY <1>7, ClaimOnward
  <1>8. ASSUME NEW id \in Live, Close(id)
        PROVE  BoxInv' /\ Onward
    BY <1>8, CloseOnward
  <1>9. ASSUME \/ Tick
               \/ \E acct \in Fickle : LoseHolding(acct) \/ RegainHolding(acct)
               \/ UNCHANGED vars
        PROVE  BoxInv' /\ Onward
    <2>1. UNCHANGED <<agreement_count, agreements>> /\ now' \in Nat /\ now' >= now
      BY <1>9 DEF Tick, LoseHolding, RegainHolding, boxVars, vars, BoxInv
    <2> QED
      BY <2>1, SameBoxes
  <1> QED
    BY <1>1, <1>2, <1>3, <1>4, <1>5, <1>6, <1>7, <1>8, <1>9 DEF Around

LEMMA ElsewhereIsAround ==
  ASSUME plan \in Plans, Elsewhere
  PROVE  /\ Around
         /\ plan' \in Plans
         /\ UNCHANGED <<run, scanned, released>>
  <1>1. ASSUME NEW o \in plan.offers, CreateAgreement(admin, o, RequiredDeposit(o.max_seats)),
               plan' = [plan EXCEPT !.offers = @ \ {o}]
        PROVE  Around /\ plan' \in Plans
    <2>1. o \in OfferType
      BY DEF Plans
    <2>2. plan' \in Plans
      BY <1>1 DEF Plans
    <2> QED
      BY <1>1, <2>1, <2>2 DEF Around
  <1>2. ASSUME NEW id \in Live,
               \/ \E payer \in Payers, p \in Payments : Join(payer, id, p)
               \/ ReleaseQuorum(id)
               \/ \E payer \in Payers : Expire(payer, id)
               \/ \E count \in 1..BatchCeiling : RefundNext(id, count)
               \/ \E seat \in Occupied(id) : ClaimRefund(id, seat)
               \/ Close(id)
        PROVE  Around
    <2>1. ReleaseQuorum(id) =>
            agreements[id].state \in {"FUNDED", "FILLED"} /\ CanDeliver(id) /\ Release(id)
      BY DEF ReleaseQuorum, ReleaseQuorumPasses
    <2>2. \A seat : ClaimRefund(id, seat) => seat \in DOMAIN roster[id]
      BY DEF ClaimRefund, ClaimRefundPasses
    <2> QED
      BY <1>2, <2>1, <2>2 DEF Around
  <1> QED
    BY <1>1, <1>2 DEF Elsewhere, Around, scriptVars

\* A step at which one run acts, and nothing is written down of it, has to be
\* looked at only in that run.
LEMMA OneRuns ==
  ASSUME RunsInv, BoxInv', Onward, plan' \in Plans, UNCHANGED <<scanned, released>>,
         NEW s \in Shell, NEW next, run' = [run EXCEPT ![s] = next], Knows(run[s])'
  PROVE  RunsInv'
  <1>1. DOMAIN run' = Shell
    BY DEF RunsInv
  <1>2. ASSUME NEW t \in Shell PROVE Knows(run[t])'
    <2>1. CASE t = s
      BY <2>1
    <2>2. CASE t # s
      <3>1. run'[t] = run[t]
        BY <2>2 DEF RunsInv
      <3> QED
        BY <3>1, KnowsStays DEF RunsInv
    <2> QED
      BY <2>1, <2>2
  <1>3. Beheld'
    BY BeheldStays DEF RunsInv, Beheld, Passed
  <1>4. LinkKept'
    BY DEF RunsInv, LinkKept
  <1> QED
    BY <1>1, <1>2, <1>3, <1>4 DEF RunsInv

\* The same where no run acts.
LEMMA NoneRuns ==
  ASSUME RunsInv, BoxInv', Onward, plan' \in Plans, UNCHANGED <<run, scanned, released>>
  PROVE  RunsInv'
  <1>1. ASSUME NEW t \in Shell PROVE Knows(run[t])'
    BY KnowsStays DEF RunsInv
  <1>2. Beheld'
    BY BeheldStays DEF RunsInv, Beheld, Passed
  <1>3. LinkKept'
    BY DEF RunsInv, LinkKept
  <1> QED
    BY <1>1, <1>2, <1>3 DEF RunsInv

LEMMA ElsewhereKeeps == RunsInv /\ Elsewhere => RunsInv'
  BY AroundOnward, ElsewhereIsAround, NoneRuns DEF RunsInv

-----------------------------------------------------------------------------
(* The steps of a script that send no call.                                *)

\* A run acts and the chain stands still.
LEMMA ChainStands ==
  ASSUME RunsInv, NEW s \in Shell, NEW next, Goes(s, next)
  PROVE  /\ UNCHANGED <<now, agreement_count, agreements, roster, plan, scanned, released>>
         /\ BoxInv' /\ Onward
         /\ run'[s] = next
         /\ Knows(run[s])' => RunsInv'
  <1>1. UNCHANGED <<now, agreement_count, agreements, roster, plan, scanned, released>>
    BY DEF Goes, vars
  <1>2. BoxInv' /\ Onward
    BY <1>1, SameBoxes DEF RunsInv, BoxInv
  <1>3. run' = [run EXCEPT ![s] = next] /\ run'[s] = next
    BY DEF Goes, RunsInv
  <1> QED
    BY <1>1, <1>2, <1>3, OneRuns DEF RunsInv

LEMMA BeginKeeps ==
  ASSUME RunsInv, NEW s \in Shell, Begin(s)
  PROVE  RunsInv'
  <1> DEFINE job == Head(plan.jobs[s])
  <1>1. /\ UNCHANGED <<now, agreement_count, agreements, scanned, released>>
        /\ run' = [run EXCEPT ![s] = [pc |-> FirstRequest(job), job |-> job]]
        /\ plan' = [plan EXCEPT !.jobs[s] = Tail(@)]
    BY DEF Begin, vars
  <1>2. plan.jobs \in [Shell -> Seq(Commands)] /\ plan.jobs[s] # <<>>
    BY DEF RunsInv, Plans, Begin
  <1>3. job \in Commands /\ Tail(plan.jobs[s]) \in Seq(Commands)
    BY <1>2
  <1>4. plan' \in Plans
    BY <1>1, <1>2, <1>3 DEF RunsInv, Plans
  <1>5. BoxInv' /\ Onward
    BY <1>1, SameBoxes DEF RunsInv, BoxInv
  <1>6. run'[s] = [pc |-> FirstRequest(job), job |-> job]
    BY <1>1 DEF RunsInv
  <1>7. Knows(run[s])'
    <2>1. Offline(job)
      BY DEF Begin
    <2>2. /\ job.cmd = "create" =>
               /\ job.length \in Int /\ job.price \in Nat /\ job.seats \in Nat
               /\ job.manifest.sha256 \in Hash \cup {ZeroHash}
          /\ job.cmd = "drain" => {"cmd", "id", "count"} \subseteq DOMAIN job
      BY <1>3, SceneAssumption
    <2>3. FirstRequest(job) \in {"paused", "cursor", "seat", "close", "record"}
      BY DEF FirstRequest
    <2>4. /\ FirstRequest(job) = "paused" => job.cmd = "create"
          /\ FirstRequest(job) = "cursor" => job.cmd = "refund"
      BY DEF FirstRequest
    <2>5. job.cmd = "refund" => job.count \in Nat \ {0}
      BY <2>1 DEF Offline
    <2>6. Begun(run[s])'
      BY <1>6, <2>1, <2>2 DEF Begun
    <2>7. Scans(run[s])' /\ Releases(run[s])'
      BY <1>6, <2>3, <2>4 DEF Scans, Releases
    <2>8. Drains(run[s])'
      BY <1>6, <2>3, <2>4, <2>5 DEF Drains
    <2> QED
      BY <1>6, <2>3, <2>6, <2>7, <2>8 DEF Knows
  <1> QED
    BY <1>1, <1>4, <1>5, <1>7, OneRuns

\* A run that has ended knows nothing.
LEMMA IdleKnows ==
  ASSUME NEW s, run'[s] = Idle
  PROVE  Knows(run[s])'
  BY DEF Knows, Begun, Scans, Drains, Releases, Idle, Ended

LEMMA GiveUpKeeps ==
  ASSUME RunsInv, NEW s \in Shell, GiveUp(s)
  PROVE  RunsInv'
  BY ChainStands, IdleKnows DEF GiveUp

\* create_pool, up to its call.
LEMMA ReadPausedKeeps ==
  ASSUME RunsInv, NEW s \in Shell, ReadPaused(s)
  PROVE  RunsInv'
  <1> DEFINE next == [pc |-> "count", job |-> run[s].job, moment |-> now]
  <1>1. Goes(s, next) /\ run[s].pc = "paused"
    BY DEF ReadPaused
  <1>2. run'[s] = next /\ UNCHANGED now
    BY <1>1, ChainStands
  <1>3. /\ Offline(run[s].job) /\ run[s].job.cmd = "create" /\ run[s].job.length \in Int
        /\ now \in Nat
    BY <1>1 DEF RunsInv, Knows, Begun, Scans, BoxInv, Ended
  <1>4. Begun(run[s])'
    BY <1>1, <1>2 DEF RunsInv, Knows, Begun, Ended
  <1>5. Knows(run[s])'
    BY <1>2, <1>3, <1>4 DEF Knows, Scans, Drains, Releases, Ended
  <1> QED
    BY <1>1, <1>5, ChainStands

LEMMA ReadNewestKeeps ==
  ASSUME RunsInv, NEW s \in Shell, ReadNewest(s)
  PROVE  RunsInv'
  <1> DEFINE next == [pc |-> "scan", job |-> run[s].job, moment |-> run[s].moment,
                      at |-> agreement_count, saw |-> agreement_count]
  <1>1. Goes(s, next) /\ run[s].pc = "count"
    BY DEF ReadNewest
  <1>2. run'[s] = next /\ UNCHANGED <<now, agreement_count>>
    BY <1>1, ChainStands
  <1>3. /\ Offline(run[s].job) /\ run[s].job.cmd = "create" /\ run[s].job.length \in Int
        /\ now \in Nat /\ agreement_count \in Nat
        /\ run[s].moment \in Nat /\ run[s].moment <= now
    BY <1>1 DEF RunsInv, Knows, Begun, Scans, BoxInv, Ended
  <1>4. Begun(run[s])'
    BY <1>1, <1>2 DEF RunsInv, Knows, Begun, Ended
  <1>5. Knows(run[s])'
    BY <1>2, <1>3, <1>4 DEF Knows, Scans, Drains, Releases, Ended
  <1> QED
    BY <1>1, <1>5, ChainStands

LEMMA ScanOneKeeps ==
  ASSUME RunsInv, NEW s \in Shell, ScanOne(s)
  PROVE  RunsInv'
  <1> DEFINE r == run[s]
             next == [r EXCEPT !.at = @ - 1]
  <1>1. r.pc = "scan" /\ r.at > 0
    BY DEF ScanOne
  <1>2. CASE r.at \in Live /\ Blocks(agreements[r.at], r.job, r.moment)
    <2>1. Goes(s, Idle)
      BY <1>2 DEF ScanOne
    <2> QED
      BY <2>1, ChainStands, IdleKnows
  <1>3. CASE ~(r.at \in Live /\ Blocks(agreements[r.at], r.job, r.moment))
    <2>1. Goes(s, next)
      BY <1>3 DEF ScanOne
    <2>2. run'[s] = next /\ UNCHANGED <<now, agreement_count, agreements>>
      BY <2>1, ChainStands
    <2>3. /\ Offline(r.job) /\ r.job.cmd = "create" /\ r.job.length \in Int
          /\ now \in Nat /\ agreement_count \in Nat
          /\ r.moment \in Nat /\ r.moment <= now
          /\ DOMAIN r = {"pc", "job", "moment", "at", "saw"}
          /\ r.saw \in 0..agreement_count /\ r.at \in 0..r.saw
          /\ \A id \in (r.at + 1)..r.saw : Passed(id, r.moment)
      BY <1>1 DEF RunsInv, Knows, Begun, Scans, BoxInv, Ended
    <2>4. /\ next.pc = "scan" /\ next.job = r.job /\ next.moment = r.moment
          /\ next.saw = r.saw /\ next.at = r.at - 1
          /\ DOMAIN next = {"pc", "job", "moment", "at", "saw"}
      BY <1>1, <2>3
    <2>5. Passed(r.at, r.moment)
      BY <1>3 DEF Passed, Blocks
    <2>6. \A id \in (next.at + 1)..next.saw : Passed(id, next.moment)
      <3>1. \A id \in (next.at + 1)..next.saw : id = r.at \/ id \in (r.at + 1)..r.saw
        BY <1>1, <2>3, <2>4
      <3> QED
        BY <2>3, <2>4, <2>5, <3>1
    <2>7. next.saw \in 0..agreement_count /\ next.at \in 0..next.saw
      BY <1>1, <2>3, <2>4
    <2> HIDE DEF next
    <2>8. Begun(run[s])'
      BY <1>1, <2>2, <2>4 DEF RunsInv, Knows, Begun, Ended
    <2>9. Knows(run[s])'
      BY <2>2, <2>3, <2>4, <2>6, <2>7, <2>8
      DEF Knows, Scans, Drains, Releases, Ended, Passed, Live
    <2> QED
      BY <2>1, <2>9, ChainStands
  <1> QED
    BY <1>2, <1>3

LEMMA SettleDeadlineKeeps ==
  ASSUME RunsInv, NEW s \in Shell, SettleDeadline(s)
  PROVE  RunsInv'
  <1> DEFINE r == run[s]
             deadline == now + Lasting(r.job)
             next == [pc |-> "name", job |-> r.job, saw |-> r.saw, deadline |-> deadline]
  <1>1. r.pc = "scan" /\ r.at = 0
    BY DEF SettleDeadline
  <1>2. CASE r.job.dry
    <2>1. Goes(s, Idle)
      BY <1>2 DEF SettleDeadline
    <2> QED
      BY <2>1, ChainStands, IdleKnows
  <1>3. CASE ~r.job.dry
    <2>1. Goes(s, next)
      BY <1>3 DEF SettleDeadline
    <2>2. run'[s] = next /\ UNCHANGED <<now, agreement_count, agreements>>
      BY <2>1, ChainStands
    <2>3. /\ Offline(r.job) /\ r.job.cmd = "create" /\ r.job.length \in Int
          /\ now \in Nat /\ agreement_count \in Nat
          /\ r.moment \in Nat /\ r.moment <= now
          /\ r.saw \in 0..agreement_count
          /\ \A id \in 1..r.saw : Passed(id, r.moment)
      BY <1>1 DEF RunsInv, Knows, Begun, Scans, BoxInv, Ended
    <2>4. Lasting(r.job) \in Int
      <3>1. r.job.length * Minute \in Int /\ Day * r.job.length \in Int /\ Day * DefaultDays \in Int
        BY <2>3, ScriptAssumption
      <3> QED
        BY <3>1 DEF Lasting
    <2>5. deadline \in Int
      BY <2>3, <2>4
    <2>6. \A id \in 1..r.saw : Passed(id, now)
      <3> SUFFICES ASSUME NEW id \in 1..r.saw, id \in Live, IsOpenPoolShape(agreements[id], now)
                   PROVE  FALSE
        BY DEF Passed
      <3>1. agreements[id].deadline \in Int
        BY DEF RunsInv, BoxInv, Recorded
      <3>2. IsOpenPoolShape(agreements[id], r.moment)
        BY <2>3, <3>1 DEF IsOpenPoolShape
      <3> QED
        BY <2>3, <3>2 DEF Passed
    <2> HIDE DEF deadline
    <2>7. Begun(run[s])'
      BY <1>1, <2>2 DEF RunsInv, Knows, Begun, Ended
    <2>8. Knows(run[s])'
      BY <2>2, <2>3, <2>5, <2>6, <2>7
      DEF Knows, Scans, Drains, Releases, Ended, Passed, Live
    <2> QED
      BY <2>1, <2>8, ChainStands
  <1> QED
    BY <1>2, <1>3

LEMMA NameBoxesKeeps ==
  ASSUME RunsInv, NEW s \in Shell, NameBoxes(s)
  PROVE  RunsInv'
  <1> DEFINE r == run[s]
             deposit == RequiredDeposit(r.job.seats)
             next == [pc |-> "create", job |-> r.job, saw |-> r.saw, deadline |-> r.deadline,
                      id |-> agreement_count + 1, deposit |-> deposit]
  <1>1. r.pc = "name" /\ Goes(s, next)
    BY DEF NameBoxes
  <1>2. run'[s] = next /\ UNCHANGED <<now, agreement_count, agreements>>
    BY <1>1, ChainStands
  <1>3. /\ Offline(r.job) /\ r.job.cmd = "create" /\ r.job.length \in Int
        /\ r.saw \in 0..agreement_count /\ r.deadline \in Int
        /\ \A id \in 1..r.saw : Passed(id, now)
    BY <1>1 DEF RunsInv, Knows, Begun, Scans, Ended
  <1> HIDE DEF deposit
  <1>4. Begun(run[s])'
    BY <1>1, <1>2 DEF RunsInv, Knows, Begun, Ended
  <1>5. Knows(run[s])'
    BY <1>2, <1>3, <1>4 DEF Knows, Scans, Drains, Releases, Ended, Passed, Live
  <1> QED
    BY <1>1, <1>5, ChainStands

\* pool_ops, up to its calls.
\* What drain goes on to knows what it has just read.
LEMMA DrainOnKnows ==
  ASSUME RunsInv, NEW s \in Shell, run[s].pc \notin Ended, run[s].job.cmd = "drain",
         NEW a, run[s].job.id \in Live, a = agreements[run[s].job.id],
         a.state \notin {"OPEN", "FUNDED", "FILLED"}, Goes(s, DrainOn(run[s].job, a))
  PROVE  RunsInv'
  <1> DEFINE job == run[s].job
             id == job.id
             filled == [job EXCEPT !.count = RefundBatchSize(a)]
  <1>1. /\ UNCHANGED <<now, agreement_count, agreements>>
        /\ run'[s] = DrainOn(job, a)
    BY ChainStands
  <1>2. Recorded(a) /\ id \in 1..agreement_count
    BY DEF RunsInv, BoxInv
  <1>3. Offline(job) /\ {"cmd", "id", "count"} \subseteq DOMAIN job
    BY DEF RunsInv, Knows, Begun
  <1>4. CASE DrainStep(a, Keys[job.role]) = "refund_next"
    <2>1. a.state \in {"EXPIRED", "REFUNDING"}
      BY <1>4 DEF DrainStep
    <2>2. run'[s] = [pc |-> "cursor", job |-> filled, before |-> a]
      BY <1>1, <1>4, <2>1 DEF DrainOn
    <2>3. RefundBatchSize(a) \in Nat \ {0}
      BY <1>2, BatchIsAllowed, NumberAssumption DEF Recorded
    <2>4. /\ filled.cmd = "drain" /\ filled.id = id /\ filled.count = RefundBatchSize(a)
          /\ {"cmd", "id", "count"} \subseteq DOMAIN filled
      BY <1>3
    <2>5. Onto(a, a) /\ a.state \in Returning /\ a.refund_cursor \in Nat
      BY <1>2, <2>1 DEF Onto, Returning, Recorded
    <2>6. Offline(filled)
      BY <2>4 DEF Offline
    <2> HIDE DEF filled
    <2>7. Begun(run[s])' /\ Scans(run[s])' /\ Releases(run[s])'
      BY <2>2, <2>4, <2>6 DEF Begun, Scans, Releases, Ended
    <2>8. Drains(run[s])'
      BY <1>1, <1>2, <2>1, <2>2, <2>3, <2>4, <2>5 DEF Drains, Live
    <2>9. Knows(run[s])'
      BY <2>2, <2>7, <2>8 DEF Knows
    <2> QED
      BY <2>9, ChainStands
  <1>5. CASE DrainStep(a, Keys[job.role]) = "close"
    <2>1. run'[s] = [pc |-> "close", job |-> job]
      BY <1>1, <1>5 DEF DrainOn
    <2>2. Knows(run[s])'
      BY <1>3, <2>1 DEF Knows, Begun, Scans, Drains, Releases, Ended
    <2> QED
      BY <2>2, ChainStands
  <1>6. CASE DrainStep(a, Keys[job.role]) \notin {"refund_next", "close"}
    <2>1. run'[s] = Idle
      BY <1>1, <1>6 DEF DrainOn
    <2> QED
      BY <2>1, ChainStands, IdleKnows
  <1> QED
    BY <1>4, <1>5, <1>6

LEMMA ReadRecordKeeps ==
  ASSUME RunsInv, NEW s \in Shell, ReadRecord(s)
  PROVE  RunsInv'
  <1> DEFINE job == run[s].job
             a == agreements[job.id]
  <1>1. run[s].pc = "record" /\ job.cmd \in {"expire", "drain"} /\ job.id \in Live
    BY DEF ReadRecord
  <1>2. CASE job.cmd = "expire" \/ a.state \in {"OPEN", "FUNDED", "FILLED"}
    <2>1. Goes(s, [pc |-> "holding", job |-> job, rec |-> a])
      BY <1>2 DEF ReadRecord
    <2>2. run'[s] = [pc |-> "holding", job |-> job, rec |-> a]
      BY <2>1, ChainStands
    <2>3. Begun(run[s])'
      BY <1>1, <2>2 DEF RunsInv, Knows, Begun, Ended
    <2>4. Knows(run[s])'
      BY <1>1, <2>2, <2>3 DEF Knows, Scans, Drains, Releases
    <2> QED
      BY <2>1, <2>4, ChainStands
  <1>3. CASE ~(job.cmd = "expire" \/ a.state \in {"OPEN", "FUNDED", "FILLED"})
    <2>1. Goes(s, DrainOn(job, a))
      BY <1>3 DEF ReadRecord
    <2> QED
      BY <1>1, <1>3, <2>1, DrainOnKnows DEF Ended
  <1> QED
    BY <1>2, <1>3

\* A run that changes what it keeps to a place of its own, its command line as
\* it was, where nothing is known of it.
LEMMA GoesAside ==
  ASSUME RunsInv, NEW s \in Shell, run[s].pc \notin Ended,
         NEW next, Goes(s, next), {"pc", "job"} \subseteq DOMAIN next,
         next.job = run[s].job,
         next.pc \in {"holding", "clock", "expire", "seat", "claim"}
  PROVE  RunsInv'
  <1>1. run'[s] = next
    BY ChainStands
  <1>2. Begun(run[s])'
    BY <1>1 DEF RunsInv, Knows, Begun, Ended
  <1>3. Knows(run[s])'
    BY <1>1, <1>2 DEF Knows, Scans, Drains, Releases
  <1> QED
    BY <1>3, ChainStands

LEMMA ReadHoldingKeeps ==
  ASSUME RunsInv, NEW s \in Shell, ReadHolding(s)
  PROVE  RunsInv'
  <1> DEFINE next == [run[s] EXCEPT !.pc = "clock"]
  <1>1. run[s].pc = "holding" /\ Goes(s, next)
    BY DEF ReadHolding
  <1>2. {"pc", "job"} \subseteq DOMAIN run[s]
    BY <1>1 DEF RunsInv, Knows, Begun, Ended
  <1>3. {"pc", "job"} \subseteq DOMAIN next /\ next.pc = "clock" /\ next.job = run[s].job
    BY <1>2
  <1> QED
    BY <1>1, <1>3, GoesAside DEF Ended

LEMMA ReadClockKeeps ==
  ASSUME RunsInv, NEW s \in Shell, ReadClock(s)
  PROVE  RunsInv'
  <1> DEFINE next == [run[s] EXCEPT !.pc = "expire"]
  <1>1. run[s].pc = "clock" /\ Goes(s, next)
    BY DEF ReadClock
  <1>2. {"pc", "job"} \subseteq DOMAIN run[s]
    BY <1>1 DEF RunsInv, Knows, Begun, Ended
  <1>3. {"pc", "job"} \subseteq DOMAIN next /\ next.pc = "expire" /\ next.job = run[s].job
    BY <1>2
  <1> QED
    BY <1>1, <1>3, GoesAside DEF Ended

LEMMA ReadSeatKeeps ==
  ASSUME RunsInv, NEW s \in Shell, ReadSeat(s)
  PROVE  RunsInv'
  <1> DEFINE next == [pc |-> "claim", job |-> run[s].job,
                      payer |-> roster[run[s].job.id][run[s].job.seat].payer]
  <1>1. run[s].pc = "seat" /\ Goes(s, next)
    BY DEF ReadSeat
  <1> QED
    BY <1>1, GoesAside DEF Ended

\* What drain rereads is past its expire, or moved by its refund.
LEMMA RereadKeeps ==
  ASSUME RunsInv, NEW s \in Shell, Reread(s)
  PROVE  RunsInv'
  <1> DEFINE r == run[s]
             a == agreements[r.job.id]
  <1>1. r.pc = "reread" /\ r.job.id \in Live
    BY DEF Reread
  <1>2. Drains(r) /\ Recorded(a)
    BY <1>1 DEF RunsInv, Knows, BoxInv
  <1>3. r.job.cmd = "drain" /\ a.state \in Returning
    BY <1>1, <1>2 DEF Drains
  <1>4. ~("before" \in DOMAIN r /\ Unmoved(a, r.before))
    <2>1. ASSUME "before" \in DOMAIN r
          PROVE  Moved(a, r.before) /\ r.before.state \in {"EXPIRED", "REFUNDING"}
      BY <1>1, <1>2, <1>3, <2>1 DEF Drains
    <2>2. ASSUME "before" \in DOMAIN r, r.before.refund_cursor \in Nat
          PROVE  ~Unmoved(a, r.before)
      BY <1>2, <2>1, <2>2 DEF Moved, Unmoved, Recorded
    <2> QED
      BY <1>1, <1>2, <1>3, <2>2 DEF Drains
  <1>5. Goes(s, DrainOn(r.job, a))
    BY <1>4 DEF Reread
  <1> QED
    BY <1>1, <1>3, <1>5, DrainOnKnows DEF Ended, Returning

LEMMA ReadCursorKeeps ==
  ASSUME RunsInv, NEW s \in Shell, ReadCursor(s)
  PROVE  RunsInv'
  <1> DEFINE r == run[s]
             before == IF "before" \in DOMAIN r THEN r.before ELSE agreements[r.job.id]
             next == [pc |-> "roster", job |-> r.job, rec |-> agreements[r.job.id],
                      before |-> before]
  <1>1. r.pc = "cursor" /\ Goes(s, next)
    BY DEF ReadCursor
  <1>2. run'[s] = next /\ UNCHANGED <<now, agreement_count, agreements>>
    BY <1>1, ChainStands
  <1>3. Begun(r) /\ Drains(r)
    BY DEF RunsInv, Knows
  <1>4. r.job.cmd = "drain" => before = r.before
    BY <1>1, <1>3 DEF Drains
  <1> HIDE DEF before
  <1>5. Begun(run[s])' /\ Scans(run[s])' /\ Releases(run[s])'
    BY <1>1, <1>2, <1>3 DEF Begun, Scans, Releases, Drains, Ended
  <1>6. Drains(run[s])'
    BY <1>1, <1>2, <1>3, <1>4 DEF Drains, Live
  <1>7. Knows(run[s])'
    BY <1>2, <1>5, <1>6 DEF Knows
  <1> QED
    BY <1>1, <1>7, ChainStands

LEMMA ReadRosterKeeps ==
  ASSUME RunsInv, NEW s \in Shell, ReadRoster(s)
  PROVE  RunsInv'
  <1> DEFINE r == run[s]
             named == IF r.job.id \in Live
                        THEN NamedPayers(r.rec, roster[r.job.id], r.job.count) ELSE {}
             next == [pc |-> "refund", job |-> r.job, rec |-> r.rec, before |-> r.before,
                      named |-> named]
  <1>1. r.pc = "roster" /\ Goes(s, next)
    BY DEF ReadRoster
  <1>2. run'[s] = next /\ UNCHANGED <<now, agreement_count, agreements>>
    BY <1>1, ChainStands
  <1>3. Begun(r) /\ Drains(r)
    BY DEF RunsInv, Knows
  <1> HIDE DEF named
  <1>4. Begun(run[s])' /\ Scans(run[s])' /\ Releases(run[s])'
    BY <1>1, <1>2, <1>3 DEF Begun, Scans, Releases, Drains, Ended
  <1>5. Drains(run[s])'
    BY <1>1, <1>2, <1>3 DEF Drains, Live
  <1>6. Knows(run[s])'
    BY <1>2, <1>4, <1>5 DEF Knows
  <1> QED
    BY <1>1, <1>6, ChainStands

-----------------------------------------------------------------------------
(* The releases, up to their calls.                                        *)

LEMMA ReadForReleaseKeeps ==
  ASSUME RunsInv, NEW s \in Shell, ReadForRelease(s)
  PROVE  RunsInv'
  <1> DEFINE job == run[s].job
             a == agreements[job.id]
             next == [pc |-> "release", job |-> job, hash |-> job.sha256, note |-> NoNote]
  <1>1. /\ run[s].pc = "record" /\ job.cmd = "release" /\ job.id \in Live
        /\ PlainRelease(job, a) /\ Goes(s, next)
    BY DEF ReadForRelease
  <1>2. run'[s] = next /\ UNCHANGED <<now, agreement_count, agreements>>
    BY <1>1, ChainStands
  <1>3. job.id \in 1..agreement_count
    BY <1>1 DEF RunsInv, BoxInv
  <1>4. a.condition = "hash" /\ a.max_seats > 1 => job.no_edition_note
    BY <1>1 DEF PlainRelease
  <1>5. Begun(run[s])'
    BY <1>1, <1>2 DEF RunsInv, Knows, Begun, Ended
  <1>6. Scans(run[s])' /\ Drains(run[s])'
    BY <1>2 DEF Scans, Drains
  <1>7. Releases(run[s])'
    BY <1>1, <1>2, <1>3, <1>4 DEF Releases, Live
  <1>8. Knows(run[s])'
    BY <1>2, <1>5, <1>6, <1>7 DEF Knows
  <1> QED
    BY <1>1, <1>8, ChainStands

LEMMA ReadReleasableKeeps ==
  ASSUME RunsInv, NEW s \in Shell, ReadReleasable(s)
  PROVE  RunsInv'
  <1> DEFINE r == run[s]
             place == IF r.pc = "record" THEN "runway" ELSE "margin"
             rec == agreements[r.job.id]
             fetched == IF r.pc = "again" THEN r.fetched ELSE 0
             next == [pc |-> place, job |-> r.job, rec |-> rec, fetched |-> fetched]
  <1>1. r.pc \in {"record", "again"} /\ r.job.cmd = "release_edition" /\ Goes(s, next)
    BY DEF ReadReleasable
  <1>2. run'[s] = next
    BY <1>1, ChainStands
  <1>3. place \in {"runway", "margin"} /\ (place = "margin" => r.pc = "again")
    BY <1>1
  <1>4. Begun(r) /\ Releases(r)
    BY DEF RunsInv, Knows
  <1> HIDE DEF place, fetched, rec
  <1>5. Begun(run[s])'
    BY <1>1, <1>2, <1>3, <1>4 DEF Begun, Ended
  <1>6. Scans(run[s])' /\ Drains(run[s])'
    BY <1>2, <1>3 DEF Scans, Drains
  <1>7. place = "margin" => Served(r.job)
    BY <1>3, <1>4 DEF Releases
  <1>8. Releases(run[s])'
    BY <1>1, <1>2, <1>3, <1>7 DEF Releases
  <1>9. Knows(run[s])'
    BY <1>2, <1>3, <1>5, <1>6, <1>8 DEF Knows
  <1> QED
    BY <1>1, <1>9, ChainStands

\* The files are all served, or the operator waives that.
LEMMA FetchedKeeps ==
  ASSUME RunsInv, NEW s \in Shell, run[s].pc \in {"runway", "fetch"}, Served(run[s].job),
         Goes(s, AfterFetch(run[s]))
  PROVE  RunsInv'
  <1> DEFINE r == run[s]
  <1>1. run'[s] = [pc |-> "again", job |-> r.job, fetched |-> now]
    BY ChainStands DEF AfterFetch
  <1>2. Begun(r) /\ r.job.cmd = "release_edition"
    BY DEF RunsInv, Knows, Releases
  <1>3. Begun(run[s])'
    BY <1>1, <1>2 DEF Begun, Ended
  <1>4. Scans(run[s])' /\ Drains(run[s])'
    BY <1>1 DEF Scans, Drains
  <1>5. Releases(run[s])'
    BY <1>1, <1>2 DEF Releases
  <1>6. Knows(run[s])'
    BY <1>1, <1>3, <1>4, <1>5 DEF Knows
  <1> QED
    BY <1>6, ChainStands

LEMMA CheckRunwayKeeps ==
  ASSUME RunsInv, NEW s \in Shell, CheckRunway(s)
  PROVE  RunsInv'
  <1> DEFINE r == run[s]
             next == [pc |-> "fetch", job |-> r.job, attempt |-> 1,
                      pending |-> DOMAIN r.job.manifest.files]
  <1>1. r.pc = "runway"
    BY DEF CheckRunway
  <1>2. CASE r.job.skip
    <2>1. Goes(s, AfterFetch(r)) /\ Served(r.job)
      BY <1>2 DEF CheckRunway, Served
    <2> QED
      BY <1>1, <2>1, FetchedKeeps
  <1>3. CASE ~r.job.skip
    <2>1. Goes(s, next)
      BY <1>3 DEF CheckRunway
    <2>2. run'[s] = next
      BY <2>1, ChainStands
    <2>3. Begun(r) /\ r.job.cmd = "release_edition"
      BY <1>1 DEF RunsInv, Knows, Releases
    <2>4. Begun(run[s])'
      BY <1>1, <2>2, <2>3 DEF Begun, Ended
    <2>5. Scans(run[s])' /\ Drains(run[s])'
      BY <2>2 DEF Scans, Drains
    <2>6. Releases(run[s])'
      BY <2>2, <2>3 DEF Releases
    <2>7. Knows(run[s])'
      BY <2>2, <2>4, <2>5, <2>6 DEF Knows
    <2> QED
      BY <2>1, <2>7, ChainStands
  <1> QED
    BY <1>2, <1>3

LEMMA FetchKeeps ==
  ASSUME RunsInv, NEW s \in Shell, Fetch(s)
  PROVE  RunsInv'
  <1> DEFINE r == run[s]
             true == {name \in r.pending :
                        /\ name \in DOMAIN Bundle[r.job.cid]
                        /\ Bundle[r.job.cid][name] = r.job.manifest.files[name]}
  <1>1. r.pc = "fetch"
    BY DEF Fetch
  <1>2. PICK answers \in SUBSET (true \X Gateways(r.job)) :
          LET served == {answer[1] : answer \in answers} IN
          Goes(s, IF r.pending = served THEN AfterFetch(r)
                  ELSE IF r.attempt = VerifyAttempts THEN Idle
                  ELSE [r EXCEPT !.attempt = @ + 1, !.pending = @ \ served])
    BY DEF Fetch
  <1> DEFINE served == {answer[1] : answer \in answers}
             next == [r EXCEPT !.attempt = @ + 1, !.pending = @ \ served]
  <1>3. \A name \in served : Serves(r.job, name)
    BY DEF Serves
  <1>4. Begun(r) /\ Releases(r) /\ r.job.cmd = "release_edition"
    BY <1>1 DEF RunsInv, Knows, Releases
  <1>5. /\ DOMAIN r = {"pc", "job", "attempt", "pending"}
        /\ \A name \in DOMAIN r.job.manifest.files \ r.pending : Serves(r.job, name)
    BY <1>1, <1>4 DEF Releases
  <1> HIDE DEF served
  <1>6. CASE r.pending = served
    <2>1. Served(r.job)
      BY <1>3, <1>5, <1>6 DEF Served
    <2>2. Goes(s, AfterFetch(r))
      BY <1>2, <1>6 DEF served
    <2> QED
      BY <1>1, <2>1, <2>2, FetchedKeeps
  <1>7. CASE r.pending # served /\ r.attempt = VerifyAttempts
    <2>1. Goes(s, Idle)
      BY <1>2, <1>7 DEF served
    <2> QED
      BY <2>1, ChainStands, IdleKnows
  <1>8. CASE r.pending # served /\ r.attempt # VerifyAttempts
    <2>1. Goes(s, next)
      BY <1>2, <1>8 DEF served
    <2>2. run'[s] = next
      BY <2>1, ChainStands
    <2>3. /\ next.pc = "fetch" /\ next.job = r.job /\ next.pending = r.pending \ served
          /\ DOMAIN next = {"pc", "job", "attempt", "pending"}
      BY <1>1, <1>5
    <2>4. \A name \in DOMAIN r.job.manifest.files \ next.pending : Serves(r.job, name)
      BY <1>3, <1>5, <2>3
    <2> HIDE DEF next
    <2>5. Begun(run[s])'
      BY <1>1, <1>4, <2>2, <2>3 DEF Begun, Ended
    <2>6. Scans(run[s])' /\ Drains(run[s])'
      BY <2>2, <2>3 DEF Scans, Drains
    <2>7. Releases(run[s])'
      BY <1>4, <2>2, <2>3, <2>4 DEF Releases
    <2>8. Knows(run[s])'
      BY <2>2, <2>3, <2>5, <2>6, <2>7 DEF Knows
    <2> QED
      BY <2>1, <2>8, ChainStands
  <1> QED
    BY <1>6, <1>7, <1>8

LEMMA CheckMarginKeeps ==
  ASSUME RunsInv, NEW s \in Shell, CheckMargin(s)
  PROVE  RunsInv'
  <1> DEFINE r == run[s]
             note == ReleaseNote(r.job.manifest, r.job.id, r.job.cid)
             next == [pc |-> "release", job |-> r.job, hash |-> r.rec.commit_hash,
                      fetched |-> r.fetched, note |-> note]
  <1>1. /\ r.pc = "margin" /\ r.rec.commit_hash = r.job.manifest.sha256
    BY DEF CheckMargin, CheckReleasable
  <1>2. CASE r.job.dry
    <2>1. Goes(s, Idle)
      BY <1>2 DEF CheckMargin
    <2> QED
      BY <2>1, ChainStands, IdleKnows
  <1>3. CASE ~r.job.dry
    <2>1. Goes(s, next)
      BY <1>3 DEF CheckMargin
    <2>2. run'[s] = next
      BY <2>1, ChainStands
    <2>3. Begun(r) /\ r.job.cmd = "release_edition" /\ Served(r.job)
      BY <1>1 DEF RunsInv, Knows, Releases
    <2>4. /\ run'[s].pc = "release" /\ run'[s].job = r.job /\ run'[s].note = note
          /\ run'[s].hash = r.job.manifest.sha256 /\ {"pc", "job"} \subseteq DOMAIN run'[s]
      BY <1>1, <2>2
    <2>5. Begun(run[s])'
      BY <1>1, <2>3, <2>4 DEF Begun, Ended
    <2>6. Scans(run[s])' /\ Drains(run[s])'
      BY <2>4 DEF Scans, Drains
    <2>7. Releases(run[s])'
      BY <2>3, <2>4 DEF Releases
    <2>8. Knows(run[s])'
      BY <2>4, <2>5, <2>6, <2>7 DEF Knows
    <2> QED
      BY <2>1, <2>8, ChainStands
  <1> QED
    BY <1>2, <1>3

-----------------------------------------------------------------------------
(* The calls.                                                              *)

LEMMA SendExpireKeeps ==
  ASSUME RunsInv, NEW s \in Shell, SendExpire(s)
  PROVE  RunsInv'
  <1> DEFINE r == run[s]
             id == r.job.id
             next == IF r.job.cmd = "drain" THEN [pc |-> "reread", job |-> r.job] ELSE Idle
  <1>1. r.pc = "expire" /\ Expire(Keys[r.job.role], id) /\ Lands(s, next)
    BY DEF SendExpire
  <1>2. BoxInv' /\ Onward /\ id \in Live /\ agreements'[id].state = "EXPIRED"
    BY <1>1, ExpireOnward DEF RunsInv
  <1>3. run' = [run EXCEPT ![s] = next] /\ UNCHANGED <<plan, scanned, released>>
    BY <1>1 DEF Lands
  <1>4. run'[s] = next
    BY <1>3 DEF RunsInv
  <1>5. Knows(run[s])'
    <2>1. CASE r.job.cmd = "drain"
      <3>1. run'[s] = [pc |-> "reread", job |-> r.job]
        BY <1>4, <2>1
      <3>2. Begun(run[s])'
        BY <1>1, <3>1 DEF RunsInv, Knows, Begun, Ended
      <3>3. id \in 1..agreement_count'
        <4>1. id \in 1..agreement_count /\ agreement_count' >= agreement_count
          BY <1>2 DEF RunsInv, BoxInv, Onward
        <4>2. agreement_count \in Nat /\ agreement_count' \in Nat
          BY <1>2 DEF RunsInv, BoxInv
        <4> QED
          BY <4>1, <4>2
      <3>4. Drains(run[s])'
        BY <1>2, <2>1, <3>1, <3>3 DEF Drains, Returning
      <3> QED
        BY <3>1, <3>2, <3>4 DEF Knows, Scans, Releases
    <2>2. CASE r.job.cmd # "drain"
      BY <1>4, <2>2, IdleKnows
    <2> QED
      BY <2>1, <2>2
  <1>6. plan' \in Plans
    BY <1>3 DEF RunsInv
  <1> QED
    BY <1>2, <1>3, <1>5, <1>6, OneRuns

LEMMA SendRefundKeeps ==
  ASSUME RunsInv, NEW s \in Shell, SendRefund(s)
  PROVE  RunsInv'
  <1> DEFINE r == run[s]
             id == r.job.id
             next == IF r.job.cmd = "drain"
                       THEN [pc |-> "reread", job |-> r.job, before |-> r.before] ELSE Idle
  <1>1. r.pc = "refund" /\ RefundNext(id, r.job.count) /\ Lands(s, next)
    BY DEF SendRefund
  <1>2. Begun(r) /\ Drains(r) /\ r.job.count \in Nat
    BY <1>1 DEF RunsInv, Knows, Drains
  <1>3. /\ BoxInv' /\ Onward /\ id \in Live
        /\ \/ agreements'[id].state = "REFUNDED"
           \/ /\ agreements'[id].state = "REFUNDING"
              /\ agreements'[id].refund_cursor > agreements[id].refund_cursor
    BY <1>1, <1>2, RefundOnward DEF RunsInv
  <1>4. run' = [run EXCEPT ![s] = next] /\ UNCHANGED <<plan, scanned, released>>
    BY <1>1 DEF Lands
  <1>5. run'[s] = next
    BY <1>4 DEF RunsInv
  <1>6. Knows(run[s])'
    <2>1. CASE r.job.cmd = "drain"
      <3>1. run'[s] = [pc |-> "reread", job |-> r.job, before |-> r.before]
        BY <1>5, <2>1
      <3>2. Begun(run[s])'
        BY <1>1, <1>2, <3>1 DEF Begun, Ended
      <3>3. id \in 1..agreement_count'
        <4>1. id \in 1..agreement_count /\ agreement_count' >= agreement_count
          BY <1>3 DEF RunsInv, BoxInv, Onward
        <4>2. agreement_count \in Nat /\ agreement_count' \in Nat
          BY <1>3 DEF RunsInv, BoxInv
        <4> QED
          BY <4>1, <4>2
      <3>4. /\ r.before.state \in {"EXPIRED", "REFUNDING"} /\ r.before.refund_cursor \in Nat
            /\ Onto(agreements[id], r.before)
        BY <1>1, <1>2, <1>3, <2>1 DEF Drains
      <3>5. Recorded(agreements[id]) /\ (id \in Live' => Recorded(agreements'[id]))
        BY <1>3 DEF RunsInv, BoxInv
      <3>6. id \in Live' => Onto(agreements'[id], r.before) /\ Moved(agreements'[id], r.before)
        <4>1. ASSUME id \in Live'
              PROVE  agreements'[id].refund_cursor >= agreements[id].refund_cursor
          BY <1>3, <4>1 DEF Onward, Later, RunsInv, BoxInv
        <4> QED
          BY <1>3, <3>4, <3>5, <4>1 DEF Onto, Moved, Recorded
      <3>7. Drains(run[s])'
        BY <1>3, <2>1, <3>1, <3>3, <3>4, <3>6 DEF Drains, Returning
      <3> QED
        BY <3>1, <3>2, <3>7 DEF Knows, Scans, Releases
    <2>2. CASE r.job.cmd # "drain"
      BY <1>5, <2>2, IdleKnows
    <2> QED
      BY <2>1, <2>2
  <1>7. plan' \in Plans
    BY <1>4 DEF RunsInv
  <1> QED
    BY <1>3, <1>4, <1>6, <1>7, OneRuns

LEMMA SendClaimKeeps ==
  ASSUME RunsInv, NEW s \in Shell, SendClaim(s)
  PROVE  RunsInv'
  <1>1. BoxInv' /\ Onward
    BY ClaimOnward DEF SendClaim, RunsInv
  <1>2. run' = [run EXCEPT ![s] = Idle] /\ UNCHANGED <<plan, scanned, released>>
    BY DEF SendClaim, Lands
  <1>3. run'[s] = Idle /\ plan' \in Plans
    BY <1>2 DEF RunsInv
  <1> QED
    BY <1>1, <1>2, <1>3, IdleKnows, OneRuns

LEMMA SendCloseKeeps ==
  ASSUME RunsInv, NEW s \in Shell, SendClose(s)
  PROVE  RunsInv'
  <1>1. BoxInv' /\ Onward
    BY CloseOnward DEF SendClose, RunsInv
  <1>2. run' = [run EXCEPT ![s] = Idle] /\ UNCHANGED <<plan, scanned, released>>
    BY DEF SendClose, Lands
  <1>3. run'[s] = Idle /\ plan' \in Plans
    BY <1>2 DEF RunsInv
  <1> QED
    BY <1>1, <1>2, <1>3, IdleKnows, OneRuns

\* The create goes through under the id it names, and what its scan saw does
\* not stand beside it.
LEMMA SendCreateKeeps ==
  ASSUME RunsInv, NEW s \in Shell, SendCreate(s)
  PROVE  RunsInv'
  <1> DEFINE r == run[s]
  <1>1. /\ r.pc = "create"
        /\ CreateAgreement(Keys["admin"], OfferOf(r), r.deposit)
        /\ scanned' = WithBox(scanned, r.id, r.saw)
        /\ run' = [run EXCEPT ![s] = Idle] /\ UNCHANGED <<plan, released>>
    BY DEF SendCreate
  <1>2. /\ r.saw \in 0..agreement_count /\ r.deadline \in Int
        /\ \A id \in 1..r.saw : Passed(id, now)
    BY <1>1 DEF RunsInv, Knows, Scans
  <1>3. OfferOf(r).deadline \in Int
    BY <1>2 DEF OfferOf
  <1>4. BoxInv' /\ Onward
    BY <1>1, <1>3, CreateOnward DEF RunsInv
  <1>5. \A t \in Shell : Knows(run[t])'
    <2>1. ASSUME NEW t \in Shell, t # s PROVE Knows(run[t])'
      <3>1. run'[t] = run[t]
        BY <1>1, <2>1 DEF RunsInv
      <3> QED
        BY <1>4, <3>1, KnowsStays DEF RunsInv
    <2>2. run'[s] = Idle
      BY <1>1 DEF RunsInv
    <2> QED
      BY <2>1, <2>2, IdleKnows
  <1>6. agreement_count \in Nat /\ agreement_count' \in Nat /\ agreement_count' >= agreement_count
    BY <1>4 DEF RunsInv, BoxInv, Onward
  <1>7. now \in Nat /\ now' \in Nat /\ now' >= now
    BY <1>4 DEF RunsInv, BoxInv, Onward
  <1>8. Beheld'
    <2> SUFFICES ASSUME NEW id \in DOMAIN scanned'
                 PROVE  /\ scanned'[id] \in 0..agreement_count'
                        /\ \A seen \in 1..scanned'[id] :
                             seen \in Live' => ~IsOpenPoolShape(agreements'[seen], now')
      BY DEF Beheld, Passed
    <2>1. CASE id = r.id
      <3>1. scanned'[id] = r.saw
        BY <1>1, <2>1 DEF WithBox
      <3>2. \A seen \in 1..r.saw : seen \in 1..agreement_count
        BY <1>2, <1>6
      <3>3. \A seen \in 1..r.saw : seen \in Live' => ~IsOpenPoolShape(agreements'[seen], now')
        BY <1>2, <1>4, <1>7, <3>2, PassedStays DEF RunsInv
      <3> QED
        BY <1>2, <1>6, <3>1, <3>3
    <2>2. CASE id # r.id
      <3>1. id \in DOMAIN scanned /\ scanned'[id] = scanned[id]
        BY <1>1, <2>2 DEF WithBox
      <3> QED
        BY <1>4, <3>1, BeheldStays DEF RunsInv
    <2> QED
      BY <2>1, <2>2
  <1>9. DOMAIN run' = Shell /\ plan' \in Plans /\ LinkKept'
    BY <1>1 DEF RunsInv, LinkKept
  <1> QED
    BY <1>4, <1>5, <1>8, <1>9 DEF RunsInv

\* The link of one release: LinkKept, of the record made of it.
Linked(id, r) ==
  r.seats > 1 =>
    \/ r.job.cmd = "release" /\ r.job.no_edition_note
    \/ /\ r.note # NoNote
       /\ r.note.agreement = id
       /\ \/ r.job.skip
          \/ LET name == CommittedFile(r.note.kind, r.note.edition) IN
               /\ name \in DOMAIN Bundle[r.note.cid]
               /\ Bundle[r.note.cid][name] = r.hash

\* A manifest that reads as one is committed to by one kind, the note's.
LEMMA NoteNamesFile ==
  ASSUME NEW m, ReadsAsManifest(m), NEW id, NEW cid
  PROVE  LET note == ReleaseNote(m, id, cid) IN
         /\ note # NoNote
         /\ note.agreement = id /\ note.cid = cid
         /\ CommittedFile(note.kind, note.edition) = m.file
  <1> DEFINE kind == CHOOSE k \in Kinds : k \in CommittedKind(m.file, m.edition)
  <1>1. \E k \in Kinds : k \in CommittedKind(m.file, m.edition)
    BY DEF ReadsAsManifest, CommittedKind
  <1>2. kind \in Kinds /\ kind \in CommittedKind(m.file, m.edition)
    BY <1>1
  <1>3. m.file = CommittedFile(kind, m.edition)
    BY <1>2 DEF CommittedKind
  <1> HIDE DEF kind
  <1>4. ReleaseNote(m, id, cid) =
          [kind |-> kind, edition |-> m.edition, agreement |-> id, cid |-> cid]
    BY DEF ReleaseNote, kind
  <1>5. kind # "none"
    BY <1>2 DEF Kinds
  <1>6. ReleaseNote(m, id, cid) # NoNote
    <2>1. ReleaseNote(m, id, cid).kind = kind /\ NoNote.kind = "none"
      BY <1>4 DEF NoNote
    <2> QED
      BY <1>5, <2>1
  <1> QED
    BY <1>3, <1>4, <1>6

LEMMA SendReleaseKeeps ==
  ASSUME RunsInv, NEW s \in Shell, SendRelease(s)
  PROVE  RunsInv'
  <1> DEFINE r == run[s]
             id == r.job.id
             record == [note |-> r.note, hash |-> r.hash, job |-> r.job,
                        seats |-> agreements[id].max_seats]
  <1>1. /\ r.pc = "release"
        /\ id \in Live /\ agreements[id].state = "FUNDED" /\ Release(id)
        /\ released' = WithBox(released, id, record)
        /\ run' = [run EXCEPT ![s] = Idle] /\ UNCHANGED <<plan, scanned>>
    BY DEF SendRelease, ReleaseHash, ReleaseHashPasses
  <1>2. BoxInv' /\ Onward
    BY <1>1, ReleaseOnward DEF RunsInv
  <1>3. Begun(r) /\ Releases(r) /\ agreements[id].condition = "hash"
    BY <1>1 DEF RunsInv, Knows, BoxInv, Recorded
  <1>4. Linked(id, record)
    <2>1. CASE r.job.cmd = "release"
      BY <1>1, <1>3, <2>1 DEF Releases, Linked
    <2>2. CASE r.job.cmd = "release_edition"
      <3> DEFINE m == r.job.manifest
      <3>1. ReadsAsManifest(m)
        BY <1>1, <1>3, <2>2 DEF Begun, Offline, Ended
      <3>2. Served(r.job) /\ r.hash = m.sha256 /\ r.note = ReleaseNote(m, id, r.job.cid)
        BY <1>1, <1>3, <2>2 DEF Releases
      <3>3. /\ r.note # NoNote /\ r.note.agreement = id /\ r.note.cid = r.job.cid
            /\ CommittedFile(r.note.kind, r.note.edition) = m.file
        BY <3>1, <3>2, NoteNamesFile
      <3>4. m.file \in DOMAIN m.files /\ m.files[m.file] = m.sha256
        BY <3>1 DEF ReadsAsManifest
      <3>5. r.job.skip \/ (m.file \in DOMAIN Bundle[r.job.cid]
                             /\ Bundle[r.job.cid][m.file] = m.sha256)
        BY <3>2, <3>4 DEF Served, Serves
      <3> QED
        BY <3>2, <3>3, <3>5 DEF Linked
    <2> QED
      BY <1>1, <1>3, <2>1, <2>2 DEF Releases
  <1>5. LinkKept'
    <2>1. \A i \in DOMAIN released' :
            released'[i] = IF i = id THEN record ELSE released[i]
      BY <1>1 DEF WithBox
    <2>2. \A i \in DOMAIN released' : i # id => i \in DOMAIN released
      BY <1>1 DEF WithBox
    <2>3. \A i \in DOMAIN released : Linked(i, released[i])
      BY DEF RunsInv, LinkKept, Linked
    <2> HIDE DEF record
    <2>4. \A i \in DOMAIN released' : Linked(i, released'[i])
      BY <1>4, <2>1, <2>2, <2>3
    <2> QED
      BY <2>4 DEF LinkKept, Linked
  <1>6. \A t \in Shell : Knows(run[t])'
    <2>1. ASSUME NEW t \in Shell, t # s PROVE Knows(run[t])'
      <3>1. run'[t] = run[t]
        BY <1>1, <2>1 DEF RunsInv
      <3> QED
        BY <1>2, <3>1, KnowsStays DEF RunsInv
    <2>2. run'[s] = Idle
      BY <1>1 DEF RunsInv
    <2> QED
      BY <2>1, <2>2, IdleKnows
  <1>7. Beheld'
    BY <1>1, <1>2, BeheldStays DEF RunsInv, Beheld, Passed
  <1>8. DOMAIN run' = Shell /\ plan' \in Plans
    BY <1>1 DEF RunsInv
  <1> QED
    BY <1>2, <1>5, <1>6, <1>7, <1>8 DEF RunsInv

-----------------------------------------------------------------------------
(* The theorems.                                                           *)

LEMMA InitRuns == InitOperators => RunsInv
  <1> SUFFICES ASSUME InitOperators PROVE RunsInv
    OBVIOUS
  <1>1. BoxInv
    BY DEF InitOperators, BoxInv, Live
  <1>2. plan \in Plans
    BY SceneAssumption DEF InitOperators
  <1>3. \A s \in Shell : Knows(run[s])
    BY DEF InitOperators, Knows, Begun, Scans, Drains, Releases, Idle, Ended
  <1> QED
    BY <1>1, <1>2, <1>3 DEF InitOperators, RunsInv, Beheld, LinkKept

LEMMA NextRuns == RunsInv /\ [NextOperators]_allVars => RunsInv'
  <1> SUFFICES ASSUME RunsInv, [NextOperators]_allVars PROVE RunsInv'
    OBVIOUS
  <1>1. ASSUME NEW s \in Shell, Script(s)
        PROVE  RunsInv'
    BY <1>1, BeginKeeps, GiveUpKeeps, ReadPausedKeeps, ReadNewestKeeps, ScanOneKeeps,
       SettleDeadlineKeeps, NameBoxesKeeps, SendCreateKeeps, ReadRecordKeeps,
       ReadHoldingKeeps, ReadClockKeeps, SendExpireKeeps, RereadKeeps, ReadCursorKeeps,
       ReadRosterKeeps, SendRefundKeeps, ReadSeatKeeps, SendClaimKeeps, SendCloseKeeps,
       ReadForReleaseKeeps, ReadReleasableKeeps, CheckRunwayKeeps, FetchKeeps,
       CheckMarginKeeps, SendReleaseKeeps
    DEF Script
  <1>2. CASE UNCHANGED allVars
    <2>1. UNCHANGED <<now, agreement_count, agreements, run, plan, scanned, released>>
      BY <1>2 DEF allVars, vars, scriptVars
    <2>2. BoxInv' /\ Onward /\ plan' \in Plans
      BY <2>1, SameBoxes DEF RunsInv, BoxInv
    <2> QED
      BY <2>1, <2>2, NoneRuns
  <1> QED
    BY <1>1, <1>2, ElsewhereKeeps DEF NextOperators

LEMMA RunsAlways == SpecOperators => []RunsInv
  BY InitRuns, NextRuns, PTL DEF SpecOperators

\* Two pools a script opened are on sale at once only if the second one's scan
\* had its newest id before the first was created (create_pool.py's
\* find_any_open_pool), whatever others open, join, expire or close meanwhile.
THEOREM OnePoolUnlessRacedAlways == SpecOperators => []OnePoolUnlessRaced
  <1>1. RunsInv => OnePoolUnlessRaced
    <2> SUFFICES ASSUME RunsInv, NEW i \in DOMAIN scanned \cap Live,
                        NEW j \in DOMAIN scanned \cap Live,
                        IsOpenPoolShape(agreements[i], now)
                 PROVE  scanned[j] < i
      BY DEF OnePoolUnlessRaced
    <2>1. i \in 1..agreement_count /\ agreement_count \in Nat
      BY DEF RunsInv, BoxInv
    <2>2. scanned[j] \in 0..agreement_count /\ \A seen \in 1..scanned[j] : Passed(seen, now)
      BY DEF RunsInv, Beheld
    <2>3. i \notin 1..scanned[j]
      BY <2>2 DEF Passed
    <2> QED
      BY <2>1, <2>2, <2>3
  <1> QED
    BY <1>1, RunsAlways, PTL

\* drain never finds that a call of its own changed nothing, nor a state it
\* cannot advance (pool_ops.py's two ways of giving up), whoever else refunds,
\* claims, closes or drains the same agreement.
THEOREM DrainKnowsItsWayAlways == SpecOperators => []DrainKnowsItsWay
  <1>1. RunsInv => DrainKnowsItsWay
    BY DEF RunsInv, Knows, DrainKnowsItsWay
  <1> QED
    BY <1>1, RunsAlways, PTL

\* Whatever a script released with several seats has a note that leads to the
\* bytes, or the operator said there is no edition (release_edition.py,
\* pool_ops.py's release).
THEOREM LinkKeptAlways == SpecOperators => []LinkKept
  <1>1. RunsInv => LinkKept
    BY DEF RunsInv
  <1> QED
    BY <1>1, RunsAlways, PTL
-----------------------------------------------------------------------------
(* The chain under the scripts: sound, solvent, and never taking back what *)
(* a script has gone by.                                                   *)

\* While the scripts run the minimum fee is the one deposits were priced at, the
\* application can receive, and the admin is the key create_pool signs with.
Chain ==
  IInv /\ Balanced /\ minFee = InitialFee /\ App \in canReceive /\ admin = Keys["admin"]

LEMMA ChainInit == InitOperators => Chain
  <1> SUFFICES ASSUME InitOperators PROVE Chain
    OBVIOUS
  <1>1. /\ DOMAIN agreements = {} /\ DOMAIN roster = {} /\ Live = {}
        /\ agreements \in [{} -> Agreement]
    BY DEF InitOperators, Live
  <1>2. usdc \in [Account \cup {App} -> Nat] /\ usdc[App] = 0
    BY NumberAssumption, AccountAssumption DEF InitOperators
  <1>3. agreement_count \in 0..MaxAgreements /\ now \in Nat
    BY NumberAssumption DEF InitOperators
  <1>4. paused \in BOOLEAN
    BY Zenon DEF InitOperators
  <1>5. minFee \in MinFees /\ minFee = InitialFee /\ algo \in Int /\ algo = Funding
    BY NumberAssumption DEF InitOperators
  <1>6. /\ canReceive \subseteq Account \cup {App} /\ App \in canReceive
        /\ admin = Keys["admin"] /\ admin \in Account
    BY ScriptAssumption DEF InitOperators
  <1>7. TypeOK
    BY <1>1, <1>2, <1>3, <1>4, <1>5, <1>6 DEF TypeOK
  <1>8. Accounting
    BY <1>1 DEF Accounting
  <1>9. Balanced
    <2>1. DOMAIN Held = {} /\ DOMAIN Deposited = {}
      BY <1>1 DEF Held, Deposited
    <2>2. SumFunction(Held) = 0 /\ SumFunction(Deposited) = 0
      BY <2>1, SumOfNone DEF SumFunction
    <2> QED
      BY <1>2, <1>5, <2>2, NumberAssumption DEF Balanced
  <1> QED
    BY <1>5, <1>6, <1>7, <1>8, <1>9 DEF Chain, IInv

\* No step of the chain touches the fee, the application's own holding or the
\* admin.
LEMMA AroundFrame ==
  ASSUME Chain, Around
  PROVE  minFee' = InitialFee /\ App \in canReceive' /\ admin' = Keys["admin"]
  <1>1. ASSUME UNCHANGED <<minFee, canReceive, admin>>
        PROVE  minFee' = InitialFee /\ App \in canReceive' /\ admin' = Keys["admin"]
    BY <1>1 DEF Chain
  <1>2. ASSUME NEW acct \in Fickle, LoseHolding(acct) \/ RegainHolding(acct)
        PROVE  minFee' = InitialFee /\ App \in canReceive' /\ admin' = Keys["admin"]
    BY <1>2, AccountAssumption DEF Chain, LoseHolding, RegainHolding, adminVars
  <1>3. ASSUME NEW id \in Live,
               \/ \E payer \in Payers, p \in Payments : Join(payer, id, p)
               \/ Release(id)
               \/ \E caller : Expire(caller, id)
               \/ \E count \in 1..BatchCeiling : RefundNext(id, count)
               \/ \E seat \in DOMAIN roster[id] : ClaimRefund(id, seat)
               \/ Close(id)
        PROVE  UNCHANGED <<minFee, canReceive, admin>>
    BY <1>3 DEF Join, Release, Expire, RefundNext, ClaimRefund, Close, ledgerVars, adminVars
  <1>4. ASSUME \/ \E caller : \E o \in OfferType :
                    CreateAgreement(caller, o, RequiredDeposit(o.max_seats))
               \/ \E value \in BOOLEAN : SetPaused(admin, value)
               \/ Tick
               \/ UNCHANGED vars
        PROVE  UNCHANGED <<minFee, canReceive, admin>>
    BY <1>4 DEF CreateAgreement, SetPaused, Tick, vars, ledgerVars, adminVars
  <1> QED
    BY <1>1, <1>2, <1>3, <1>4 DEF Around

\* Every step of the chain keeps the accounts exact and the deposits enough.
LEMMA ChainStep ==
  ASSUME Chain, Around
  PROVE  Chain'
  <1> USE DEF IInv
  <1>1. IInv /\ Balanced /\ TypeOK
    BY DEF Chain
  <1>2. ASSUME NEW caller, NEW o \in OfferType,
               CreateAgreement(caller, o, RequiredDeposit(o.max_seats))
        PROVE  IInv' /\ Balanced'
    <2>1. caller \in Account
      BY <1>1, <1>2 DEF CreateAgreement, CreatePasses, TypeOK
    <2> QED
      BY <1>1, <1>2, <2>1, TypeCreate, AccountingCreate, BalancedCreate
  <1>3. ASSUME NEW value \in BOOLEAN, SetPaused(admin, value)
        PROVE  IInv' /\ Balanced'
    <2>1. UNCHANGED <<now, minFee, canReceive, usdc, algo, admin, agreement_count,
                      agreements, roster>> /\ paused' \in BOOLEAN
      BY <1>3 DEF SetPaused, ledgerVars, boxVars
    <2>2. TypeOK'
      BY <1>1, <2>1 DEF TypeOK, Live
    <2> QED
      BY <1>1, <2>1, <2>2, BoxesUnchanged, BalancedUnmoved
  <1>4. ASSUME NEW id \in Live, NEW payer \in Payers, NEW p \in Payments, Join(payer, id, p)
        PROVE  IInv' /\ Balanced'
    BY <1>1, <1>4, TypeJoin, AccountingJoin, BalancedJoin, InputAssumption
  <1>5. ASSUME NEW id \in Live, agreements[id].state \in {"FUNDED", "FILLED"},
               CanDeliver(id), Release(id)
        PROVE  IInv' /\ Balanced'
    BY <1>1, <1>5, TypeRelease, AccountingRelease, BalancedRelease
  <1>6. ASSUME NEW id \in Live, NEW caller, Expire(caller, id)
        PROVE  IInv' /\ Balanced'
    BY <1>1, <1>6, TypeExpire, AccountingExpire, BalancedExpire
  <1>7. ASSUME NEW id \in Live, NEW count \in 1..BatchCeiling, RefundNext(id, count)
        PROVE  IInv' /\ Balanced'
    <2>1. count \in Nat
      BY NumberAssumption
    <2> QED
      BY <1>1, <1>7, <2>1, TypeRefundNext, AccountingRefundNext, BalancedRefundNext
  <1>8. ASSUME NEW id \in Live, NEW seat \in DOMAIN roster[id], ClaimRefund(id, seat)
        PROVE  IInv' /\ Balanced'
    <2>1. DOMAIN roster[id] = 0..(agreements[id].max_seats - 1) /\ agreements[id].max_seats \in Nat
      BY <1>1, BoxOf DEF Agreement
    <2>2. seat \in Nat
      BY <2>1
    <2> QED
      BY <1>1, <1>8, <2>2, TypeClaimRefund, AccountingClaim, BalancedClaim
  <1>9. ASSUME NEW id \in Live, Close(id)
        PROVE  IInv' /\ Balanced'
    BY <1>1, <1>9, TypeClose, AccountingClose, BalancedClose
  <1>10. ASSUME Tick \/ \E acct \in Fickle : LoseHolding(acct) \/ RegainHolding(acct)
         PROVE  IInv' /\ Balanced'
    <2>1. TypeOK'
      BY <1>1, <1>10, TypeEnvironment DEF Environment
    <2>2. UNCHANGED <<minFee, usdc, algo, agreements, roster>>
      BY <1>10 DEF Tick, LoseHolding, RegainHolding, boxVars
    <2> QED
      BY <1>1, <2>1, <2>2, BoxesUnchanged, BalancedUnmoved
  <1>11. ASSUME UNCHANGED vars
         PROVE  IInv' /\ Balanced'
    <2>1. TypeOK'
      BY <1>1, <1>11, TypeStep
    <2>2. UNCHANGED <<minFee, usdc, algo, agreements, roster>>
      BY <1>11 DEF vars
    <2> QED
      BY <1>1, <2>1, <2>2, BoxesUnchanged, BalancedUnmoved
  <1> QED
    BY <1>2, <1>3, <1>4, <1>5, <1>6, <1>7, <1>8, <1>9, <1>10, <1>11, AroundFrame
    DEF Around, Chain

\* What no later step takes back of an agreement a script has looked at: its
\* terms, its payers once it has closed to buyers, its right to be closed, and
\* until the deadline its right to be released.
Kept(id) ==
  LET a == agreements[id] b == agreements'[id] IN
  /\ b.verifier = a.verifier /\ b.commit_hash = a.commit_hash
  /\ DOMAIN roster'[id] = DOMAIN roster[id]
  /\ a.state # "OPEN" =>
       \A s \in DOMAIN roster[id] : roster'[id][s].payer = roster[id][s].payer
  /\ Closable(a) => Closable(b)
  /\ a.state = "RELEASED" => b.state = "RELEASED"
  /\ a.state = "FUNDED" => b.state \in {"FUNDED", "RELEASED"} \/ now' >= a.deadline

Keeping == \A id \in Live : id \in Live' => Kept(id)

\* An agreement whose boxes are as they were.
LEMMA SameKept ==
  ASSUME NEW id, agreements'[id] = agreements[id], roster'[id] = roster[id]
  PROVE  Kept(id)
  BY DEF Kept

\* One agreement's boxes written, the others as they were.
LEMMA OneKept ==
  ASSUME TypeOK, NEW id \in Live, NEW b, agreements' = [agreements EXCEPT ![id] = b],
         \A i \in Live : i # id => roster'[i] = roster[i],
         Kept(id)
  PROVE  Keeping
  <1>1. ASSUME NEW i \in Live, i # id PROVE Kept(i)
    BY <1>1, SameKept DEF Live
  <1> QED
    BY <1>1 DEF Keeping

LEMMA AroundKeeps ==
  ASSUME Chain, Around
  PROVE  Keeping
  <1>1. IInv /\ TypeOK /\ DOMAIN roster = Live
    BY DEF Chain, IInv, TypeOK
  <1>2. ASSUME NEW caller, NEW o \in OfferType,
               CreateAgreement(caller, o, RequiredDeposit(o.max_seats))
        PROVE  Keeping
    <2>1. agreement_count + 1 \notin Live
      BY <1>1 DEF TypeOK
    <2>2. \A i \in Live : agreements'[i] = agreements[i] /\ roster'[i] = roster[i]
      BY <1>1, <1>2, <2>1 DEF CreateAgreement, WithBox, Live
    <2> QED
      BY <2>2, SameKept DEF Keeping
  <1>3. ASSUME UNCHANGED <<agreements, roster>>
        PROVE  Keeping
    BY <1>3, SameKept DEF Keeping
  <1>4. ASSUME NEW id \in Live, NEW payer \in Payers, NEW p \in Payments, Join(payer, id, p)
        PROVE  Keeping
    <2> DEFINE a == agreements[id]
               b == Seated(a, p.amount)
    <2>1. /\ agreements' = [agreements EXCEPT ![id] = b]
          /\ roster' = [roster EXCEPT ![id][a.seats] = [payer |-> payer, amount |-> p.amount]]
          /\ a.state = "OPEN"
      BY <1>4 DEF Join, JoinPasses
    <2>2. a \in Agreement
      BY <1>1, BoxOf
    <2>3. b.verifier = a.verifier /\ b.commit_hash = a.commit_hash
      BY <2>2 DEF Seated, Agreement
    <2>4. agreements'[id] = b
      BY <2>1 DEF Live
    <2>5. DOMAIN roster'[id] = DOMAIN roster[id]
      BY <1>1, <2>1
    <2>6. \A i \in Live : i # id => roster'[i] = roster[i]
      BY <1>1, <2>1
    <2> HIDE DEF b
    <2>7. Kept(id)
      BY <2>1, <2>3, <2>4, <2>5 DEF Kept, Closable
    <2> QED
      BY <1>1, <2>1, <2>6, <2>7, OneKept
  <1>5. ASSUME NEW id \in Live, agreements[id].state \in {"FUNDED", "FILLED"}, Release(id)
        PROVE  Keeping
    <2> DEFINE a == agreements[id]
               b == [a EXCEPT !.total_held = 0, !.state = "RELEASED"]
    <2>1. agreements' = [agreements EXCEPT ![id] = b] /\ roster' = roster
      BY <1>5 DEF Release
    <2>2. a \in Agreement
      BY <1>1, BoxOf
    <2>3. b.verifier = a.verifier /\ b.commit_hash = a.commit_hash /\ b.state = "RELEASED"
      BY <2>2 DEF Agreement
    <2>4. agreements'[id] = b
      BY <2>1 DEF Live
    <2> HIDE DEF b
    <2>5. Kept(id)
      BY <1>5, <2>1, <2>3, <2>4 DEF Kept, Closable
    <2> QED
      BY <1>1, <2>1, <2>5, OneKept
  <1>6. ASSUME NEW id \in Live, NEW caller, Expire(caller, id)
        PROVE  Keeping
    <2> DEFINE a == agreements[id]
               b == [a EXCEPT !.state = "EXPIRED"]
    <2>1. /\ agreements' = [agreements EXCEPT ![id] = b] /\ roster' = roster /\ now' = now
          /\ a.state \in {"OPEN", "FUNDED", "FILLED"}
          /\ a.seats = 0 \/ now >= a.deadline
      BY <1>6 DEF Expire, ExpirePasses, Expirable, ledgerVars
    <2>2. a \in Agreement /\ Staged(a)
      BY <1>1, BoxOf DEF Sound
    <2>3. b.verifier = a.verifier /\ b.commit_hash = a.commit_hash
      BY <2>2 DEF Agreement
    <2>4. agreements'[id] = b
      BY <2>1 DEF Live
    <2>5. a.state = "FUNDED" => now' >= a.deadline
      BY <2>1, <2>2 DEF Staged, Agreement
    <2> HIDE DEF b
    <2>6. Kept(id)
      BY <2>1, <2>3, <2>4, <2>5 DEF Kept, Closable
    <2> QED
      BY <1>1, <2>1, <2>6, OneKept
  <1>7. ASSUME NEW id \in Live, NEW count \in 1..BatchCeiling, RefundNext(id, count)
        PROVE  Keeping
    <2> DEFINE a == agreements[id]
               last == WindowEnd(a, count)
               paid == Payable(id, last)
               b == [a EXCEPT !.refund_cursor = last,
                              !.total_held = a.total_held - Worth(id, paid),
                              !.unclaimed_seats =
                                 a.unclaimed_seats + Cardinality(Skipped(id, last)),
                              !.state = IF last >= a.seats THEN "REFUNDED" ELSE "REFUNDING"]
    <2>1. /\ agreements' = [agreements EXCEPT ![id] = b]
          /\ roster' = [roster EXCEPT ![id] = ZeroAmounts(id, paid)]
          /\ a.state \in {"EXPIRED", "REFUNDING"}
      BY <1>7 DEF RefundNext, RefundNextPasses
    <2>2. a \in Agreement /\ roster[id] \in [0..(a.max_seats - 1) -> Seat]
      BY <1>1, BoxOf
    <2>3. b.verifier = a.verifier /\ b.commit_hash = a.commit_hash
      BY <2>2 DEF Agreement
    <2>4. agreements'[id] = b /\ roster'[id] = ZeroAmounts(id, paid)
      BY <1>1, <2>1 DEF Live
    <2>5. \A i \in Live : i # id => roster'[i] = roster[i]
      BY <1>1, <2>1
    <2> HIDE DEF b, paid
    <2>6. /\ DOMAIN ZeroAmounts(id, paid) = DOMAIN roster[id]
          /\ \A s \in DOMAIN roster[id] : ZeroAmounts(id, paid)[s].payer = roster[id][s].payer
      BY <2>2 DEF ZeroAmounts, Seat
    <2>7. Kept(id)
      BY <2>1, <2>3, <2>4, <2>6 DEF Kept, Closable
    <2> QED
      BY <1>1, <2>1, <2>5, <2>7, OneKept
  <1>8. ASSUME NEW id \in Live, NEW seat \in DOMAIN roster[id], ClaimRefund(id, seat)
        PROVE  Keeping
    <2> DEFINE a == agreements[id]
               amount == roster[id][seat].amount
               b == [a EXCEPT !.total_held = a.total_held - amount,
                              !.unclaimed_seats = a.unclaimed_seats - 1]
    <2>1. /\ agreements' = [agreements EXCEPT ![id] = b]
          /\ roster' = [roster EXCEPT ![id] = ZeroAmounts(id, {seat})]
          /\ a.state \in {"EXPIRED", "REFUNDING", "REFUNDED"}
          /\ a.unclaimed_seats >= 1
      BY <1>8 DEF ClaimRefund, ClaimRefundPasses, Claimable
    <2>2. a \in Agreement /\ roster[id] \in [0..(a.max_seats - 1) -> Seat]
      BY <1>1, BoxOf
    <2>3. b.verifier = a.verifier /\ b.commit_hash = a.commit_hash
      BY <2>2 DEF Agreement
    <2>4. agreements'[id] = b /\ roster'[id] = ZeroAmounts(id, {seat})
      BY <1>1, <2>1 DEF Live
    <2>5. \A i \in Live : i # id => roster'[i] = roster[i]
      BY <1>1, <2>1
    <2>6. ~Closable(a)
      BY <2>1, <2>2 DEF Closable, Agreement
    <2> HIDE DEF b
    <2>7. /\ DOMAIN ZeroAmounts(id, {seat}) = DOMAIN roster[id]
          /\ \A s \in DOMAIN roster[id] : ZeroAmounts(id, {seat})[s].payer = roster[id][s].payer
      BY <2>2 DEF ZeroAmounts, Seat
    <2>8. Kept(id)
      BY <2>1, <2>3, <2>4, <2>6, <2>7 DEF Kept
    <2> QED
      BY <1>1, <2>1, <2>5, <2>8, OneKept
  <1>9. ASSUME NEW id \in Live, Close(id)
        PROVE  Keeping
    <2>1. /\ Live' = Live \ {id}
          /\ \A i \in Live' : agreements'[i] = agreements[i] /\ roster'[i] = roster[i]
      BY <1>1, <1>9 DEF Close, WithoutBox, Live
    <2> QED
      BY <2>1, SameKept DEF Keeping
  <1>10. ASSUME \/ \E value \in BOOLEAN : SetPaused(admin, value)
                \/ Tick
                \/ \E acct \in Fickle : LoseHolding(acct) \/ RegainHolding(acct)
                \/ UNCHANGED vars
         PROVE  UNCHANGED <<agreements, roster>>
    BY <1>10 DEF SetPaused, Tick, LoseHolding, RegainHolding, boxVars, vars
  <1> QED
    BY <1>2, <1>3, <1>4, <1>5, <1>6, <1>7, <1>8, <1>9, <1>10 DEF Around
-----------------------------------------------------------------------------
(* A script's call is a step of the chain like anyone's.                   *)

LEMMA OfferIsOffer ==
  ASSUME RunsInv, NEW s \in Shell, run[s].pc = "create", run[s].deadline > now
  PROVE  OfferOf(run[s]) \in OfferType
  <1> DEFINE r == run[s]
  <1>1. /\ r.job.price \in Nat /\ r.job.seats \in Nat
        /\ r.job.manifest.sha256 \in Hash \cup {ZeroHash}
        /\ r.deadline \in Int /\ now \in Nat
    BY DEF RunsInv, BoxInv, Knows, Begun, Scans, Ended
  <1>2. r.deadline \in Nat
    BY <1>1
  <1> QED
    BY <1>1, <1>2, ScriptAssumption DEF OfferOf, OfferType

LEMMA SendCreateIsAround ==
  ASSUME RunsInv, NEW s \in Shell, SendCreate(s)
  PROVE  Around
  <1> DEFINE o == OfferOf(run[s])
  <1>1. /\ run[s].pc = "create" /\ CreateAgreement(Keys["admin"], o, run[s].deposit)
        /\ CreatePasses(Keys["admin"], o, run[s].deposit)
    BY DEF SendCreate, CreateLands
  <1>2. run[s].deadline > now
    BY <1>1 DEF CreatePasses, ValidOffer, OfferOf
  <1>3. o \in OfferType
    BY <1>1, <1>2, OfferIsOffer
  <1>4. run[s].deposit = RequiredDeposit(o.max_seats)
    BY <1>1 DEF CreatePasses
  <1> QED
    BY <1>1, <1>3, <1>4 DEF Around

LEMMA ScriptIsAround ==
  ASSUME RunsInv, NEW s \in Shell, Script(s)
  PROVE  Around
  <1>1. ASSUME NEW next, Goes(s, next) PROVE Around
    BY <1>1 DEF Goes, Around
  <1>2. CASE Begin(s)
    BY <1>2 DEF Begin, Around
  <1>3. CASE SendCreate(s)
    BY <1>3, SendCreateIsAround
  <1>4. CASE SendExpire(s)
    BY <1>4 DEF SendExpire, Expire, ExpirePasses, Around
  <1>5. CASE SendRefund(s)
    <2>1. /\ RefundNext(run[s].job.id, run[s].job.count) /\ run[s].job.id \in Live
          /\ run[s].job.count > 0 /\ run[s].job.count <= BatchCeiling
      BY <1>5 DEF SendRefund, RefundNext, RefundNextPasses
    <2>2. run[s].job.count \in Nat
      BY <1>5 DEF SendRefund, RunsInv, Knows, Drains
    <2>3. run[s].job.count \in 1..BatchCeiling
      BY <2>1, <2>2, NumberAssumption
    <2> QED
      BY <2>1, <2>3 DEF Around
  <1>6. CASE SendClaim(s)
    BY <1>6 DEF SendClaim, ClaimRefund, ClaimRefundPasses, Around
  <1>7. CASE SendClose(s)
    BY <1>7 DEF SendClose, Close, ClosePasses, Around
  <1>8. CASE SendRelease(s)
    BY <1>8 DEF SendRelease, ReleaseHash, ReleaseHashPasses, Around
  <1>9. CASE \/ GiveUp(s) \/ ReadPaused(s) \/ ReadNewest(s) \/ ScanOne(s)
             \/ SettleDeadline(s) \/ NameBoxes(s) \/ ReadRecord(s) \/ ReadHolding(s)
             \/ ReadClock(s) \/ Reread(s) \/ ReadCursor(s) \/ ReadRoster(s) \/ ReadSeat(s)
             \/ ReadForRelease(s) \/ ReadReleasable(s) \/ CheckRunway(s) \/ Fetch(s)
             \/ CheckMargin(s)
    BY <1>1, <1>9
    DEF GiveUp, ReadPaused, ReadNewest, ScanOne, SettleDeadline, NameBoxes, ReadRecord,
        ReadHolding, ReadClock, Reread, ReadCursor, ReadRoster, ReadSeat, ReadForRelease,
        ReadReleasable, CheckRunway, Fetch, CheckMargin
  <1> QED
    BY <1>2, <1>3, <1>4, <1>5, <1>6, <1>7, <1>8, <1>9 DEF Script

\* Every step of the specification is one of the chain.
LEMMA NextIsAround ==
  ASSUME RunsInv, [NextOperators]_allVars
  PROVE  Around
  <1>1. CASE UNCHANGED allVars
    BY <1>1 DEF allVars, Around
  <1>2. CASE Elsewhere
    BY <1>2, ElsewhereIsAround DEF RunsInv
  <1> QED
    BY <1>1, <1>2, ScriptIsAround DEF NextOperators

LEMMA ChainAlways == SpecOperators => []Chain
  <1>1. RunsInv /\ Chain /\ [NextOperators]_allVars => Chain'
    BY NextIsAround, ChainStep
  <1> QED
    BY <1>1, ChainInit, RunsAlways, PTL DEF SpecOperators

-----------------------------------------------------------------------------
(* What a run knows of the call it is about to send.                       *)

\* expire: what the guard asked of the record and of the clock.
Expires(r) ==
  /\ r.pc \in {"holding", "clock", "expire"} =>
       "rec" \in DOMAIN r /\ r.rec.deadline \in Nat
  /\ r.pc \in {"clock", "expire"} => r.rec.state \in {"OPEN", "FUNDED", "FILLED"}
  /\ r.pc = "expire" =>
       (r.rec.seats = 0 /\ Keys[r.job.role] = r.rec.creator) \/ now >= r.rec.deadline

\* drain's refund: its cursor lies between the one drain decided on and the
\* agreement's own, and it names who sits in the window.
Refunds(r) ==
  /\ r.pc \in {"cursor", "roster", "refund"} => r.job.count \in 1..BatchCeiling
  /\ r.pc \in {"roster", "refund"} /\ r.job.cmd = "drain" =>
       /\ r.rec.refund_cursor \in Nat /\ r.before.refund_cursor <= r.rec.refund_cursor
       /\ r.job.id \in Live => r.rec.refund_cursor <= agreements[r.job.id].refund_cursor
  /\ r.pc = "refund" /\ r.job.cmd = "drain" /\ r.job.id \in Live =>
       \A s \in DOMAIN roster[r.job.id] :
         s >= r.rec.refund_cursor /\ s < r.rec.refund_cursor + r.job.count
           => roster[r.job.id][s].payer \in r.named

\* drain's close: nothing that comes later makes the agreement owe anything.
Closes(r) ==
  r.pc = "close" /\ r.job.cmd = "drain" =>
    /\ r.job.id \in 1..agreement_count
    /\ r.job.id \in Live => Closable(agreements[r.job.id])

\* The record still has what release_edition compared, and its state is one a
\* funded agreement comes to.
StillOwing(a) == a.state \in {"FUNDED", "RELEASED"} \/ now >= a.deadline

\* release_edition's release: the record it was decided on, and when the
\* gateways had answered.
Delivers(r) ==
  /\ r.pc \in {"again", "margin"} => r.fetched \in Nat /\ r.fetched <= now
  /\ r.pc = "margin" =>
       /\ r.job.id \in 1..agreement_count
       /\ r.job.id \in Live =>
            LET a == agreements[r.job.id] IN
            /\ a.deadline = r.rec.deadline /\ a.verifier = r.rec.verifier
            /\ a.commit_hash = r.rec.commit_hash
            /\ r.rec.state = "FUNDED" => StillOwing(a)
  /\ r.pc = "release" /\ r.job.cmd = "release_edition" =>
       /\ r.job.id \in 1..agreement_count /\ r.fetched \in Nat
       /\ r.job.id \in Live =>
            LET a == agreements[r.job.id] IN
            /\ a.verifier = Keys["verifier"] /\ a.commit_hash = r.hash
            /\ a.deadline >= r.fetched + Margin
            /\ StillOwing(a)

Sends(r) ==
  /\ r.pc = "create" => r.job.seats >= 1 /\ r.deposit = RequiredDeposit(r.job.seats)
  /\ Expires(r) /\ Refunds(r) /\ Closes(r) /\ Delivers(r)

\* The conditions of a step that moves the chain on.
Moving == RunsInv /\ RunsInv' /\ Chain /\ Chain' /\ Onward /\ Keeping

\* What the chain has of an agreement named earlier.
LEMMA NamedLater ==
  ASSUME Moving, NEW id \in 1..agreement_count
  PROVE  /\ id \in 1..agreement_count'
         /\ id \in Live' => /\ id \in Live /\ Kept(id)
                            /\ Later(agreements'[id], agreements[id])
                            /\ agreements[id] \in Agreement
                            /\ agreements'[id] \in Agreement
  <1>1. agreement_count' >= agreement_count /\ agreement_count \in Nat /\ agreement_count' \in Nat
    BY DEF Moving, Onward, RunsInv, BoxInv
  <1>2. id \in 1..agreement_count'
    BY <1>1
  <1>3. ASSUME id \in Live'
        PROVE  /\ id \in Live /\ Kept(id) /\ Later(agreements'[id], agreements[id])
               /\ agreements[id] \in Agreement /\ agreements'[id] \in Agreement
    BY <1>3 DEF Moving, Onward, Keeping, Chain, IInv, TypeOK
  <1> QED
    BY <1>2, <1>3

\* A run at rest keeps what it knows of its call.
LEMMA SendsStay ==
  ASSUME Moving, NEW s \in Shell, run'[s] = run[s], Sends(run[s])
  PROVE  Sends(run[s])'
  <1> DEFINE r == run[s]
             id == r.job.id
  <1>1. now \in Nat /\ now' \in Nat /\ now' >= now
    BY DEF Moving, Onward, RunsInv, BoxInv
  <1>2. Knows(r)
    BY DEF Moving, RunsInv
  <1>3. r.pc = "create" => r.deposit = RequiredDeposit(r.job.seats)'
    BY DEF Moving, Chain, Sends, RequiredDeposit, FeeReserve
  <1>4. Expires(run[s])'
    BY <1>1 DEF Sends, Expires
  <1>5. Refunds(run[s])'
    <2>1. ASSUME r.pc \in {"roster", "refund"}, r.job.cmd = "drain"
          PROVE  /\ id \in 1..agreement_count
                 /\ id \in Live => agreements[id].state \in Returning
      BY <1>2, <2>1 DEF Knows, Drains
    <2>2. ASSUME r.pc \in {"roster", "refund"}, r.job.cmd = "drain", id \in Live'
          PROVE  /\ r.rec.refund_cursor <= agreements'[id].refund_cursor
                 /\ r.pc = "refund" =>
                      \A t \in DOMAIN roster'[id] :
                        t >= r.rec.refund_cursor /\ t < r.rec.refund_cursor + r.job.count
                          => roster'[id][t].payer \in r.named
      <3>1. /\ id \in Live /\ Kept(id) /\ Later(agreements'[id], agreements[id])
            /\ agreements[id] \in Agreement /\ agreements'[id] \in Agreement
        BY <2>1, <2>2, NamedLater
      <3>2. /\ r.rec.refund_cursor \in Nat
            /\ r.rec.refund_cursor <= agreements[id].refund_cursor
            /\ agreements'[id].refund_cursor >= agreements[id].refund_cursor
        BY <2>2, <3>1 DEF Sends, Refunds, Later
      <3>3. r.rec.refund_cursor <= agreements'[id].refund_cursor
        BY <3>1, <3>2 DEF Agreement
      <3>4. agreements[id].state # "OPEN"
        BY <2>1, <2>2, <3>1 DEF Returning
      <3>5. ASSUME r.pc = "refund", NEW t \in DOMAIN roster'[id],
                   t >= r.rec.refund_cursor /\ t < r.rec.refund_cursor + r.job.count
            PROVE  roster'[id][t].payer \in r.named
        BY <2>2, <3>1, <3>4, <3>5 DEF Sends, Refunds, Kept
      <3> QED
        BY <3>3, <3>5
    <2> QED
      BY <2>2 DEF Sends, Refunds
  <1>6. Closes(run[s])'
    BY NamedLater DEF Sends, Closes, Kept
  <1>7. Delivers(run[s])'
    <2>1. ASSUME r.pc \in {"again", "margin"} PROVE r.fetched \in Nat /\ r.fetched <= now'
      BY <1>1, <2>1 DEF Sends, Delivers
    <2>2. ASSUME NEW i \in 1..agreement_count, i \in Live'
          PROVE  /\ i \in Live
                 /\ agreements'[i].deadline = agreements[i].deadline
                 /\ agreements'[i].verifier = agreements[i].verifier
                 /\ agreements'[i].commit_hash = agreements[i].commit_hash
                 /\ StillOwing(agreements[i]) => StillOwing(agreements[i])'
      <3>1. /\ i \in Live /\ Kept(i) /\ Later(agreements'[i], agreements[i])
            /\ agreements[i] \in Agreement
        BY <2>2, NamedLater
      <3>2. agreements[i].deadline \in Nat /\ agreements'[i].deadline = agreements[i].deadline
        BY <3>1 DEF Later, Agreement
      <3> QED
        BY <1>1, <3>1, <3>2 DEF Kept, StillOwing
    <2>3. ASSUME r.pc = "margin"
          PROVE  /\ id \in 1..agreement_count'
                 /\ id \in Live' =>
                      /\ agreements'[id].deadline = r.rec.deadline
                      /\ agreements'[id].verifier = r.rec.verifier
                      /\ agreements'[id].commit_hash = r.rec.commit_hash
                      /\ r.rec.state = "FUNDED" => StillOwing(agreements[id])'
      BY <2>2, <2>3, NamedLater DEF Sends, Delivers
    <2>4. ASSUME r.pc = "release", r.job.cmd = "release_edition"
          PROVE  /\ id \in 1..agreement_count' /\ r.fetched \in Nat
                 /\ id \in Live' =>
                      /\ agreements'[id].verifier = Keys["verifier"]
                      /\ agreements'[id].commit_hash = r.hash
                      /\ agreements'[id].deadline >= r.fetched + Margin
                      /\ StillOwing(agreements[id])'
      BY <2>2, <2>4, NamedLater DEF Sends, Delivers
    <2> QED
      BY <2>1, <2>3, <2>4 DEF Delivers, StillOwing
  <1> QED
    BY <1>3, <1>4, <1>5, <1>6, <1>7 DEF Sends
\* What has to be shown of a step of one run: that it knows its call.
Sending == \A s \in Shell : Sends(run[s])

LEMMA OneSends ==
  ASSUME Moving, Sending, NEW s \in Shell, NEW next, run' = [run EXCEPT ![s] = next],
         Sends(run[s])'
  PROVE  Sending'
  <1>1. ASSUME NEW t \in Shell, t # s PROVE Sends(run[t])'
    <2>1. run'[t] = run[t]
      BY <1>1 DEF Moving, RunsInv
    <2> QED
      BY <2>1, SendsStay DEF Sending
  <1> QED
    BY <1>1 DEF Sending

\* Where a script is in none of these places it is about no call.
Calling ==
  {"create", "holding", "clock", "expire", "cursor", "roster", "refund", "close",
   "again", "margin", "release"}

LEMMA ElsewhereSends ==
  ASSUME NEW s, run'[s].pc \notin Calling
  PROVE  Sends(run[s])'
  BY DEF Sends, Expires, Refunds, Closes, Delivers, Calling

\* A script that goes on with the chain as it was.
LEMMA GoesOn ==
  ASSUME Moving, NEW s \in Shell, NEW next, Goes(s, next)
  PROVE  /\ run' = [run EXCEPT ![s] = next] /\ run'[s] = next
         /\ UNCHANGED <<now, minFee, agreement_count, agreements, roster>>
  BY DEF Goes, vars, Moving, RunsInv

LEMMA BeginSends ==
  ASSUME Moving, Sending, NEW s \in Shell, Begin(s)
  PROVE  Sending'
  <1> DEFINE job == Head(plan.jobs[s])
             next == [pc |-> FirstRequest(job), job |-> job]
  <1>1. run' = [run EXCEPT ![s] = next] /\ Offline(job)
    BY DEF Begin
  <1>2. run'[s] = next
    BY <1>1 DEF Moving, RunsInv
  <1>3. CASE FirstRequest(job) \notin Calling
    <2>1. run'[s].pc \notin Calling
      BY <1>2, <1>3
    <2> QED
      BY <1>1, <2>1, ElsewhereSends, OneSends
  <1>4. CASE FirstRequest(job) = "cursor"
    <2>1. job.cmd = "refund"
      BY <1>4 DEF FirstRequest
    <2>2. job.count \in 1..BatchCeiling
      BY <1>1, <2>1 DEF Offline
    <2>3. Sends(run[s])'
      BY <1>2, <1>4, <2>2 DEF Sends, Expires, Refunds, Closes, Delivers
    <2> QED
      BY <1>1, <2>3, OneSends
  <1>5. CASE FirstRequest(job) = "close"
    <2>1. job.cmd # "drain"
      BY <1>5 DEF FirstRequest
    <2>2. Sends(run[s])'
      BY <1>2, <1>5, <2>1 DEF Sends, Expires, Refunds, Closes, Delivers
    <2> QED
      BY <1>1, <2>2, OneSends
  <1>6. FirstRequest(job) \in {"paused", "cursor", "seat", "close", "record"}
    BY DEF FirstRequest
  <1> QED
    BY <1>3, <1>4, <1>5, <1>6 DEF Calling

LEMMA NameBoxesSends ==
  ASSUME Moving, Sending, NEW s \in Shell, NameBoxes(s)
  PROVE  Sending'
  <1> DEFINE r == run[s]
             next == [pc |-> "create", job |-> r.job, saw |-> r.saw, deadline |-> r.deadline,
                      id |-> agreement_count + 1, deposit |-> RequiredDeposit(r.job.seats)]
  <1>1. Goes(s, next) /\ r.job.seats >= 1
    BY DEF NameBoxes
  <1>2. /\ run' = [run EXCEPT ![s] = next] /\ run'[s] = next
        /\ UNCHANGED minFee
    BY <1>1, GoesOn
  <1>3. Sends(run[s])'
    BY <1>1, <1>2 DEF Sends, Expires, Refunds, Closes, Delivers, RequiredDeposit, FeeReserve
  <1> QED
    BY <1>2, <1>3, OneSends

\* What drain goes on to with a record: its batch is one the contract takes, and
\* it closes what owes nothing.
LEMMA DrainOnSends ==
  ASSUME Moving, Sending, NEW s \in Shell, NEW job, job.id \in Live, NEW a,
         a = agreements[job.id], a.state \notin {"OPEN", "FUNDED", "FILLED"},
         "count" \in DOMAIN job, Goes(s, DrainOn(job, a))
  PROVE  Sending'
  <1> DEFINE id == job.id
             filled == [job EXCEPT !.count = RefundBatchSize(a)]
  <1>1. /\ run' = [run EXCEPT ![s] = DrainOn(job, a)] /\ run'[s] = DrainOn(job, a)
        /\ UNCHANGED <<agreement_count, agreements>>
    BY GoesOn
  <1>2. IInv /\ a \in Agreement /\ Sound(a, roster[id]) /\ id \in 1..agreement_count
    BY BoxOf DEF Moving, Chain, RunsInv, BoxInv
  <1>3. CASE DrainStep(a, Keys[job.role]) = "refund_next"
    <2>1. DrainOn(job, a) = [pc |-> "cursor", job |-> filled, before |-> a]
      BY <1>3 DEF DrainOn
    <2>2. RefundBatchSize(a) \in 1..BatchCeiling
      BY <1>2, BatchIsAllowed DEF Agreement
    <2>3. filled.count \in 1..BatchCeiling
      BY <2>2
    <2> HIDE DEF filled
    <2>4. Sends(run[s])'
      BY <1>1, <2>1, <2>3 DEF Sends, Expires, Refunds, Closes, Delivers
    <2> QED
      BY <1>1, <2>4, OneSends
  <1>4. CASE DrainStep(a, Keys[job.role]) = "close"
    <2>1. DrainOn(job, a) = [pc |-> "close", job |-> job]
      BY <1>4 DEF DrainOn
    <2>2. a.state \in {"RELEASED", "REFUNDED"} /\ ~(a.unclaimed_seats > 0)
      BY <1>2, <1>4 DEF DrainStep, Agreement, States
    <2>3. a.unclaimed_seats = 0
      BY <1>2, <2>2 DEF Agreement
    <2>4. a.total_held = 0
      BY <1>2, <2>2, <2>3, NothingLeft DEF Sound, HeldExact
    <2>5. Closable(a)
      BY <2>2, <2>3, <2>4 DEF Closable
    <2>6. Sends(run[s])'
      BY <1>1, <1>2, <2>1, <2>5 DEF Sends, Expires, Refunds, Closes, Delivers, Live
    <2> QED
      BY <1>1, <2>6, OneSends
  <1>5. CASE DrainStep(a, Keys[job.role]) \notin {"refund_next", "close"}
    <2>1. DrainOn(job, a) = Idle
      BY <1>5 DEF DrainOn
    <2>2. run'[s].pc \notin Calling
      BY <1>1, <2>1 DEF Idle, Calling
    <2> QED
      BY <1>1, <2>2, ElsewhereSends, OneSends
  <1> QED
    BY <1>3, <1>4, <1>5

LEMMA ReadRecordSends ==
  ASSUME Moving, Sending, NEW s \in Shell, ReadRecord(s)
  PROVE  Sending'
  <1> DEFINE job == run[s].job
             a == agreements[job.id]
  <1>1. job.id \in Live /\ a \in Agreement /\ run[s].pc = "record"
    BY BoxOf DEF ReadRecord, Moving, Chain
  <1>2. CASE job.cmd = "expire" \/ a.state \in {"OPEN", "FUNDED", "FILLED"}
    <2>1. Goes(s, [pc |-> "holding", job |-> job, rec |-> a])
      BY <1>2 DEF ReadRecord
    <2>2. /\ run' = [run EXCEPT ![s] = [pc |-> "holding", job |-> job, rec |-> a]]
          /\ run'[s] = [pc |-> "holding", job |-> job, rec |-> a]
      BY <2>1, GoesOn
    <2>3. a.deadline \in Nat
      BY <1>1 DEF Agreement
    <2>4. Sends(run[s])'
      BY <2>2, <2>3 DEF Sends, Expires, Refunds, Closes, Delivers
    <2> QED
      BY <2>2, <2>4, OneSends
  <1>3. CASE ~(job.cmd = "expire" \/ a.state \in {"OPEN", "FUNDED", "FILLED"})
    <2>1. Goes(s, DrainOn(job, a)) /\ job.cmd = "drain"
      BY <1>3 DEF ReadRecord
    <2>2. "count" \in DOMAIN job
      BY <1>1, <2>1 DEF Moving, RunsInv, Knows, Begun, Ended
    <2> QED
      BY <1>1, <1>3, <2>1, <2>2, DrainOnSends
  <1> QED
    BY <1>2, <1>3

\* A run that reads on, keeping all but its place.
LEMMA PlaceMoves ==
  ASSUME Moving, NEW s \in Shell, NEW pc, Goes(s, [run[s] EXCEPT !.pc = pc])
  PROVE  /\ run' = [run EXCEPT ![s] = [run[s] EXCEPT !.pc = pc]]
         /\ run'[s].pc = pc
         /\ "job" \in DOMAIN run[s] => run'[s].job = run[s].job
         /\ "rec" \in DOMAIN run[s] => run'[s].rec = run[s].rec /\ "rec" \in DOMAIN run'[s]
  <1>1. "pc" \in DOMAIN run[s]
    BY DEF Moving, RunsInv, Knows, Begun
  <1>2. run'[s] = [run[s] EXCEPT !.pc = pc] /\ run' = [run EXCEPT ![s] = [run[s] EXCEPT !.pc = pc]]
    BY GoesOn
  <1> QED
    BY <1>1, <1>2

LEMMA RereadSends ==
  ASSUME Moving, Sending, NEW s \in Shell, Reread(s)
  PROVE  Sending'
  <1> DEFINE r == run[s]
             a == agreements[r.job.id]
  <1>1. /\ r.pc = "reread" /\ r.job.id \in Live /\ r.job.cmd = "drain"
        /\ a.state \in Returning /\ "count" \in DOMAIN r.job
    BY DEF Reread, Moving, RunsInv, Knows, Drains, Begun, Ended
  <1>2. CASE "before" \in DOMAIN r /\ Unmoved(a, r.before)
    <2>1. Goes(s, [pc |-> "stalled"])
      BY <1>2 DEF Reread
    <2>2. run' = [run EXCEPT ![s] = [pc |-> "stalled"]] /\ run'[s].pc = "stalled"
      BY <2>1, GoesOn
    <2> QED
      BY <2>2, ElsewhereSends, OneSends DEF Calling
  <1>3. CASE ~("before" \in DOMAIN r /\ Unmoved(a, r.before))
    <2>1. Goes(s, DrainOn(r.job, a))
      BY <1>3 DEF Reread
    <2>2. a.state \notin {"OPEN", "FUNDED", "FILLED"}
      BY <1>1 DEF Returning
    <2> QED
      BY <1>1, <2>1, <2>2, DrainOnSends
  <1> QED
    BY <1>2, <1>3
LEMMA ReadHoldingSends ==
  ASSUME Moving, Sending, NEW s \in Shell, ReadHolding(s)
  PROVE  Sending'
  <1> DEFINE r == run[s]
  <1>1. /\ r.pc = "holding" /\ Goes(s, [r EXCEPT !.pc = "clock"])
        /\ r.rec.state \in {"OPEN", "FUNDED", "FILLED"}
    BY DEF ReadHolding, StateExpires
  <1>2. "rec" \in DOMAIN r /\ r.rec.deadline \in Nat
    BY <1>1 DEF Sending, Sends, Expires
  <1>3. /\ run' = [run EXCEPT ![s] = [r EXCEPT !.pc = "clock"]]
        /\ run'[s].pc = "clock" /\ run'[s].rec = r.rec /\ "rec" \in DOMAIN run'[s]
    BY <1>1, <1>2, PlaceMoves
  <1>4. Sends(run[s])'
    BY <1>1, <1>2, <1>3 DEF Sends, Expires, Refunds, Closes, Delivers
  <1> QED
    BY <1>3, <1>4, OneSends

LEMMA ReadClockSends ==
  ASSUME Moving, Sending, NEW s \in Shell, ReadClock(s)
  PROVE  Sending'
  <1> DEFINE r == run[s]
  <1>1. /\ r.pc = "clock" /\ Goes(s, [r EXCEPT !.pc = "expire"])
        /\ ClockExpires(r.rec, Keys[r.job.role])
    BY DEF ReadClock
  <1>2. /\ "rec" \in DOMAIN r /\ "job" \in DOMAIN r
        /\ r.rec.deadline \in Nat /\ r.rec.state \in {"OPEN", "FUNDED", "FILLED"}
    BY <1>1 DEF Sending, Sends, Expires, Moving, RunsInv, Knows, Begun, Ended
  <1>3. /\ run' = [run EXCEPT ![s] = [r EXCEPT !.pc = "expire"]]
        /\ run'[s].pc = "expire" /\ run'[s].rec = r.rec /\ "rec" \in DOMAIN run'[s]
        /\ run'[s].job = r.job
    BY <1>1, <1>2, PlaceMoves
  <1>4. now \in Nat /\ now' = now
    BY <1>1, GoesOn DEF Moving, RunsInv, BoxInv
  <1>5. (r.rec.seats = 0 /\ Keys[r.job.role] = r.rec.creator) \/ now >= r.rec.deadline
    BY <1>1, <1>2, <1>4 DEF ClockExpires
  <1>6. Sends(run[s])'
    BY <1>2, <1>3, <1>4, <1>5 DEF Sends, Expires, Refunds, Closes, Delivers
  <1> QED
    BY <1>3, <1>6, OneSends

LEMMA ReadCursorSends ==
  ASSUME Moving, Sending, NEW s \in Shell, ReadCursor(s)
  PROVE  Sending'
  <1> DEFINE r == run[s]
             a == agreements[r.job.id]
             next == [pc |-> "roster", job |-> r.job, rec |-> a,
                      before |-> IF "before" \in DOMAIN r THEN r.before ELSE a]
  <1>1. /\ r.pc = "cursor" /\ r.job.id \in Live /\ Goes(s, next)
        /\ a \in Agreement
    BY BoxOf DEF ReadCursor, Moving, Chain
  <1>2. /\ run' = [run EXCEPT ![s] = next] /\ run'[s] = next
        /\ UNCHANGED <<agreements>>
    BY <1>1, GoesOn
  <1>3. r.job.count \in 1..BatchCeiling
    BY <1>1 DEF Sending, Sends, Refunds
  <1>4. r.job.cmd = "drain" =>
          /\ a.refund_cursor \in Nat /\ next.before.refund_cursor <= a.refund_cursor
    <2>1. a.refund_cursor \in Nat
      BY <1>1 DEF Agreement
    <2>2. r.job.cmd = "drain" => "before" \in DOMAIN r /\ Onto(a, r.before) /\ r.before.refund_cursor \in Nat
      BY <1>1 DEF Moving, RunsInv, Knows, Drains
    <2> QED
      BY <2>1, <2>2 DEF Onto
  <1> HIDE DEF next
  <1>5. next.pc = "roster" /\ next.job = r.job /\ next.rec = a
    BY DEF next
  <1>6. Sends(run[s])'
    BY <1>1, <1>2, <1>3, <1>4, <1>5 DEF Sends, Expires, Refunds, Closes, Delivers, Agreement
  <1> QED
    BY <1>2, <1>6, OneSends

LEMMA ReadRosterSends ==
  ASSUME Moving, Sending, NEW s \in Shell, ReadRoster(s)
  PROVE  Sending'
  <1> DEFINE r == run[s]
             id == r.job.id
             named == IF id \in Live THEN NamedPayers(r.rec, roster[id], r.job.count) ELSE {}
             next == [pc |-> "refund", job |-> r.job, rec |-> r.rec, before |-> r.before,
                      named |-> named]
  <1>1. r.pc = "roster" /\ Goes(s, next)
    BY DEF ReadRoster
  <1>2. /\ run' = [run EXCEPT ![s] = next] /\ run'[s] = next
        /\ UNCHANGED <<agreements, roster>>
    BY <1>1, GoesOn
  <1>3. /\ r.job.count \in 1..BatchCeiling
        /\ r.job.cmd = "drain" =>
             /\ r.rec.refund_cursor \in Nat /\ r.before.refund_cursor <= r.rec.refund_cursor
             /\ id \in Live => r.rec.refund_cursor <= agreements[id].refund_cursor
    BY <1>1 DEF Sending, Sends, Refunds
  <1>4. id \in Live =>
          \A t \in DOMAIN roster[id] :
            t >= r.rec.refund_cursor /\ t < r.rec.refund_cursor + r.job.count
              => roster[id][t].payer \in named
    BY DEF NamedPayers
  <1> HIDE DEF named
  <1>5. Sends(run[s])'
    BY <1>2, <1>3, <1>4 DEF Sends, Expires, Refunds, Closes, Delivers, Live
  <1> QED
    BY <1>2, <1>5, OneSends

LEMMA ReadForReleaseSends ==
  ASSUME Moving, Sending, NEW s \in Shell, ReadForRelease(s)
  PROVE  Sending'
  <1> DEFINE job == run[s].job
             next == [pc |-> "release", job |-> job, hash |-> job.sha256, note |-> NoNote]
  <1>1. Goes(s, next) /\ job.cmd = "release"
    BY DEF ReadForRelease
  <1>2. run' = [run EXCEPT ![s] = next] /\ run'[s] = next
    BY <1>1, GoesOn
  <1>3. Sends(run[s])'
    BY <1>1, <1>2 DEF Sends, Expires, Refunds, Closes, Delivers
  <1> QED
    BY <1>2, <1>3, OneSends

LEMMA ReadReleasableSends ==
  ASSUME Moving, Sending, NEW s \in Shell, ReadReleasable(s)
  PROVE  Sending'
  <1> DEFINE r == run[s]
             a == agreements[r.job.id]
             next == [pc |-> IF r.pc = "record" THEN "runway" ELSE "margin", job |-> r.job,
                      rec |-> a, fetched |-> IF r.pc = "again" THEN r.fetched ELSE 0]
  <1>1. /\ r.pc \in {"record", "again"} /\ r.job.id \in Live /\ Goes(s, next)
        /\ r.job.id \in 1..agreement_count
    BY DEF ReadReleasable, Moving, RunsInv, BoxInv
  <1>2. /\ run' = [run EXCEPT ![s] = next] /\ run'[s] = next
        /\ UNCHANGED <<now, agreement_count, agreements>>
    BY <1>1, GoesOn
  <1>3. CASE r.pc = "record"
    <2>1. run'[s].pc = "runway"
      BY <1>2, <1>3
    <2> QED
      BY <1>2, <2>1, ElsewhereSends, OneSends DEF Calling
  <1>4. CASE r.pc = "again"
    <2>1. r.fetched \in Nat /\ r.fetched <= now
      BY <1>4 DEF Sending, Sends, Delivers
    <2>2. run'[s] = [pc |-> "margin", job |-> r.job, rec |-> a, fetched |-> r.fetched]
      BY <1>2, <1>4
    <2>3. Sends(run[s])'
      BY <1>1, <1>2, <2>1, <2>2
      DEF Sends, Expires, Refunds, Closes, Delivers, StillOwing, Live
    <2> QED
      BY <1>2, <2>3, OneSends
  <1> QED
    BY <1>1, <1>3, <1>4

\* The gateways have answered: the time is noted.
LEMMA FetchedSends ==
  ASSUME Moving, Sending, NEW s \in Shell, Goes(s, AfterFetch(run[s]))
  PROVE  Sending'
  <1>1. /\ run' = [run EXCEPT ![s] = AfterFetch(run[s])]
        /\ run'[s] = [pc |-> "again", job |-> run[s].job, fetched |-> now]
        /\ now' = now /\ now \in Nat
    BY GoesOn DEF AfterFetch, Moving, RunsInv, BoxInv
  <1>2. Sends(run[s])'
    BY <1>1 DEF Sends, Expires, Refunds, Closes, Delivers
  <1> QED
    BY <1>1, <1>2, OneSends

LEMMA AsideSends ==
  ASSUME Moving, Sending, NEW s \in Shell, NEW next, Goes(s, next), next.pc \notin Calling
  PROVE  Sending'
  <1>1. run' = [run EXCEPT ![s] = next] /\ run'[s].pc \notin Calling
    BY GoesOn
  <1> QED
    BY <1>1, ElsewhereSends, OneSends

LEMMA GatewaysSend ==
  ASSUME Moving, Sending, NEW s \in Shell, CheckRunway(s) \/ Fetch(s)
  PROVE  Sending'
  <1> DEFINE r == run[s]
  <1>1. CASE CheckRunway(s)
    <2> DEFINE next == [pc |-> "fetch", job |-> r.job, attempt |-> 1,
                        pending |-> DOMAIN r.job.manifest.files]
    <2>1. Goes(s, AfterFetch(r)) \/ Goes(s, next)
      BY <1>1 DEF CheckRunway
    <2>2. next.pc \notin Calling
      BY DEF Calling
    <2> HIDE DEF next
    <2> QED
      BY <2>1, <2>2, FetchedSends, AsideSends
  <1>2. CASE Fetch(s)
    <2>1. r.pc = "fetch" /\ "pc" \in DOMAIN r
      BY <1>2 DEF Fetch, Moving, RunsInv, Knows, Begun
    <2>2. PICK served :
            Goes(s, IF r.pending = served THEN AfterFetch(r)
                    ELSE IF r.attempt = VerifyAttempts THEN Idle
                    ELSE [r EXCEPT !.attempt = @ + 1, !.pending = @ \ served])
      BY <1>2 DEF Fetch
    <2>3. [r EXCEPT !.attempt = @ + 1, !.pending = @ \ served].pc \notin Calling
      BY <2>1 DEF Calling
    <2>4. Idle.pc \notin Calling
      BY DEF Idle, Calling
    <2> QED
      BY <2>2, <2>3, <2>4, FetchedSends, AsideSends
  <1> QED
    BY <1>1, <1>2

LEMMA CheckMarginSends ==
  ASSUME Moving, Sending, NEW s \in Shell, CheckMargin(s)
  PROVE  Sending'
  <1> DEFINE r == run[s]
             id == r.job.id
             a == agreements[id]
             next == [pc |-> "release", job |-> r.job, hash |-> r.rec.commit_hash,
                      fetched |-> r.fetched,
                      note |-> ReleaseNote(r.job.manifest, r.job.id, r.job.cid)]
  <1>1. /\ r.pc = "margin"
        /\ CheckReleasable(r.rec, Keys["verifier"], r.job.manifest.sha256, Margin)
    BY DEF CheckMargin
  <1>2. CASE Goes(s, Idle)
    <2>1. Idle.pc \notin Calling
      BY DEF Idle, Calling
    <2> QED
      BY <1>2, <2>1, AsideSends
  <1>3. CASE Goes(s, next)
    <2>1. /\ run' = [run EXCEPT ![s] = next] /\ run'[s] = next
          /\ UNCHANGED <<now, agreement_count, agreements>>
      BY <1>3, GoesOn
    <2>2. /\ r.fetched \in Nat /\ r.fetched <= now /\ id \in 1..agreement_count
          /\ id \in Live =>
               /\ a.deadline = r.rec.deadline /\ a.verifier = r.rec.verifier
               /\ a.commit_hash = r.rec.commit_hash
               /\ r.rec.state = "FUNDED" => StillOwing(a)
      BY <1>1 DEF Sending, Sends, Delivers
    <2>3. id \in Live => a.deadline \in Nat
      BY BoxOf DEF Moving, Chain, Agreement
    <2>4. now \in Nat /\ Margin \in Nat
      BY EditionAssumption DEF Moving, RunsInv, BoxInv
    <2>5. id \in Live =>
            /\ a.verifier = Keys["verifier"] /\ a.commit_hash = r.rec.commit_hash
            /\ a.deadline >= r.fetched + Margin
            /\ StillOwing(a)
      BY <1>1, <2>2, <2>3, <2>4 DEF CheckReleasable
    <2>6. Sends(run[s])'
      BY <2>1, <2>2, <2>5 DEF Sends, Expires, Refunds, Closes, Delivers, StillOwing, Live
    <2> QED
      BY <2>1, <2>6, OneSends
  <1> QED
    BY <1>2, <1>3 DEF CheckMargin

LEMMA AsideScripts ==
  ASSUME Moving, Sending, NEW s \in Shell,
         \/ GiveUp(s) \/ ReadPaused(s) \/ ReadNewest(s) \/ ScanOne(s)
         \/ SettleDeadline(s) \/ ReadSeat(s)
  PROVE  Sending'
  <1> DEFINE r == run[s]
  <1>1. Idle.pc \notin Calling
    BY DEF Idle, Calling
  <1>2. CASE GiveUp(s)
    BY <1>1, <1>2, AsideSends DEF GiveUp
  <1>3. CASE ReadPaused(s)
    <2> DEFINE next == [pc |-> "count", job |-> r.job, moment |-> now]
    <2>1. Goes(s, next) /\ next.pc \notin Calling
      BY <1>3 DEF ReadPaused, Calling
    <2> QED
      BY <2>1, AsideSends
  <1>4. CASE ReadNewest(s)
    <2> DEFINE next == [pc |-> "scan", job |-> r.job, moment |-> r.moment,
                        at |-> agreement_count, saw |-> agreement_count]
    <2>1. Goes(s, next) /\ next.pc \notin Calling
      BY <1>4 DEF ReadNewest, Calling
    <2> QED
      BY <2>1, AsideSends
  <1>5. CASE ScanOne(s)
    <2> DEFINE next == [r EXCEPT !.at = @ - 1]
    <2>1. Goes(s, Idle) \/ Goes(s, next)
      BY <1>5 DEF ScanOne
    <2>2. next.pc \notin Calling
      BY <1>5 DEF ScanOne, Moving, RunsInv, Knows, Begun, Calling
    <2> HIDE DEF next
    <2> QED
      BY <1>1, <2>1, <2>2, AsideSends
  <1>6. CASE SettleDeadline(s)
    <2> DEFINE next == [pc |-> "name", job |-> r.job, saw |-> r.saw,
                        deadline |-> now + Lasting(r.job)]
    <2>1. Goes(s, Idle) \/ Goes(s, next)
      BY <1>6 DEF SettleDeadline
    <2>2. next.pc \notin Calling
      BY DEF Calling
    <2> HIDE DEF next
    <2> QED
      BY <1>1, <2>1, <2>2, AsideSends
  <1>7. CASE ReadSeat(s)
    <2> DEFINE next == [pc |-> "claim", job |-> r.job,
                        payer |-> roster[r.job.id][r.job.seat].payer]
    <2>1. Goes(s, next) /\ next.pc \notin Calling
      BY <1>7 DEF ReadSeat, Calling
    <2> QED
      BY <2>1, AsideSends
  <1> QED
    BY <1>2, <1>3, <1>4, <1>5, <1>6, <1>7

\* Where a call has landed the run has ended, or drain looks again.
LEMMA LandedSends ==
  ASSUME Moving, Sending, NEW s \in Shell,
         \/ SendCreate(s) \/ SendExpire(s) \/ SendRefund(s) \/ SendClaim(s)
         \/ SendClose(s) \/ SendRelease(s)
  PROVE  Sending'
  <1>1. ASSUME NEW next, run' = [run EXCEPT ![s] = next], next.pc \notin Calling
        PROVE  Sending'
    <2>1. run'[s].pc \notin Calling
      BY <1>1 DEF Moving, RunsInv
    <2> QED
      BY <1>1, <2>1, ElsewhereSends, OneSends
  <1>2. Idle.pc \notin Calling
    BY DEF Idle, Calling
  <1>3. \A job, before : /\ [pc |-> "reread", job |-> job].pc \notin Calling
                         /\ [pc |-> "reread", job |-> job, before |-> before].pc \notin Calling
    BY DEF Calling
  <1>4. CASE SendExpire(s)
    BY <1>1, <1>2, <1>3, <1>4 DEF SendExpire, Lands
  <1>5. CASE SendRefund(s)
    BY <1>1, <1>2, <1>3, <1>5 DEF SendRefund, Lands
  <1>6. CASE SendCreate(s) \/ SendClaim(s) \/ SendClose(s) \/ SendRelease(s)
    BY <1>1, <1>2, <1>6 DEF SendCreate, SendClaim, SendClose, SendRelease, Lands
  <1> QED
    BY <1>4, <1>5, <1>6

LEMMA SendingStep ==
  ASSUME Moving, Sending, [NextOperators]_allVars
  PROVE  Sending'
  <1>1. ASSUME run' = run PROVE Sending'
    BY <1>1, SendsStay DEF Sending
  <1>2. ASSUME NEW s \in Shell, Script(s) PROVE Sending'
    BY <1>2, BeginSends, AsideScripts, NameBoxesSends, ReadRecordSends, ReadHoldingSends,
       ReadClockSends, RereadSends, ReadCursorSends, ReadRosterSends, ReadForReleaseSends,
       ReadReleasableSends, GatewaysSend, CheckMarginSends, LandedSends
    DEF Script
  <1>3. Elsewhere => run' = run
    BY DEF Elsewhere, scriptVars
  <1> QED
    BY <1>1, <1>2, <1>3 DEF NextOperators, allVars, scriptVars

LEMMA SendingAlways == SpecOperators => []Sending
  <1>1. InitOperators => Sending
    <2>1. ASSUME NEW s \in Shell, run[s] = Idle PROVE Sends(run[s])
      BY <2>1 DEF Sends, Expires, Refunds, Closes, Delivers, Idle
    <2> QED
      BY <2>1 DEF InitOperators, Sending
  <1>2. RunsInv /\ RunsInv' /\ Chain /\ Chain' /\ Sending /\ [NextOperators]_allVars => Sending'
    BY NextIsAround, AroundOnward, AroundKeeps, SendingStep DEF Moving, RunsInv
  <1> QED
    BY <1>1, <1>2, RunsAlways, ChainAlways, PTL DEF SpecOperators

-----------------------------------------------------------------------------
(* The calls that are sent are the calls that pass.                        *)

LEMMA CreateIsTaken ==
  ASSUME RunsInv, Chain, Sending
  PROVE  CreateRefusedOnlyIf
  <1> SUFFICES ASSUME NEW s \in Shell, run[s].pc = "create",
                      run[s].id = agreement_count + 1, ~paused, ~(now >= run[s].deadline),
                      Treasury \in canReceive, agreement_count # MaxAgreements,
                      ~NeverValid(run[s].job)
               PROVE  CreateLands(run[s])
    BY DEF CreateRefusedOnlyIf
  <1> DEFINE r == run[s]
  <1>1. /\ r.job.price \in Nat /\ r.job.seats \in Nat /\ r.deadline \in Int /\ now \in Nat
        /\ r.job.cmd = "create" /\ Offline(r.job)
    BY DEF RunsInv, BoxInv, Knows, Begun, Scans, Ended
  <1>2. r.job.seats <= SeatsCeiling
    BY <1>1, ScriptAssumption, NumberAssumption DEF Offline
  <1>3. r.job.price > 0 /\ r.job.seats >= 1 /\ r.job.manifest.sha256 # ZeroHash
    BY <1>1 DEF NeverValid, Sending, Sends
  <1>4. r.deadline > now
    BY <1>1
  <1>5. ValidOffer(OfferOf(r))
    BY <1>2, <1>3, <1>4, ScriptAssumption, AccountAssumption DEF ValidOffer, OfferOf
  <1>6. r.deposit = RequiredDeposit(OfferOf(r).max_seats)
    BY DEF Sending, Sends, OfferOf
  <1>7. agreement_count < MaxAgreements /\ agreement_count + 1 \notin DOMAIN roster
    BY NumberAssumption DEF Chain, IInv, TypeOK
  <1> QED
    BY <1>5, <1>6, <1>7 DEF CreateLands, CreatePasses, Chain

LEMMA MovesAreTaken ==
  ASSUME RunsInv, Chain, Sending
  PROVE  RefusedOnlyIfMoved
  <1> SUFFICES ASSUME NEW s \in Shell
               PROVE  LET r == run[s] id == r.job.id IN
                      /\ r.pc = "expire" =>
                           \/ ExpirePasses(Keys[r.job.role], id)
                           \/ id \notin Live \/ agreements[id] # r.rec
                           \/ r.rec.state = "FILLED" /\ r.rec.beneficiary \in canReceive
                      /\ r.pc = "refund" /\ r.job.cmd = "drain" =>
                           \/ SentRefundPasses(id, r.job.count, r.named)
                           \/ id \notin Live \/ agreements[id] # r.before
                      /\ r.pc = "close" /\ r.job.cmd = "drain" =>
                           ClosePasses(id) \/ id \notin Live
    BY DEF RefusedOnlyIfMoved
  <1> DEFINE r == run[s]
             id == r.job.id
  <1>1. Sends(r) /\ Knows(r) /\ IInv /\ Balanced /\ Receptive /\ minFee = InitialFee
    BY DEF Sending, RunsInv, Chain, Receptive
  <1>2. ASSUME r.pc = "expire", id \in Live, agreements[id] = r.rec,
               ~(r.rec.state = "FILLED" /\ r.rec.beneficiary \in canReceive)
        PROVE  ExpirePasses(Keys[r.job.role], id)
    BY <1>1, <1>2 DEF Sends, Expires, ExpirePasses, Expirable
  <1>3. ASSUME r.pc = "refund", r.job.cmd = "drain", id \in Live, agreements[id] = r.before
        PROVE  SentRefundPasses(id, r.job.count, r.named)
    <2>1. /\ r.job.count \in 1..BatchCeiling /\ r.rec.refund_cursor \in Nat
          /\ r.before.refund_cursor <= r.rec.refund_cursor
          /\ r.rec.refund_cursor <= agreements[id].refund_cursor
          /\ \A t \in DOMAIN roster[id] :
               t >= r.rec.refund_cursor /\ t < r.rec.refund_cursor + r.job.count
                 => roster[id][t].payer \in r.named
      BY <1>1, <1>3 DEF Sends, Refunds
    <2>2. agreements[id].state \in {"EXPIRED", "REFUNDING"}
      BY <1>1, <1>3 DEF Knows, Drains
    <2>3. r.rec.refund_cursor = agreements[id].refund_cursor
      BY <1>1, <1>3, <2>1, BoxOf DEF Agreement
    <2>4. r.job.count \in Nat
      BY <2>1, NumberAssumption
    <2>5. RefundNextPasses(id, r.job.count)
      BY <1>1, <1>3, <2>1, <2>2, RefundOpen
    <2> QED
      BY <1>1, <1>3, <2>1, <2>3, <2>4, <2>5, WindowNamed DEF SentRefundPasses
  <1>4. ASSUME r.pc = "close", r.job.cmd = "drain", id \in Live
        PROVE  ClosePasses(id)
    BY <1>1, <1>4, CloseOpen DEF Sends, Closes
  <1> QED
    BY <1>2, <1>3, <1>4

\* A funded agreement can be delivered: it holds something, and its deposit
\* has the fee.
LEMMA FundedDelivers ==
  ASSUME Chain, NEW id \in Live, agreements[id].state = "FUNDED",
         agreements[id].beneficiary \in canReceive
  PROVE  CanDeliver(id)
  <1> DEFINE a == agreements[id]
             r == roster[id]
  <1>1. IInv /\ a \in Agreement /\ Sound(a, r) /\ Receptive
    BY BoxOf DEF Chain, Receptive
  <1>2. a.seats \in Nat /\ a.seats > 0
    BY <1>1 DEF Sound, Staged, Agreement
  <1>3. Owed(a, r) = 0..(a.seats - 1)
    BY <1>1, AllOwed
  <1>4. 0 \in Owed(a, r)
    BY <1>2, <1>3
  <1>5. a.total_held > 0
    BY <1>1, <1>4, OwedIsHeld
  <1>6. a.total_held \in Nat /\ a.total_held <= a.total_held
    BY <1>1 DEF Agreement
  <1>7. CanPay({a.beneficiary}, a.total_held, 1)
    BY <1>1, <1>5, <1>6, OnePaymentPasses DEF Chain
  <1> QED
    BY <1>7 DEF CanDeliver

LEMMA ReleaseIsTaken ==
  ASSUME RunsInv, Chain, Sending
  PROVE  ReleaseRefusedOnlyIf
  <1> SUFFICES ASSUME NEW s \in Shell, run[s].pc = "release",
                      run[s].job.cmd = "release_edition", ~(now - run[s].fetched >= Margin),
                      run[s].job.id \in Live, agreements[run[s].job.id].state # "RELEASED",
                      agreements[run[s].job.id].beneficiary \in canReceive
               PROVE  ReleaseHashPasses(Keys["verifier"], run[s].job.id, run[s].hash)
    BY DEF ReleaseRefusedOnlyIf
  <1> DEFINE r == run[s]
             a == agreements[r.job.id]
  <1>1. /\ r.fetched \in Nat /\ a.verifier = Keys["verifier"] /\ a.commit_hash = r.hash
        /\ a.deadline >= r.fetched + Margin /\ StillOwing(a)
    BY DEF Sending, Sends, Delivers
  <1>2. a.deadline \in Nat /\ now \in Nat /\ Margin \in Nat
    BY BoxOf, EditionAssumption DEF Chain, Agreement, IInv, TypeOK
  <1>3. now < a.deadline
    BY <1>1, <1>2
  <1>4. a.state = "FUNDED"
    BY <1>1, <1>2, <1>3 DEF StillOwing
  <1> QED
    BY <1>1, <1>3, <1>4, FundedDelivers DEF ReleaseHashPasses

\* What the scripts send is refused only for what has moved since they looked
\* (create_pool.py, pool_ops.py's expire and drain, release_edition.py), in any
\* interleaving with each other and with everybody else, or, for a create, for
\* the two settings no script looks at, a price and a hash of zero (NeverValid);
\* drain's close never is.
THEOREM CallsRefusedOnlyIfAlways == SpecOperators => []CallsRefusedOnlyIf
  <1>1. RunsInv /\ Chain /\ Sending => CallsRefusedOnlyIf
    BY CreateIsTaken, MovesAreTaken, ReleaseIsTaken DEF CallsRefusedOnlyIf
  <1> QED
    BY <1>1, RunsAlways, ChainAlways, SendingAlways, PTL
=============================================================================
