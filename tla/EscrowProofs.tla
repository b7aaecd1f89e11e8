---------------------------- MODULE EscrowProofs ----------------------------
(***************************************************************************)
(* Theorems about Escrow, for any accounts, offers, ceilings and bounds,   *)
(* and that it implements EscrowPromise.                                   *)
(***************************************************************************)
EXTENDS Escrow, Sums, FiniteSetTheorems, TLAPS

-----------------------------------------------------------------------------
(* Sets of seats are finite, and what they are worth is a number.          *)

\* A set of seats has a number of elements.
LEMMA SeatsFinite ==
  ASSUME NEW a \in Nat, NEW b \in Nat, NEW S \in SUBSET (a..(b - 1))
  PROVE  IsFiniteSet(S) /\ Cardinality(S) \in Nat
<1>1. IsFiniteSet(a..(b - 1))
  BY FS_Interval
<1>2. IsFiniteSet(S)
  BY <1>1, FS_Subset
<1>3. QED
  BY <1>2, FS_CardinalityType

\* Products and distribution, which the solver needs by name.
LEMMA ProductIsNat ==
  ASSUME NEW x \in Nat, NEW y \in Nat
  PROVE  x * y \in Nat
OBVIOUS

\* Multiplication distributes over sum and difference.
LEMMA Distribute ==
  ASSUME NEW x \in Int, NEW y \in Int, NEW z \in Int
  PROVE  x * (y + z) = x * y + x * z /\ x * (y - z) = x * y - x * z
OBVIOUS

\* The price of a finite set of seats is a number.
LEMMA WorthIsNat ==
  ASSUME NEW price \in Nat, NEW S, IsFiniteSet(S)
  PROVE  price * Cardinality(S) \in Nat
<1>1. Cardinality(S) \in Nat
  BY FS_CardinalityType
<1>2. QED
  BY <1>1

-----------------------------------------------------------------------------
(* Type correctness.                                                       *)

\* A freshly deployed application is well typed.
LEMMA TypeInit == Init => TypeOK
<1> SUFFICES ASSUME Init PROVE TypeOK
  OBVIOUS
<1>1. /\ DOMAIN agreements = {} /\ DOMAIN roster = {}
      /\ agreements \in [{} -> Agreement]
  BY DEF Init
<1>2. usdc \in [Account \cup {App} -> Nat]
  BY NumberAssumption DEF Init
<1>3. agreement_count \in 0..MaxAgreements
  BY NumberAssumption DEF Init
<1>4. paused \in BOOLEAN
  BY Zenon DEF Init
<1>5. now \in Nat /\ minFee \in MinFees /\ algo \in Int
  BY NumberAssumption DEF Init
<1>6. canReceive \subseteq Account \cup {App} /\ admin \in Account
  BY AccountAssumption DEF Init
<1>7. QED
  <2>1. Live = {}
    BY <1>1 DEF Live
  <2>2. QED
    BY <1>1, <1>2, <1>3, <1>4, <1>5, <1>6, <2>1 DEF TypeOK

\* Type preservation by a creation with any arguments.
LEMMA TypeCreate ==
  ASSUME TypeOK, NEW caller \in Account, NEW o \in OfferType, NEW deposit,
         CreateAgreement(caller, o, deposit)
  PROVE  TypeOK'
<1> USE AccountAssumption, NumberAssumption
<1> DEFINE id == agreement_count + 1
           new == NewAgreement(o, caller)
<1>1. new \in Agreement
  BY DEF CreateAgreement, CreatePasses, ValidOffer, NewAgreement, OfferType,
                    Agreement, States
<1>2. new.max_seats = o.max_seats /\ o.max_seats \in Nat
  BY DEF NewAgreement, OfferType
<1>3. EmptyRoster(o.max_seats) \in [0..(o.max_seats - 1) -> Seat]
  BY <1>2 DEF EmptyRoster, Seat
<1>4. /\ agreements' = WithBox(agreements, id, new)
      /\ roster' = WithBox(roster, id, EmptyRoster(o.max_seats))
      /\ agreement_count' = id /\ id \in 1..MaxAgreements
      /\ algo' = algo + deposit
      /\ UNCHANGED <<now, minFee, canReceive, usdc, admin, paused>>
  BY DEF CreateAgreement, CreatePasses, ledgerVars, adminVars, TypeOK
<1>5. deposit \in Int
  <2>1. RequiredDeposit(o.max_seats) \in Nat
    <3>1. SeatMbr * o.max_seats \in Nat
      BY <1>2, ProductIsNat
    <3>2. (o.max_seats + 1) * minFee \in Nat
      BY <1>2, ProductIsNat DEF TypeOK
    <3>3. QED
      BY <3>1, <3>2 DEF RequiredDeposit, BoxMbr, FeeReserve
  <2>2. QED
    BY <2>1 DEF CreateAgreement, CreatePasses
<1>6. /\ Live' = Live \cup {id}
      /\ DOMAIN roster' = Live \cup {id}
      /\ Live \cup {id} \subseteq 1..id
  <2>1. Live' = Live \cup {id} /\ DOMAIN roster' = DOMAIN roster \cup {id}
    BY <1>4 DEF WithBox, Live
  <2>2. DOMAIN roster = Live /\ Live \subseteq 1..agreement_count
        /\ agreement_count \in Nat
    BY DEF TypeOK
  <2>3. QED
    BY <2>1, <2>2
<1>7. agreements' \in [Live \cup {id} -> Agreement]
  BY <1>1, <1>4 DEF WithBox, TypeOK, Live
<1>8. \A i \in Live \cup {id} :
        roster'[i] \in [0..(agreements'[i].max_seats - 1) -> Seat]
  BY <1>2, <1>3, <1>4 DEF WithBox, TypeOK, Live
<1>9. QED
  <2>1. algo' \in Int
    BY <1>4, <1>5 DEF TypeOK
  <2>2. agreement_count' \in 0..MaxAgreements
    BY <1>4
  <2>3. QED
    BY <1>4, <1>6, <1>7, <1>8, <2>1, <2>2 DEF TypeOK

\* Type preservation by the admin's calls, create_agreement among them.
LEMMA TypeAdminister ==
  ASSUME TypeOK, Administer
  PROVE  TypeOK'
<1> USE AccountAssumption, NumberAssumption
<1>1. ASSUME NEW caller \in Account, OptInAsset(caller)
      PROVE  TypeOK'
  BY <1>1 DEF OptInAsset, TypeOK, Live, adminVars, boxVars
<1>2. ASSUME NEW caller \in Account, NEW new_admin \in Operators \cup {ZeroAddress},
             SetAdmin(caller, new_admin)
      PROVE  TypeOK'
  BY <1>2 DEF SetAdmin, TypeOK, Live, ledgerVars, boxVars
<1>3. ASSUME NEW caller \in Account, NEW value \in BOOLEAN,
             SetPaused(caller, value)
      PROVE  TypeOK'
  BY <1>3 DEF SetPaused, TypeOK, Live, ledgerVars, boxVars
<1>4. ASSUME NEW caller \in Account, NEW o \in Offers, NEW deposit,
             CreateAgreement(caller, o, deposit)
      PROVE  TypeOK'
  BY <1>4, TypeCreate, InputAssumption
<1>5. QED
  BY <1>1, <1>2, <1>3, <1>4 DEF Administer

\* Type preservation by what the ledger does on its own.
LEMMA TypeEnvironment ==
  ASSUME TypeOK, Environment
  PROVE  TypeOK'
<1>1. CASE Tick
  <2>1. now' \in 0..MaxTime
    BY <1>1, NumberAssumption DEF Tick, TypeOK
  <2>2. UNCHANGED <<minFee, canReceive, usdc, algo, admin, paused, agreement_count,
                    agreements, roster>>
    BY <1>1 DEF Tick, adminVars, boxVars
  <2>3. QED
    BY <2>1, <2>2 DEF TypeOK, Live
<1>2. CASE \E acct \in Fickle : LoseHolding(acct) \/ RegainHolding(acct)
  BY <1>2, AccountAssumption
     DEF LoseHolding, RegainHolding, TypeOK, Live, adminVars, boxVars
<1>3. CASE RaiseMinFee
  BY <1>3, NumberAssumption DEF RaiseMinFee, TypeOK, Live, adminVars, boxVars
<1>4. QED
  BY <1>1, <1>2, <1>3 DEF Environment

-----------------------------------------------------------------------------
(* A call writes the boxes of one agreement and leaves the others alone.   *)

Writes(id, a, r) ==
  /\ id \in Live
  /\ agreements' = [agreements EXCEPT ![id] = a]
  /\ DOMAIN roster' = DOMAIN roster
  /\ \A i \in DOMAIN roster : roster'[i] = IF i = id THEN r ELSE roster[i]
  /\ agreement_count' = agreement_count

BoxTypes ==
  /\ agreement_count \in 0..MaxAgreements
  /\ Live \subseteq 1..agreement_count
  /\ agreements \in [Live -> Agreement]
  /\ DOMAIN roster = Live
  /\ \A id \in Live :
       roster[id] \in [0..(agreements[id].max_seats - 1) -> Seat]

\* A call that writes one well-typed agreement keeps all boxes well typed.
LEMMA WritesBoxTypes ==
  ASSUME TypeOK, NEW id, NEW a \in Agreement, NEW r,
         Writes(id, a, r),
         a.max_seats = agreements[id].max_seats,
         r \in [0..(a.max_seats - 1) -> Seat]
  PROVE  BoxTypes' /\ Live' = Live
<1>1. Live' = Live
  BY DEF Writes, TypeOK, Live
<1>2. agreements' \in [Live -> Agreement] /\ DOMAIN roster' = Live
  BY DEF Writes, TypeOK, Live
<1>3. \A i \in Live :
        roster'[i] \in [0..(agreements'[i].max_seats - 1) -> Seat]
  BY DEF Writes, TypeOK, Live
<1>4. QED
  BY <1>1, <1>2, <1>3 DEF Writes, TypeOK, BoxTypes

\* The balances after the application paid a number to each account.
LEMMA PaidOutType ==
  ASSUME TypeOK, NEW amountOf \in [Account -> Nat], NEW total \in Nat,
         total <= usdc[App]
  PROVE  PaidOut(amountOf, total) \in [Account \cup {App} -> Nat]
<1>1. \A acct \in Account : acct # App /\ usdc[acct] + amountOf[acct] \in Nat
  BY AccountAssumption DEF TypeOK
<1>2. usdc[App] - total \in Nat
  BY DEF TypeOK
<1>3. QED
  BY <1>1, <1>2 DEF PaidOut

\* Type preservation by join: the payer could afford the transfer.
LEMMA TypeJoin ==
  ASSUME TypeOK, NEW id \in Live, NEW caller \in Payers, NEW p \in Payments,
         Join(caller, id, p)
  PROVE  TypeOK'
<1> DEFINE a == agreements[id]
           seat == [payer |-> caller, amount |-> p.amount]
           r == [roster[id] EXCEPT ![a.seats] = seat]
<1> USE AccountAssumption
<1>1. /\ a \in Agreement
      /\ roster[id] \in [0..(a.max_seats - 1) -> Seat]
      /\ p \in PaymentType
  BY InputAssumption DEF TypeOK
<1>2. a.seats < a.max_seats
  BY DEF Join, JoinPasses
<1>3. Seated(a, p.amount) \in Agreement
      /\ Seated(a, p.amount).max_seats = a.max_seats
  <2> DEFINE full == IF a.condition = "quorum" THEN "FILLED" ELSE "FUNDED"
             state == IF a.seats + 1 >= a.min_seats THEN full ELSE a.state
  <2>1. state \in States
    BY <1>1 DEF Agreement, States
  <2>2. a.seats + 1 \in Nat /\ a.total_held + p.amount \in Nat
    BY <1>1 DEF Agreement, PaymentType
  <2>3. Seated(a, p.amount) =
          [a EXCEPT !.seats = a.seats + 1,
                    !.total_held = a.total_held + p.amount, !.state = state]
    BY DEF Seated
  <2> HIDE DEF state
  <2>4. QED
    BY <1>1, <2>1, <2>2, <2>3 DEF Agreement
<1>4. r \in [0..(a.max_seats - 1) -> Seat]
  BY <1>1 DEF Seat, PaymentType
<1>5. Writes(id, Seated(a, p.amount), r)
  BY <1>1 DEF Join, Writes, TypeOK, Live
<1>6. usdc' \in [Account \cup {App} -> Nat]
  <2>1. /\ p.sender \in Account /\ p.receiver = App /\ p.amount \in Nat
        /\ p.amount <= usdc[p.sender]
        /\ usdc' = [usdc EXCEPT ![p.sender] = @ - p.amount, ![App] = @ + p.amount]
    BY <1>1 DEF Join, JoinPasses, Transferable, Transferred, Settles, PaymentType
  <2>2. usdc[p.sender] - p.amount \in Nat /\ usdc[App] + p.amount \in Nat
    BY <2>1 DEF TypeOK
  <2>3. QED
    BY <2>1, <2>2 DEF TypeOK
<1>7. BoxTypes'
  BY <1>3, <1>4, <1>5, WritesBoxTypes
<1>8. QED
  BY <1>6, <1>7 DEF Join, TypeOK, BoxTypes, ledgerVars, adminVars

\* Type preservation by both releases.
LEMMA TypeRelease ==
  ASSUME TypeOK, NEW id \in Live, CanDeliver(id), Release(id)
  PROVE  TypeOK'
<1> DEFINE a == agreements[id]
           new == [a EXCEPT !.total_held = 0, !.state = "RELEASED"]
<1>1. /\ a \in Agreement /\ a.total_held \in Nat
      /\ roster[id] \in [0..(a.max_seats - 1) -> Seat]
  BY DEF TypeOK, Agreement
<1>2. new \in Agreement /\ new.max_seats = a.max_seats
  BY <1>1 DEF Agreement, States
<1>3. Writes(id, new, roster[id])
  BY DEF Release, Writes, TypeOK
<1>4. BoxTypes'
  BY <1>1, <1>2, <1>3, WritesBoxTypes
<1>5. usdc' \in [Account \cup {App} -> Nat]
  <2> DEFINE to == [acct \in Account |->
                      IF acct = a.beneficiary THEN a.total_held ELSE 0]
  <2>1. to \in [Account -> Nat]
    BY <1>1
  <2>2. a.total_held <= usdc[App] /\ usdc' = PaidOut(to, a.total_held)
    BY DEF Release, CanDeliver, CanPay
  <2>3. QED
    BY <1>1, <2>1, <2>2, PaidOutType
<1>6. algo' \in Int
  BY NumberAssumption DEF Release, TypeOK
<1>7. QED
  BY <1>4, <1>5, <1>6 DEF Release, TypeOK, BoxTypes, ledgerVars, adminVars

\* Type preservation by expire.
LEMMA TypeExpire ==
  ASSUME TypeOK, NEW id \in Live, NEW caller, Expire(caller, id)
  PROVE  TypeOK'
<1> DEFINE new == [agreements[id] EXCEPT !.state = "EXPIRED"]
<1>1. /\ agreements[id] \in Agreement
      /\ roster[id] \in [0..(agreements[id].max_seats - 1) -> Seat]
  BY DEF TypeOK
<1>2. new \in Agreement /\ new.max_seats = agreements[id].max_seats
  BY <1>1 DEF Agreement, States
<1>3. Writes(id, new, roster[id])
  BY DEF Expire, Writes, TypeOK
<1>4. BoxTypes'
  BY <1>1, <1>2, <1>3, WritesBoxTypes
<1>5. QED
  BY <1>4 DEF Expire, TypeOK, BoxTypes, ledgerVars, adminVars

\* Type preservation by close: the other boxes stay.
LEMMA TypeClose ==
  ASSUME TypeOK, NEW id \in Live, Close(id)
  PROVE  TypeOK'
<1>1. /\ Live' = Live \ {id}
      /\ agreements' = [i \in Live \ {id} |-> agreements[i]]
      /\ roster' = [i \in Live \ {id} |-> roster[i]]
  BY DEF Close, WithoutBox, TypeOK, Live
<1>2. algo' \in Int
  <2>1. CloseReturn(agreements[id]) \in Int
    <3> DEFINE a == agreements[id]
    <3>1. a.max_seats \in Nat /\ a.seats \in Nat /\ minFee \in Nat
      BY NumberAssumption DEF TypeOK, Agreement
    <3>2. (a.max_seats + 1) * minFee \in Nat
      BY <3>1, ProductIsNat
    <3>3. SeatMbr * a.max_seats \in Nat
      BY <3>1, NumberAssumption, ProductIsNat
    <3>4. InnerUsed(a) + 1 \in Nat
      BY <3>1 DEF InnerUsed
    <3>5. (InnerUsed(a) + 1) * minFee \in Nat
      BY <3>1, <3>4, ProductIsNat
    <3>6. QED
      BY <3>2, <3>3, <3>5, NumberAssumption DEF CloseReturn, FeeReserve, BoxMbr
  <2>2. algo' = algo - CloseReturn(agreements[id]) - minFee
    BY DEF Close
  <2>3. QED
    BY <2>1, <2>2, NumberAssumption DEF TypeOK
<1>3. agreements' \in [Live \ {id} -> Agreement] /\ DOMAIN roster' = Live \ {id}
  BY <1>1 DEF TypeOK
<1>4. \A i \in Live \ {id} :
        roster'[i] \in [0..(agreements'[i].max_seats - 1) -> Seat]
  BY <1>1 DEF TypeOK
<1>5. QED
  BY <1>1, <1>2, <1>3, <1>4 DEF Close, TypeOK, ledgerVars, adminVars

\* The window of a refund call, and the seats it pays or skips.
LEMMA WindowTypes ==
  ASSUME TypeOK, NEW id \in Live, NEW count \in Nat, NEW last,
         last = WindowEnd(agreements[id], count)
  PROVE  /\ last \in Nat
         /\ last <= agreements[id].seats
         /\ IsFiniteSet(Payable(id, last)) /\ IsFiniteSet(Skipped(id, last))
         /\ Cardinality(Payable(id, last)) \in Nat
         /\ Cardinality(Skipped(id, last)) \in Nat
         /\ Worth(id, Payable(id, last)) \in Nat
         /\ Shares(id, Payable(id, last)) \in [Account -> Nat]
<1> DEFINE a == agreements[id]
<1>1. a.seats \in Nat /\ a.refund_cursor \in Nat /\ a.share_price \in Nat
  BY DEF TypeOK, Agreement
<1>2. last \in Nat /\ last <= a.seats
  BY <1>1 DEF WindowEnd
<1>3. /\ Payable(id, last) \in SUBSET (a.refund_cursor..(last - 1))
      /\ Skipped(id, last) \in SUBSET (a.refund_cursor..(last - 1))
  BY DEF Payable, Skipped
<1>4. /\ IsFiniteSet(Payable(id, last)) /\ IsFiniteSet(Skipped(id, last))
      /\ Cardinality(Payable(id, last)) \in Nat
      /\ Cardinality(Skipped(id, last)) \in Nat
  BY <1>1, <1>2, <1>3, SeatsFinite
<1>5. Worth(id, Payable(id, last)) \in Nat
  BY <1>1, <1>4, WorthIsNat DEF Worth
<1>6. ASSUME NEW acct \in Account
      PROVE  Worth(id, {seat \in Payable(id, last) :
                          roster[id][seat].payer = acct}) \in Nat
  <2> DEFINE S == {seat \in Payable(id, last) : roster[id][seat].payer = acct}
  <2>1. IsFiniteSet(S)
    BY <1>4, FS_Subset
  <2>2. QED
    BY <1>1, <2>1, WorthIsNat DEF Worth
<1>7. QED
  BY <1>2, <1>4, <1>5, <1>6 DEF Shares

\* Zeroing amounts keeps a roster a roster.
LEMMA ZeroAmountsType ==
  ASSUME TypeOK, NEW id \in Live, NEW S
  PROVE  ZeroAmounts(id, S) \in [0..(agreements[id].max_seats - 1) -> Seat]
<1> DEFINE D == 0..(agreements[id].max_seats - 1)
<1>1. roster[id] \in [D -> Seat]
  BY DEF TypeOK
<1>2. \A seat \in D : [roster[id][seat] EXCEPT !.amount = 0] \in Seat
  BY <1>1 DEF Seat
<1> HIDE DEF D
<1>3. ZeroAmounts(id, S) \in [D -> Seat]
  BY <1>1, <1>2 DEF ZeroAmounts
<1>4. QED
  BY <1>3 DEF D

\* Type preservation by refund_next: no subtraction goes below zero.
LEMMA TypeRefundNext ==
  ASSUME TypeOK, NEW id \in Live, NEW count \in Nat, RefundNext(id, count)
  PROVE  TypeOK'
<1> DEFINE a == agreements[id]
           last == WindowEnd(a, count)
           paid == Payable(id, last)
           skipped == Skipped(id, last)
           sum == Worth(id, paid)
           new == [a EXCEPT !.refund_cursor = last,
                     !.total_held = a.total_held - sum,
                     !.unclaimed_seats = a.unclaimed_seats + Cardinality(skipped),
                     !.state = IF last >= a.seats THEN "REFUNDED"
                               ELSE "REFUNDING"]
<1>1. /\ last \in Nat /\ last <= a.seats /\ sum \in Nat
      /\ Cardinality(paid) \in Nat /\ Cardinality(skipped) \in Nat
      /\ Shares(id, paid) \in [Account -> Nat]
  BY WindowTypes
<1>2. /\ agreements' = [agreements EXCEPT ![id] = new]
      /\ roster' = [roster EXCEPT ![id] = ZeroAmounts(id, paid)]
      /\ usdc' = PaidOut(Shares(id, paid), sum)
      /\ algo' = algo - Cardinality(paid) * minFee
      /\ a.total_held >= sum
      /\ paid # {} => sum <= usdc[App]
      /\ UNCHANGED <<now, minFee, canReceive, admin, paused, agreement_count>>
  BY DEF RefundNext, RefundNextPasses, CanPay, ledgerVars, adminVars
<1>3. sum <= usdc[App]
  <2>1. CASE paid # {}
    BY <1>2, <2>1
  <2>2. CASE paid = {}
    <3>1. Cardinality(paid) = 0
      BY <2>2, FS_EmptySet
    <3>2. sum = 0
      BY <3>1 DEF Worth, TypeOK, Agreement
    <3>3. QED
      BY <3>2, AccountAssumption DEF TypeOK
  <2>3. QED
    BY <2>1, <2>2
<1>4. algo' \in Int
  <2>1. Cardinality(paid) * minFee \in Nat
    BY <1>1, NumberAssumption, ProductIsNat DEF TypeOK
  <2>2. QED
    BY <1>2, <2>1 DEF TypeOK
<1> HIDE DEF last, paid, skipped, sum
<1>5. a \in Agreement
  BY DEF TypeOK
<1>6. new \in Agreement /\ new.max_seats = a.max_seats
  <2>1. a.total_held - sum \in Nat
        /\ a.unclaimed_seats + Cardinality(skipped) \in Nat
    BY <1>1, <1>2, <1>5 DEF Agreement
  <2>2. QED
    BY <1>1, <1>5, <2>1 DEF Agreement, States
<1>7. ZeroAmounts(id, paid) \in [0..(a.max_seats - 1) -> Seat]
  BY ZeroAmountsType
<1>8. Writes(id, new, ZeroAmounts(id, paid))
  BY <1>2 DEF Writes
<1>9. BoxTypes'
  BY <1>6, <1>7, <1>8, WritesBoxTypes
<1>10. usdc' \in [Account \cup {App} -> Nat]
  BY <1>1, <1>2, <1>3, PaidOutType
<1>11. QED
  BY <1>2, <1>4, <1>9, <1>10 DEF TypeOK, BoxTypes

\* Type preservation by claim_refund.
LEMMA TypeClaimRefund ==
  ASSUME TypeOK, NEW id \in Live, NEW seat \in Nat, ClaimRefund(id, seat)
  PROVE  TypeOK'
<1> DEFINE a == agreements[id]
           amount == roster[id][seat].amount
           new == [a EXCEPT !.total_held = a.total_held - amount,
                            !.unclaimed_seats = a.unclaimed_seats - 1]
           to == [acct \in Account |->
                    IF acct = roster[id][seat].payer THEN amount ELSE 0]
<1>1. /\ a \in Agreement
      /\ roster[id] \in [0..(a.max_seats - 1) -> Seat]
  BY DEF TypeOK
<1>2. /\ a.total_held >= amount /\ a.unclaimed_seats >= 1
      /\ amount > 0 /\ amount <= usdc[App]
      /\ usdc' = PaidOut(to, amount)
      /\ algo' = algo - minFee
      /\ agreements' = [agreements EXCEPT ![id] = new]
      /\ roster' = [roster EXCEPT ![id] = ZeroAmounts(id, {seat})]
      /\ UNCHANGED <<now, minFee, canReceive, admin, paused, agreement_count>>
  BY DEF ClaimRefund, ClaimRefundPasses, CanPay, ledgerVars, adminVars
<1>3. seat \in 0..(a.max_seats - 1)
  BY <1>1 DEF ClaimRefund, ClaimRefundPasses
<1>4. amount \in Nat
  BY <1>1, <1>3 DEF Seat
<1> HIDE DEF amount
<1>5. new \in Agreement /\ new.max_seats = a.max_seats
  <2>1. a.total_held - amount \in Nat /\ a.unclaimed_seats - 1 \in Nat
    BY <1>1, <1>2, <1>4 DEF Agreement
  <2>2. QED
    BY <1>1, <2>1 DEF Agreement
<1>6. Writes(id, new, ZeroAmounts(id, {seat}))
  BY <1>2 DEF Writes
<1>7. BoxTypes'
  BY <1>5, <1>6, ZeroAmountsType, WritesBoxTypes
<1>8. to \in [Account -> Nat]
  BY <1>4
<1>9. usdc' \in [Account \cup {App} -> Nat]
  BY <1>2, <1>4, <1>8, PaidOutType
<1>10. algo' \in Int
  BY <1>2, NumberAssumption DEF TypeOK
<1>11. QED
  BY <1>2, <1>7, <1>9, <1>10 DEF TypeOK, BoxTypes

\* Type preservation by every step.
LEMMA TypeStep == TypeOK /\ [Next]_vars => TypeOK'
<1> SUFFICES ASSUME TypeOK, [Next]_vars PROVE TypeOK'
  OBVIOUS
<1>1. CASE Administer
  BY <1>1, TypeAdminister
<1>2. ASSUME NEW id \in Live, Call(id) PROVE TypeOK'
  <2>1. ASSUME NEW caller \in Payers, NEW p \in Payments, Join(caller, id, p)
        PROVE  TypeOK'
    BY <2>1, TypeJoin
  <2>2. ASSUME NEW caller \in Account, NEW h \in Hash \cup {ZeroHash},
               ReleaseHash(caller, id, h)
        PROVE  TypeOK'
    BY <2>2, TypeRelease DEF ReleaseHash, ReleaseHashPasses
  <2>3. CASE ReleaseQuorum(id)
    BY <2>3, TypeRelease DEF ReleaseQuorum, ReleaseQuorumPasses
  <2>4. ASSUME NEW caller \in Account, Expire(caller, id) PROVE TypeOK'
    BY <2>4, TypeExpire
  <2>5. ASSUME NEW count \in 0..(BatchCeiling + 1), RefundNext(id, count)
        PROVE  TypeOK'
    BY <2>5, TypeRefundNext
  <2>6. ASSUME NEW seat \in 0..SeatsCeiling, ClaimRefund(id, seat)
        PROVE  TypeOK'
    BY <2>6, TypeClaimRefund
  <2>7. CASE Close(id)
    BY <2>7, TypeClose
  <2>8. QED
    BY <1>2, <2>1, <2>2, <2>3, <2>4, <2>5, <2>6, <2>7 DEF Call
<1>3. CASE Environment
  BY <1>3, TypeEnvironment
<1>4. CASE UNCHANGED vars
  BY <1>4 DEF vars, TypeOK, Live
<1>5. QED
  BY <1>1, <1>2, <1>3, <1>4 DEF Next

\* Every value the contract and the ledger keep has its type, in every
\* reachable state: in particular no balance, and no count or sum of a record,
\* ever goes below zero.
THEOREM TypeCorrect == Spec => []TypeOK
BY TypeInit, TypeStep, PTL DEF Spec

-----------------------------------------------------------------------------
(* The accounting of one agreement, through each call.                     *)

\* The seats owed, and any of them, are finitely many.
LEMMA OwedFinite ==
  ASSUME NEW a \in Agreement, NEW r, NEW S \in SUBSET Owed(a, r)
  PROVE  /\ IsFiniteSet(Owed(a, r)) /\ Cardinality(Owed(a, r)) \in Nat
         /\ IsFiniteSet(S) /\ Cardinality(S) \in Nat
<1>1. Owed(a, r) \in SUBSET (0..(a.seats - 1)) /\ a.seats \in Nat
  BY DEF Owed, Agreement
<1>2. S \in SUBSET (0..(a.seats - 1))
  BY <1>1
<1>3. QED
  BY <1>1, <1>2, SeatsFinite

\* The seats below n are n.
LEMMA SeatsBelow ==
  ASSUME NEW n \in Nat
  PROVE  Cardinality(0..(n - 1)) = n
<1>1. 0 \in Int /\ n - 1 \in Int
  OBVIOUS
<1>2. Cardinality(0..(n - 1)) = IF 0 > n - 1 THEN 0 ELSE (n - 1) - 0 + 1
  BY <1>1, FS_Interval
<1>3. QED
  BY <1>2

\* A new agreement owes nothing.
LEMMA SoundNew ==
  ASSUME NEW o \in OfferType, NEW creator \in Account, ValidOffer(o)
  PROVE  Sound(NewAgreement(o, creator), EmptyRoster(o.max_seats))
<1> DEFINE a == NewAgreement(o, creator)
           r == EmptyRoster(o.max_seats)
<1>1. /\ a.seats = 0 /\ a.refund_cursor = 0 /\ a.unclaimed_seats = 0
      /\ a.total_held = 0 /\ a.state = "OPEN"
      /\ a.share_price = o.share_price /\ a.share_price \in Nat
      /\ a.min_seats = o.min_seats /\ a.max_seats = o.max_seats
      /\ o.min_seats \in Nat
  BY DEF NewAgreement, OfferType
<1>2. Staged(a)
  BY <1>1 DEF Staged, ValidOffer
<1> HIDE DEF a, r
<1>3. Owed(a, r) = {} /\ {s \in Owed(a, r) : s < a.refund_cursor} = {}
  BY <1>1 DEF Owed
<1>4. Seating(a, r)
  BY <1>1 DEF Seating
<1>5. HeldExact(a, r) /\ SkipsExact(a, r)
  BY <1>1, <1>3, FS_EmptySet DEF HeldExact, SkipsExact
<1>6. QED
  BY <1>2, <1>4, <1>5 DEF Sound, a, r

\* A join adds one owed seat at the end and its price to what is held.
LEMMA SoundJoin ==
  ASSUME NEW a \in Agreement, NEW r \in [0..(a.max_seats - 1) -> Seat],
         NEW payer \in Account, Sound(a, r),
         a.state = "OPEN", a.seats < a.max_seats,
         \A s \in 0..(a.seats - 1) : r[s].payer # payer
  PROVE  Sound(Seated(a, a.share_price),
               [r EXCEPT ![a.seats] = [payer |-> payer, amount |-> a.share_price]])
<1> DEFINE b == Seated(a, a.share_price)
           q == [r EXCEPT ![a.seats] = [payer |-> payer, amount |-> a.share_price]]
<1>1. /\ a.seats \in Nat /\ a.share_price \in Nat /\ a.max_seats \in Nat
      /\ a.total_held \in Nat /\ a.min_seats \in Nat
      /\ a.condition \in {"hash", "quorum"}
  BY DEF Agreement
<1>2. /\ b.seats = a.seats + 1 /\ b.share_price = a.share_price
      /\ b.total_held = a.total_held + a.share_price
      /\ b.refund_cursor = a.refund_cursor
      /\ b.unclaimed_seats = a.unclaimed_seats
      /\ b.min_seats = a.min_seats /\ b.max_seats = a.max_seats
  BY DEF Seated, Agreement
<1>3. /\ b.state \in {"OPEN", "FUNDED", "FILLED"}
      /\ b.state = "OPEN" => b.seats < b.min_seats
      /\ b.state # "OPEN" => b.seats >= b.min_seats
      /\ b.condition = a.condition
      /\ b.state = "FUNDED" => a.condition = "hash"
      /\ b.state = "FILLED" => a.condition = "quorum"
  BY <1>1 DEF Seated, Agreement
<1>4. a.share_price > 0 /\ a.refund_cursor = 0 /\ a.min_seats = a.max_seats
  BY DEF Sound, Staged
<1>5. /\ q[a.seats] = [payer |-> payer, amount |-> a.share_price]
      /\ \A s \in 0..(a.seats - 1) : q[s] = r[s]
  BY <1>1
<1> HIDE DEF b, q
<1>6. Staged(b)
  BY <1>1, <1>2, <1>3, <1>4 DEF Staged
<1>7. Seating(b, q)
  <2>1. \A s \in 0..(b.seats - 1) : s = a.seats \/ s \in 0..(a.seats - 1)
    BY <1>1, <1>2
  <2>2. \A s \in 0..(a.seats - 1) :
          /\ r[s].payer \in Account /\ r[s].amount = a.share_price
          /\ r[s].payer # payer
    BY <1>4 DEF Sound, Seating
  <2>3. \A s, t \in 0..(a.seats - 1) : r[s].payer = r[t].payer => s = t
    BY DEF Sound, Seating
  <2>4. QED
    BY <1>2, <1>4, <1>5, <2>1, <2>2, <2>3 DEF Seating
<1>8. Owed(b, q) = Owed(a, r) \cup {a.seats}
  <2>1. 0..(b.seats - 1) = 0..(a.seats - 1) \cup {a.seats}
    BY <1>1, <1>2
  <2>2. /\ q[a.seats].amount > 0
        /\ \A s \in 0..(a.seats - 1) : q[s].amount = r[s].amount
    BY <1>4, <1>5
  <2>3. QED
    BY <2>1, <2>2 DEF Owed
<1>9. a.seats \notin Owed(a, r)
  BY <1>1 DEF Owed
<1>10. IsFiniteSet(Owed(a, r)) /\ Cardinality(Owed(a, r)) \in Nat
  BY OwedFinite
<1>11. Cardinality(Owed(b, q)) = Cardinality(Owed(a, r)) + 1
  BY <1>8, <1>9, <1>10, FS_AddElement
<1>12. HeldExact(b, q)
  <2>1. a.total_held = a.share_price * Cardinality(Owed(a, r))
    BY DEF Sound, HeldExact
  <2>2. a.share_price * (Cardinality(Owed(a, r)) + 1)
          = a.share_price * Cardinality(Owed(a, r)) + a.share_price
    <3> DEFINE n == Cardinality(Owed(a, r))
    <3>1. n \in Int /\ a.share_price \in Int
      BY <1>1, <1>10
    <3> HIDE DEF n
    <3>2. a.share_price * (n + 1) = a.share_price * n + a.share_price * 1
      BY <3>1, Distribute
    <3>3. a.share_price * 1 = a.share_price
      BY <3>1
    <3>4. QED
      BY <3>2, <3>3 DEF n
  <2>3. QED
    BY <1>2, <1>3, <1>11, <2>1, <2>2 DEF HeldExact
<1>13. SkipsExact(b, q)
  <2>1. /\ {s \in Owed(b, q) : s < b.refund_cursor} = {}
        /\ {s \in Owed(a, r) : s < a.refund_cursor} = {}
    BY <1>1, <1>2, <1>4 DEF Owed
  <2>2. QED
    BY <1>2, <2>1 DEF SkipsExact, Sound
<1>14. QED
  BY <1>6, <1>7, <1>12, <1>13 DEF Sound, b, q

\* Releasing and expiring touch no seat.
LEMMA SoundRelease ==
  ASSUME NEW a \in Agreement, NEW r, Sound(a, r),
         a.state \in {"FUNDED", "FILLED"}
  PROVE  Sound([a EXCEPT !.total_held = 0, !.state = "RELEASED"], r)
<1> DEFINE b == [a EXCEPT !.total_held = 0, !.state = "RELEASED"]
<1>1. /\ b.seats = a.seats /\ b.share_price = a.share_price
      /\ b.refund_cursor = a.refund_cursor
      /\ b.unclaimed_seats = a.unclaimed_seats
      /\ b.min_seats = a.min_seats /\ b.max_seats = a.max_seats
      /\ b.state = "RELEASED" /\ b.total_held = 0
  BY DEF Agreement
<1> HIDE DEF b
<1>2. Owed(b, r) = Owed(a, r)
  BY <1>1 DEF Owed
<1>3. Staged(b) /\ Seating(b, r) /\ HeldExact(b, r) /\ SkipsExact(b, r)
  BY <1>1, <1>2 DEF Sound, Staged, Seating, HeldExact, SkipsExact
<1>4. QED
  BY <1>3 DEF Sound, b

\* Expiring touches no seat and no counter.
LEMMA SoundExpire ==
  ASSUME NEW a \in Agreement, NEW r, Sound(a, r),
         a.state \in {"OPEN", "FUNDED", "FILLED"}
  PROVE  Sound([a EXCEPT !.state = "EXPIRED"], r)
<1> DEFINE b == [a EXCEPT !.state = "EXPIRED"]
<1>1. /\ b.seats = a.seats /\ b.share_price = a.share_price
      /\ b.refund_cursor = a.refund_cursor
      /\ b.unclaimed_seats = a.unclaimed_seats
      /\ b.min_seats = a.min_seats /\ b.max_seats = a.max_seats
      /\ b.state = "EXPIRED" /\ b.total_held = a.total_held
  BY DEF Agreement
<1> HIDE DEF b
<1>2. Owed(b, r) = Owed(a, r)
  BY <1>1 DEF Owed
<1>3. Staged(b) /\ Seating(b, r) /\ HeldExact(b, r) /\ SkipsExact(b, r)
  BY <1>1, <1>2 DEF Sound, Staged, Seating, HeldExact, SkipsExact
<1>4. QED
  BY <1>3 DEF Sound, b

\* What zeroing the amounts of owed seats does to the roster and to what is
\* owed: the rest of the record plays no part.
Zeroed(r, S) ==
  [s \in DOMAIN r |-> IF s \in S THEN [r[s] EXCEPT !.amount = 0] ELSE r[s]]

SameButZero(a, r, q, S) ==
  \A s \in 0..(a.seats - 1) :
    /\ q[s].payer = r[s].payer
    /\ s \in S => q[s].amount = 0
    /\ s \notin S => q[s].amount = r[s].amount

\* Zeroing leaves payers and the other amounts as they were.
LEMMA ZeroedSeat ==
  ASSUME NEW a \in Agreement, NEW r \in [0..(a.max_seats - 1) -> Seat],
         Staged(a), NEW S
  PROVE  SameButZero(a, r, Zeroed(r, S), S)
<1> SUFFICES ASSUME NEW s \in 0..(a.seats - 1)
             PROVE  /\ Zeroed(r, S)[s].payer = r[s].payer
                    /\ s \in S => Zeroed(r, S)[s].amount = 0
                    /\ s \notin S => Zeroed(r, S)[s].amount = r[s].amount
  BY DEF SameButZero
<1>1. s \in DOMAIN r
  BY DEF Staged, Agreement
<1>2. r[s] \in Seat
  BY <1>1
<1>3. QED
  BY <1>1, <1>2 DEF Zeroed, Seat

\* Zeroed seats are owed no more, and no other seat changes.
LEMMA ZeroedOwed ==
  ASSUME NEW a \in Agreement, NEW r \in [0..(a.max_seats - 1) -> Seat],
         Staged(a), NEW S
  PROVE  Owed(a, Zeroed(r, S)) = Owed(a, r) \ S
<1>1. SameButZero(a, r, Zeroed(r, S), S)
  BY ZeroedSeat
<1>2. QED
  BY <1>1 DEF Owed, SameButZero

\* Until it is decided an agreement owes every seat it sold.
LEMMA AllOwed ==
  ASSUME NEW a \in Agreement, NEW r, Sound(a, r), a.state \in {"OPEN", "FUNDED", "FILLED"}
  PROVE  Owed(a, r) = 0..(a.seats - 1)
BY DEF Sound, Staged, Seating, Owed, Agreement

\* So many fewer seats are owed.
LEMMA OwedLess ==
  ASSUME NEW a \in Agreement, NEW r, NEW S \in SUBSET Owed(a, r)
  PROVE  Cardinality(Owed(a, r) \ S) = Cardinality(Owed(a, r)) - Cardinality(S)
<1>1. IsFiniteSet(Owed(a, r)) /\ Owed(a, r) \cap S = S
  BY OwedFinite
<1>2. QED
  BY <1>1, FS_Difference

\* One refund call: the seats in the window still owed are either paid, and no
\* longer owed, or skipped, and counted.
LEMMA SoundRefund ==
  ASSUME NEW a \in Agreement, NEW r \in [0..(a.max_seats - 1) -> Seat],
         Sound(a, r), a.state \in {"EXPIRED", "REFUNDING"},
         NEW last \in Nat, a.refund_cursor <= last, last <= a.seats,
         last > a.refund_cursor \/ last = a.seats,
         NEW paid, NEW skipped,
         paid \cap skipped = {},
         paid \cup skipped = {s \in a.refund_cursor..(last - 1) : r[s].amount > 0},
         NEW b \in Agreement,
         b = [a EXCEPT !.refund_cursor = last,
                !.total_held = a.total_held - a.share_price * Cardinality(paid),
                !.unclaimed_seats = a.unclaimed_seats + Cardinality(skipped),
                !.state = IF last >= a.seats THEN "REFUNDED" ELSE "REFUNDING"]
  PROVE  Sound(b, Zeroed(r, paid))
<1> DEFINE q == Zeroed(r, paid)
           behind == {s \in Owed(a, r) : s < a.refund_cursor}
<1>1. /\ a.seats \in Nat /\ a.share_price \in Nat /\ a.refund_cursor \in Nat
      /\ a.total_held \in Nat /\ a.unclaimed_seats \in Nat
  BY DEF Agreement
<1>2. /\ b.seats = a.seats /\ b.share_price = a.share_price
      /\ b.min_seats = a.min_seats /\ b.max_seats = a.max_seats
      /\ b.refund_cursor = last
      /\ b.total_held = a.total_held - a.share_price * Cardinality(paid)
      /\ b.unclaimed_seats = a.unclaimed_seats + Cardinality(skipped)
      /\ b.state = IF last >= a.seats THEN "REFUNDED" ELSE "REFUNDING"
  BY DEF Agreement
<1>3. /\ a.total_held = a.share_price * Cardinality(Owed(a, r))
      /\ a.unclaimed_seats = Cardinality(behind)
  BY DEF Sound, HeldExact, SkipsExact
<1>4. /\ paid \in SUBSET Owed(a, r) /\ skipped \in SUBSET Owed(a, r)
      /\ \A s \in paid \cup skipped : s >= a.refund_cursor /\ s < last
  BY <1>1 DEF Owed
<1>5. /\ \A s \in 0..(a.seats - 1) :
           /\ q[s].payer = r[s].payer
           /\ q[s].amount = IF s \in paid THEN 0 ELSE r[s].amount
      /\ Owed(b, q) = Owed(a, r) \ paid
      /\ Cardinality(Owed(b, q)) = Cardinality(Owed(a, r)) - Cardinality(paid)
  <2>1. Staged(a)
    BY DEF Sound
  <2>2. Owed(b, q) = Owed(a, q)
    BY <1>2 DEF Owed
  <2>3. Owed(a, q) = Owed(a, r) \ paid
    BY <2>1, ZeroedOwed
  <2>4. Cardinality(Owed(a, r) \ paid) = Cardinality(Owed(a, r)) - Cardinality(paid)
    BY <1>4, OwedLess
  <2>5. SameButZero(a, r, q, paid)
    BY <2>1, ZeroedSeat
  <2>6. QED
    BY <2>2, <2>3, <2>4, <2>5 DEF SameButZero
<1>6. /\ Cardinality(Owed(a, r)) \in Nat
      /\ IsFiniteSet(paid) /\ Cardinality(paid) \in Nat
      /\ IsFiniteSet(skipped) /\ Cardinality(skipped) \in Nat
      /\ IsFiniteSet(behind) /\ Cardinality(behind) \in Nat
  BY <1>4, OwedFinite
<1> HIDE DEF q
<1>7. Staged(b)
  BY <1>1, <1>2 DEF Sound, Staged
<1>8. Seating(b, q)
  <2>1. \A s \in last..(a.seats - 1) : s \in 0..(a.seats - 1) /\ s \notin paid
    BY <1>1, <1>4
  <2>2. \A s \in last..(a.seats - 1) : r[s].amount = a.share_price
    BY <1>1 DEF Sound, Seating
  <2>3. /\ \A s \in 0..(a.seats - 1) :
             r[s].payer \in Account /\ r[s].amount \in {0, a.share_price}
        /\ \A s, t \in 0..(a.seats - 1) : r[s].payer = r[t].payer => s = t
    BY DEF Sound, Seating
  <2>4. QED
    BY <1>2, <1>5, <2>1, <2>2, <2>3 DEF Seating
<1>9. HeldExact(b, q)
  <2> DEFINE m == Cardinality(Owed(a, r))
             n == Cardinality(paid)
  <2>1. m \in Int /\ n \in Int /\ a.share_price \in Int
    BY <1>1, <1>6
  <2>2. Cardinality(Owed(b, q)) = m - n
    BY <1>5
  <2>3. b.total_held = a.share_price * m - a.share_price * n
    BY <1>2, <1>3
  <2> HIDE DEF m, n
  <2>4. a.share_price * (m - n) = a.share_price * m - a.share_price * n
    BY <2>1, Distribute
  <2>5. b.state # "RELEASED"
    BY <1>2
  <2>6. QED
    BY <1>2, <2>2, <2>3, <2>4, <2>5 DEF HeldExact
<1>10. SkipsExact(b, q)
  <2>1. {s \in Owed(b, q) : s < b.refund_cursor} = behind \cup skipped
    <3>1. \A s \in Owed(a, r) \ paid :
            s < last <=> (s < a.refund_cursor \/ s \in skipped)
      BY <1>1, <1>4 DEF Owed
    <3>2. \A s \in behind \cup skipped : s \in Owed(a, r) \ paid
      BY <1>1, <1>4 DEF Owed
    <3>3. QED
      BY <1>2, <1>5, <3>1, <3>2
  <2>2. behind \cap skipped = {}
    BY <1>1, <1>4 DEF Owed
  <2>3. Cardinality(behind \cup skipped) = Cardinality(behind) + Cardinality(skipped)
    <3>1. Cardinality(behind \cup skipped) =
            Cardinality(behind) + Cardinality(skipped)
              - Cardinality(behind \cap skipped)
      BY <1>6, FS_Union
    <3>2. Cardinality(behind \cap skipped) = 0
      BY <2>2, FS_EmptySet
    <3>3. QED
      BY <1>6, <3>1, <3>2
  <2>4. QED
    BY <1>2, <1>3, <2>1, <2>3 DEF SkipsExact
<1>11. QED
  BY <1>7, <1>8, <1>9, <1>10 DEF Sound, q

\* One claim: a seat that was skipped is no longer owed, and no longer counted.
LEMMA SoundClaim ==
  ASSUME NEW a \in Agreement, NEW r \in [0..(a.max_seats - 1) -> Seat],
         Sound(a, r), a.state \in Returning,
         NEW seat \in Owed(a, r), seat < a.refund_cursor,
         NEW b \in Agreement,
         b = [a EXCEPT !.total_held = a.total_held - r[seat].amount,
                       !.unclaimed_seats = a.unclaimed_seats - 1]
  PROVE  Sound(b, Zeroed(r, {seat}))
<1> DEFINE q == Zeroed(r, {seat})
           behind == {s \in Owed(a, r) : s < a.refund_cursor}
           m == Cardinality(Owed(a, r))
<1>1. /\ a.seats \in Nat /\ a.share_price \in Nat /\ a.refund_cursor \in Nat
      /\ a.total_held \in Nat /\ a.unclaimed_seats \in Nat
      /\ seat \in 0..(a.seats - 1) /\ r[seat].amount = a.share_price
  <2>1. /\ a.seats \in Nat /\ a.share_price \in Nat /\ a.refund_cursor \in Nat
        /\ a.total_held \in Nat /\ a.unclaimed_seats \in Nat
    BY DEF Agreement
  <2>2. seat \in 0..(a.seats - 1) /\ r[seat].amount # 0
    BY DEF Owed
  <2>3. r[seat].amount = a.share_price
    BY <2>2 DEF Sound, Seating
  <2>4. QED
    BY <2>1, <2>2, <2>3
<1>2. /\ b.seats = a.seats /\ b.share_price = a.share_price
      /\ b.min_seats = a.min_seats /\ b.max_seats = a.max_seats
      /\ b.refund_cursor = a.refund_cursor /\ b.state = a.state
      /\ b.total_held = a.total_held - a.share_price
      /\ b.unclaimed_seats = a.unclaimed_seats - 1
  BY <1>1 DEF Agreement
<1>3. /\ a.total_held = a.share_price * m
      /\ a.unclaimed_seats = Cardinality(behind)
  BY DEF Sound, HeldExact, SkipsExact, Returning
<1>4. /\ m \in Nat /\ IsFiniteSet(behind) /\ Cardinality(behind) \in Nat
      /\ Cardinality({seat}) = 1
  BY OwedFinite, FS_Singleton
<1>5. /\ \A s \in 0..(a.seats - 1) :
           /\ q[s].payer = r[s].payer
           /\ q[s].amount = IF s = seat THEN 0 ELSE r[s].amount
      /\ Owed(b, q) = Owed(a, r) \ {seat}
      /\ Cardinality(Owed(b, q)) = m - 1
  <2>1. Staged(a)
    BY DEF Sound
  <2>2. Owed(b, q) = Owed(a, q)
    BY <1>2 DEF Owed
  <2>3. Owed(a, q) = Owed(a, r) \ {seat}
    BY <2>1, ZeroedOwed
  <2>4. Cardinality(Owed(a, r) \ {seat}) = m - Cardinality({seat})
    BY OwedLess
  <2>5. SameButZero(a, r, q, {seat})
    BY <2>1, ZeroedSeat
  <2>6. QED
    BY <1>4, <2>2, <2>3, <2>4, <2>5 DEF SameButZero
<1> HIDE DEF q, m
<1>6. Staged(b)
  BY <1>2 DEF Sound, Staged
<1>7. Seating(b, q)
  BY <1>1, <1>2, <1>5 DEF Sound, Seating
<1>8. HeldExact(b, q)
  <2>1. a.share_price * (m - 1) = a.share_price * m - a.share_price * 1
    <3>1. a.share_price \in Int /\ m \in Int /\ 1 \in Int
      BY <1>1, <1>4
    <3>2. QED
      BY <3>1, Distribute, Zenon
  <2>2. a.share_price * 1 = a.share_price
    BY <1>1
  <2>3. QED
    BY <1>2, <1>3, <1>5, <2>1, <2>2 DEF HeldExact, Returning
<1>9. SkipsExact(b, q)
  <2>1. {s \in Owed(b, q) : s < b.refund_cursor} = behind \ {seat}
    BY <1>2, <1>5
  <2>2. Cardinality(behind \ {seat}) = Cardinality(behind) - 1
    BY <1>4, FS_RemoveElement
  <2>3. QED
    BY <1>2, <1>3, <2>1, <2>2 DEF SkipsExact
<1>10. QED
  BY <1>6, <1>7, <1>8, <1>9 DEF Sound, q

-----------------------------------------------------------------------------
(* The accounting of every agreement, through each step.                   *)

IInv == TypeOK /\ Accounting

\* A call that leaves the agreement it writes sound leaves all of them sound.
LEMMA WritesAccounting ==
  ASSUME IInv, NEW id, NEW a, NEW r, Writes(id, a, r), Sound(a, r)
  PROVE  Accounting'
<1>1. Live' = Live /\ DOMAIN roster = Live
  BY DEF Writes, IInv, TypeOK, Live
<1>2. /\ agreements'[id] = a /\ roster'[id] = r
      /\ \A i \in Live \ {id} :
           agreements'[i] = agreements[i] /\ roster'[i] = roster[i]
  BY <1>1 DEF Writes, IInv, TypeOK, Live
<1>3. ASSUME NEW i \in Live PROVE Sound(agreements'[i], roster'[i])
  <2>1. CASE i = id
    BY <1>2, <2>1
  <2>2. CASE i # id
    <3>1. Sound(agreements[i], roster[i])
      BY DEF IInv, Accounting
    <3>2. QED
      BY <1>2, <2>2, <3>1
  <2>3. QED
    BY <2>1, <2>2
<1>4. QED
  BY <1>1, <1>3 DEF Accounting

\* A step that writes no box keeps every agreement sound.
LEMMA BoxesUnchanged ==
  ASSUME IInv, agreements' = agreements, roster' = roster
  PROVE  Accounting'
BY DEF IInv, Accounting, Live

\* What the invariant says of one live agreement.
LEMMA BoxOf ==
  ASSUME IInv, NEW id \in Live
  PROVE  /\ agreements[id] \in Agreement
         /\ roster[id] \in [0..(agreements[id].max_seats - 1) -> Seat]
         /\ Sound(agreements[id], roster[id])
BY DEF IInv, TypeOK, Accounting

\* create_agreement adds a sound agreement and leaves the rest alone.
LEMMA AccountingCreate ==
  ASSUME IInv, NEW caller \in Account, NEW o \in OfferType, NEW deposit,
         CreateAgreement(caller, o, deposit)
  PROVE  Accounting'
<1> DEFINE id == agreement_count + 1
           new == NewAgreement(o, caller)
           seats == EmptyRoster(o.max_seats)
<1>1. /\ agreements' = WithBox(agreements, id, new)
      /\ roster' = WithBox(roster, id, seats)
      /\ ValidOffer(o)
  BY DEF CreateAgreement, CreatePasses
<1>2. Sound(new, seats)
  BY <1>1, SoundNew
<1> HIDE DEF id, new, seats
<1>3. Live' = Live \cup {id} /\ DOMAIN roster = Live
  BY <1>1 DEF WithBox, Live, IInv, TypeOK
<1>4. ASSUME NEW i \in Live' PROVE Sound(agreements'[i], roster'[i])
  <2>1. CASE i = id
    <3>1. agreements'[i] = new /\ roster'[i] = seats
      BY <1>1, <2>1 DEF WithBox
    <3>2. QED
      BY <1>2, <3>1
  <2>2. CASE i # id
    <3>1. i \in Live /\ agreements'[i] = agreements[i] /\ roster'[i] = roster[i]
      BY <1>1, <1>3, <2>2 DEF WithBox, Live
    <3>2. QED
      BY <3>1, BoxOf
  <2>3. QED
    BY <2>1, <2>2
<1>5. QED
  BY <1>4 DEF Accounting

\* join keeps every agreement sound.
LEMMA AccountingJoin ==
  ASSUME IInv, NEW id \in Live, NEW caller \in Payers, NEW p \in Payments,
         Join(caller, id, p)
  PROVE  Accounting'
<1> DEFINE a == agreements[id]
           r == [roster[id] EXCEPT ![a.seats] =
                   [payer |-> caller, amount |-> a.share_price]]
<1>1. a \in Agreement /\ roster[id] \in [0..(a.max_seats - 1) -> Seat]
      /\ Sound(a, roster[id])
  BY BoxOf
<1>2. /\ p.amount = a.share_price
      /\ a.state = "OPEN" /\ a.seats < a.max_seats
      /\ \A s \in 0..(a.seats - 1) : roster[id][s].payer # caller
  BY DEF Join, JoinPasses, Settles, AlreadyJoined, Occupied
<1>3. Writes(id, Seated(a, a.share_price), r)
  BY <1>2 DEF Join, Writes, IInv, TypeOK, Live
<1>4. Sound(Seated(a, a.share_price), r)
  BY <1>1, <1>2, AccountAssumption, SoundJoin
<1>5. QED
  BY <1>3, <1>4, WritesAccounting

\* Both releases keep every agreement sound.
LEMMA AccountingRelease ==
  ASSUME IInv, NEW id \in Live, Release(id),
         agreements[id].state \in {"FUNDED", "FILLED"}
  PROVE  Accounting'
<1> DEFINE new == [agreements[id] EXCEPT !.total_held = 0, !.state = "RELEASED"]
<1>1. Writes(id, new, roster[id])
  BY DEF Release, Writes, IInv, TypeOK
<1>2. Sound(new, roster[id])
  BY BoxOf, SoundRelease
<1>3. QED
  BY <1>1, <1>2, WritesAccounting

\* expire keeps every agreement sound.
LEMMA AccountingExpire ==
  ASSUME IInv, NEW id \in Live, NEW caller, Expire(caller, id)
  PROVE  Accounting'
<1> DEFINE new == [agreements[id] EXCEPT !.state = "EXPIRED"]
<1>1. Writes(id, new, roster[id])
  BY DEF Expire, Writes, IInv, TypeOK
<1>2. agreements[id].state \in {"OPEN", "FUNDED", "FILLED"}
  BY DEF Expire, ExpirePasses, Expirable
<1>3. Sound(new, roster[id])
  BY <1>2, BoxOf, SoundExpire
<1>4. QED
  BY <1>1, <1>3, WritesAccounting

\* refund_next keeps every agreement sound, whatever its window.
LEMMA AccountingRefundNext ==
  ASSUME IInv, NEW id \in Live, NEW count \in Nat, RefundNext(id, count)
  PROVE  Accounting'
<1> DEFINE a == agreements[id]
           last == WindowEnd(a, count)
           paid == Payable(id, last)
           skipped == Skipped(id, last)
           new == [a EXCEPT !.refund_cursor = last,
                !.total_held = a.total_held - a.share_price * Cardinality(paid),
                !.unclaimed_seats = a.unclaimed_seats + Cardinality(skipped),
                !.state = IF last >= a.seats THEN "REFUNDED" ELSE "REFUNDING"]
<1>1. a \in Agreement /\ roster[id] \in [0..(a.max_seats - 1) -> Seat]
      /\ Sound(a, roster[id])
  BY BoxOf
<1>2. Writes(id, new, Zeroed(roster[id], paid))
  BY DEF RefundNext, Writes, IInv, TypeOK, Worth, ZeroAmounts, Zeroed
<1>3. /\ last \in Nat /\ a.refund_cursor <= last /\ last <= a.seats
      /\ last > a.refund_cursor \/ last = a.seats
  <2>1. a.refund_cursor <= a.seats /\ count > 0
        /\ a.seats \in Nat /\ a.refund_cursor \in Nat
    BY <1>1 DEF RefundNext, RefundNextPasses, Sound, Staged, Agreement
  <2>2. QED
    BY <2>1 DEF WindowEnd
<1>4. /\ paid \cap skipped = {}
      /\ paid \cup skipped =
           {s \in a.refund_cursor..(last - 1) : roster[id][s].amount > 0}
  BY DEF Payable, Skipped
<1>5. a.state \in {"EXPIRED", "REFUNDING"}
  BY DEF RefundNext, RefundNextPasses
<1>6. TypeOK'
  BY TypeRefundNext DEF IInv
<1>7. new \in Agreement
  <2>1. agreements'[id] = new /\ id \in Live'
    BY <1>2 DEF Writes, IInv, TypeOK, Live
  <2>2. QED
    BY <1>6, <2>1 DEF TypeOK
<1>8. Sound(new, Zeroed(roster[id], paid))
  <2> HIDE DEF last, paid, skipped
  <2>1. QED
    BY <1>1, <1>3, <1>4, <1>5, <1>7, SoundRefund
<1>9. QED
  BY <1>2, <1>8, WritesAccounting

\* claim_refund keeps every agreement sound.
LEMMA AccountingClaim ==
  ASSUME IInv, NEW id \in Live, NEW seat \in Nat, ClaimRefund(id, seat)
  PROVE  Accounting'
<1> DEFINE a == agreements[id]
           new == [a EXCEPT !.total_held = a.total_held - roster[id][seat].amount,
                            !.unclaimed_seats = a.unclaimed_seats - 1]
<1>1. a \in Agreement /\ roster[id] \in [0..(a.max_seats - 1) -> Seat]
      /\ Sound(a, roster[id])
  BY BoxOf
<1>2. Writes(id, new, Zeroed(roster[id], {seat}))
  BY DEF ClaimRefund, Writes, IInv, TypeOK, ZeroAmounts, Zeroed
<1>3. /\ a.state \in Returning /\ seat < a.refund_cursor
      /\ seat \in Owed(a, roster[id])
  BY <1>1 DEF ClaimRefund, ClaimRefundPasses, Claimable, Returning, Owed, Agreement
<1>4. TypeOK'
  BY TypeClaimRefund DEF IInv
<1>5. new \in Agreement
  <2>1. agreements'[id] = new /\ id \in Live'
    BY <1>2 DEF Writes, IInv, TypeOK, Live
  <2>2. QED
    BY <1>4, <2>1 DEF TypeOK
<1>6. Sound(new, Zeroed(roster[id], {seat}))
  BY <1>1, <1>3, <1>5, SoundClaim
<1>7. QED
  BY <1>2, <1>6, WritesAccounting

\* close keeps the agreements it leaves sound.
LEMMA AccountingClose ==
  ASSUME IInv, NEW id \in Live, Close(id)
  PROVE  Accounting'
<1>1. /\ Live' = Live \ {id}
      /\ \A i \in Live \ {id} :
           agreements'[i] = agreements[i] /\ roster'[i] = roster[i]
  BY DEF Close, WithoutBox, IInv, TypeOK, Live
<1>2. ASSUME NEW i \in Live \ {id} PROVE Sound(agreements'[i], roster'[i])
  <2>1. Sound(agreements[i], roster[i])
    BY BoxOf
  <2>2. QED
    BY <1>1, <2>1
<1>3. QED
  BY <1>1, <1>2 DEF Accounting

-----------------------------------------------------------------------------
(* The theorems.                                                           *)

\* The inductive invariant holds in every reachable state.
LEMMA Invariant == Spec => []IInv
<1>1. Init => IInv
  <2>1. Init => Live = {}
    BY DEF Init, Live
  <2>2. QED
    BY <2>1, TypeInit DEF IInv, Accounting
<1>2. IInv /\ [Next]_vars => IInv'
  <2> SUFFICES ASSUME IInv, [Next]_vars, TypeOK' PROVE Accounting'
    <3>1. TypeOK /\ [Next]_vars => TypeOK'
      BY TypeStep
    <3>2. QED
      BY <3>1 DEF IInv
  <2>1. ASSUME Administer PROVE Accounting'
    <3>1. ASSUME NEW caller \in Account, NEW o \in Offers,
                 NEW deposit \in Deposits(o), CreateAgreement(caller, o, deposit)
          PROVE  Accounting'
      BY <3>1, AccountingCreate, InputAssumption
    <3>2. ASSUME UNCHANGED boxVars PROVE Accounting'
      BY <3>2, BoxesUnchanged DEF boxVars
    <3>3. QED
      BY <2>1, <3>1, <3>2 DEF Administer, OptInAsset, SetAdmin, SetPaused
  <2>2. ASSUME NEW id \in Live, Call(id) PROVE Accounting'
    <3>1. ASSUME NEW caller \in Payers, NEW p \in Payments, Join(caller, id, p)
          PROVE  Accounting'
      BY <3>1, AccountingJoin
    <3>2. ASSUME NEW caller \in Account, NEW h \in Hash \cup {ZeroHash},
                 ReleaseHash(caller, id, h)
          PROVE  Accounting'
      BY <3>2, AccountingRelease DEF ReleaseHash, ReleaseHashPasses
    <3>3. CASE ReleaseQuorum(id)
      BY <3>3, AccountingRelease DEF ReleaseQuorum, ReleaseQuorumPasses
    <3>4. ASSUME NEW caller \in Account, Expire(caller, id) PROVE Accounting'
      BY <3>4, AccountingExpire
    <3>5. ASSUME NEW count \in 0..(BatchCeiling + 1), RefundNext(id, count)
          PROVE  Accounting'
      BY <3>5, AccountingRefundNext
    <3>6. ASSUME NEW seat \in 0..SeatsCeiling, ClaimRefund(id, seat)
          PROVE  Accounting'
      BY <3>6, AccountingClaim
    <3>7. CASE Close(id)
      BY <3>7, AccountingClose
    <3>8. QED
      BY <2>2, <3>1, <3>2, <3>3, <3>4, <3>5, <3>6, <3>7 DEF Call
  <2>3. ASSUME Environment PROVE Accounting'
    BY <2>3, BoxesUnchanged
       DEF Environment, Tick, LoseHolding, RegainHolding, RaiseMinFee, boxVars
  <2>4. CASE UNCHANGED vars
    BY <2>4, BoxesUnchanged DEF vars
  <2>5. QED
    BY <2>1, <2>2, <2>3, <2>4 DEF Next
<1>3. QED
  BY <1>1, <1>2, PTL DEF Spec

\* In every reachable state the counters of every agreement agree with its
\* roster: what is held, what was skipped, how far the cursor may be in each
\* state, one seat per payer, every amount the price or zero.
THEOREM AccountingAlways == Spec => []Accounting
BY Invariant, PTL DEF IInv

\* No seat is paid twice and none is forgotten: what is held is what is owed.
THEOREM HeldIsOwedAlways == Spec => []HeldIsOwed
<1>1. IInv => HeldIsOwed
  BY DEF IInv, Accounting, Sound, HeldExact, Owed, HeldIsOwed, Worth, Unpaid,
         Occupied
<1>2. QED
  BY <1>1, Invariant, PTL

\* The counter close relies on counts the seats skipped and not yet claimed.
THEOREM UnclaimedIsSkippedAlways == Spec => []UnclaimedIsSkipped
<1>1. IInv => UnclaimedIsSkipped
  BY DEF IInv, Accounting, Sound, SkipsExact, Owed, UnclaimedIsSkipped, Unpaid,
         Occupied
<1>2. QED
  BY <1>1, Invariant, PTL

\* No account ever sits in two seats of one agreement.
THEOREM DistinctPayersAlways == Spec => []DistinctPayers
<1>1. IInv => DistinctPayers
  BY DEF IInv, Accounting, Sound, Seating, DistinctPayers, Occupied
<1>2. QED
  BY <1>1, Invariant, PTL

\* In no reachable state can a deal be both delivered and called off: the hash
\* release closes when the clock that opens expire strikes, the creator's early
\* expire needs a seatless agreement, and a quorum expires only when its
\* beneficiary cannot be paid.
THEOREM ReleaseOrExpireAlways == Spec => []ReleaseOrExpire
<1>1. ASSUME IInv PROVE ReleaseOrExpire
  <2> SUFFICES ASSUME NEW id \in Live, ReleaseCanPass(id), ExpireCanPass(id) PROVE FALSE
    BY DEF ReleaseOrExpire
  <2>1. PICK caller \in Account : ExpirePasses(caller, id)
    BY DEF ExpireCanPass
  <2>2. agreements[id] \in Agreement /\ Staged(agreements[id]) /\ now \in Nat
    BY <1>1, BoxOf DEF Sound, IInv, TypeOK
  <2>3. CASE ReleaseQuorumPasses(id)
    BY <2>1, <2>3 DEF ReleaseQuorumPasses, CanDeliver, CanPay, ExpirePasses, Expirable
  <2>4. CASE \E verifier \in Account, h \in Hash : ReleaseHashPasses(verifier, id, h)
    <3>1. agreements[id].state = "FUNDED" /\ now < agreements[id].deadline
      BY <2>4 DEF ReleaseHashPasses
    <3>2. agreements[id].seats > 0
      BY <2>2, <3>1 DEF Staged, Agreement
    <3>3. QED
      BY <2>1, <2>2, <3>1, <3>2 DEF ExpirePasses, Agreement
  <2>5. QED
    BY <2>3, <2>4 DEF ReleaseCanPass
<1>2. QED
  BY <1>1, Invariant, PTL

\* A product with a positive factor vanishes only with the other.
LEMMA PositiveFactor ==
  ASSUME NEW x \in Nat, NEW y \in Nat, x > 0, x * y = 0
  PROVE  y = 0
OBVIOUS

\* What close checks, two counters, is enough: no seat is owed.
LEMMA ClosableOwesNobody ==
  ASSUME IInv, NEW id \in Live, Closable(agreements[id])
  PROVE  agreements[id].state = "RELEASED" \/ Unpaid(id) = {}
<1> DEFINE a == agreements[id]
           owed == Owed(a, roster[id])
<1> SUFFICES ASSUME a.state # "RELEASED" PROVE Unpaid(id) = {}
  OBVIOUS
<1>1. a \in Agreement /\ Sound(a, roster[id])
  BY BoxOf
<1>2. IsFiniteSet(owed) /\ Cardinality(owed) \in Nat
  BY <1>1, OwedFinite
<1>3. a.share_price \in Nat /\ a.share_price > 0
  BY <1>1 DEF Agreement, Sound, Staged
<1>4. a.share_price * Cardinality(owed) = 0
  BY <1>1 DEF Closable, Sound, HeldExact
<1>5. Cardinality(owed) = 0
  BY <1>2, <1>3, <1>4, PositiveFactor
<1>6. owed = {}
  BY <1>2, <1>5, FS_EmptySet
<1>7. QED
  BY <1>6 DEF Owed, Unpaid, Occupied

\* Only close deletes boxes.
LEMMA OnlyCloseDeletes ==
  ASSUME IInv, [Next]_vars, NEW id \in Live, id \notin DOMAIN agreements'
  PROVE  Close(id)
<1>1. CASE Administer
  BY <1>1 DEF Administer, OptInAsset, SetAdmin, SetPaused, CreateAgreement,
              WithBox, boxVars, Live
<1>2. ASSUME NEW i \in Live, Call(i) PROVE Close(id)
  <2>1. CASE Close(i)
    BY <2>1 DEF Close, WithoutBox, Live
  <2>2. CASE ~Close(i)
    <3>1. DOMAIN agreements' = Live
      BY <1>2, <2>2 DEF Call, Join, ReleaseHash, ReleaseQuorum, Release, Expire,
                        RefundNext, ClaimRefund, Live
    <3>2. QED
      BY <3>1
  <2>3. QED
    BY <2>1, <2>2
<1>3. CASE Environment
  BY <1>3 DEF Environment, Tick, LoseHolding, RegainHolding, RaiseMinFee,
              boxVars, Live
<1>4. CASE UNCHANGED vars
  BY <1>4 DEF vars, Live
<1>5. QED
  BY <1>1, <1>2, <1>3, <1>4 DEF Next

\* No roster with an unpaid seat is ever deleted, whatever calls came before.
THEOREM ClosedOwesNobodyAlways == Spec => ClosedOwesNobody
<1> DEFINE Step == \A id \in Live : id \notin DOMAIN agreements' =>
                     agreements[id].state = "RELEASED" \/ Unpaid(id) = {}
<1>1. IInv /\ [Next]_vars => [Step]_vars
  <2> SUFFICES ASSUME IInv, [Next]_vars,
                      NEW id \in Live, id \notin DOMAIN agreements'
               PROVE  agreements[id].state = "RELEASED" \/ Unpaid(id) = {}
    OBVIOUS
  <2>1. Closable(agreements[id])
    BY OnlyCloseDeletes DEF Close, ClosePasses
  <2>2. QED
    BY <2>1, ClosableOwesNobody
<1>2. QED
  BY <1>1, Invariant, PTL DEF Spec, ClosedOwesNobody

-----------------------------------------------------------------------------
(* Conservation: both balances of the application are sums over the live   *)
(* agreements, and each call changes one summand by what it moves.         *)

\* What the agreements hold, by id.
Held == [id \in Live |-> agreements[id].total_held]

\* Fees an agreement has spent, read off its record and its roster, and the
\* deposit it has left.
Spent(a, r) == IF a.state = "RELEASED" THEN 1 ELSE a.seats - Cardinality(Owed(a, r))

Remaining(a, r, fee) ==
  BoxMbr(a.max_seats) + (a.max_seats + 1) * fee - Spent(a, r) * fee

Deposited == [id \in Live |-> Remaining(agreements[id], roster[id], minFee)]

\* The invariant the balances need: a fee once raised is never the old one.
Balanced ==
  /\ minFee >= InitialFee
  /\ usdc[App] = SumFunction(Held)
  /\ minFee = InitialFee => algo = Funding + SumFunction(Deposited)

\* No more seats are owed than are taken, and the others are the rest.
LEMMA SettledCount ==
  ASSUME NEW a \in Agreement, NEW r
  PROVE  /\ Cardinality(Owed(a, r)) \in Nat /\ Cardinality(Owed(a, r)) <= a.seats
         /\ Cardinality((0..(a.seats - 1)) \ Owed(a, r)) = a.seats - Cardinality(Owed(a, r))
<1> DEFINE seats == 0..(a.seats - 1)
<1>1. a.seats \in Nat
  BY DEF Agreement
<1>2. IsFiniteSet(seats) /\ Cardinality(seats) = a.seats
  <2>1. Cardinality(seats) = a.seats
    BY <1>1, SeatsBelow
  <2>2. seats \in SUBSET (0..(a.seats - 1)) /\ 0 \in Nat
    OBVIOUS
  <2>3. IsFiniteSet(seats)
    BY <1>1, <2>2, SeatsFinite
  <2>4. QED
    BY <2>1, <2>3
<1>3. Owed(a, r) \subseteq seats /\ seats \cap Owed(a, r) = Owed(a, r)
  BY DEF Owed
<1>4. Cardinality(seats \ Owed(a, r)) = Cardinality(seats) - Cardinality(seats \cap Owed(a, r))
  BY <1>2, FS_Difference
<1>5. Cardinality(Owed(a, r)) <= Cardinality(seats)
  BY <1>2, <1>3, FS_Subset
<1>6. Cardinality(Owed(a, r)) \in Nat
  BY OwedFinite
<1>7. QED
  BY <1>2, <1>3, <1>4, <1>5, <1>6

\* What is left of a deposit is an integer, and its parts are numbers.
LEMMA RemainingType ==
  ASSUME NEW a \in Agreement, NEW r, NEW fee \in Nat
  PROVE  /\ Spent(a, r) \in Nat /\ BoxMbr(a.max_seats) \in Nat
         /\ Spent(a, r) * fee \in Nat /\ (a.max_seats + 1) * fee \in Nat
         /\ Remaining(a, r, fee) \in Int
<1>1. a.seats \in Nat /\ a.max_seats \in Nat
  BY DEF Agreement
<1>2. Spent(a, r) \in Nat
  <2>1. Cardinality(Owed(a, r)) \in Nat /\ Cardinality(Owed(a, r)) <= a.seats
    BY SettledCount
  <2>2. QED
    BY <1>1, <2>1 DEF Spent
<1>3. BoxMbr(a.max_seats) \in Nat
  BY <1>1, NumberAssumption, ProductIsNat DEF BoxMbr
<1>4. Spent(a, r) * fee \in Nat /\ (a.max_seats + 1) * fee \in Nat
  BY <1>1, <1>2, ProductIsNat
<1>5. QED
  BY <1>2, <1>3, <1>4 DEF Remaining

\* The balances as Conserved reads them.
LEMMA BalancedConserves ==
  ASSUME IInv, Balanced
  PROVE  Conserved
<1>1. ASSUME NEW id \in Live
      PROVE  RemainingDeposit(id) = Remaining(agreements[id], roster[id], minFee)
  <2> DEFINE a == agreements[id]
             r == roster[id]
  <2>1. Cardinality((0..(a.seats - 1)) \ Owed(a, r)) = a.seats - Cardinality(Owed(a, r))
    BY BoxOf, SettledCount
  <2>2. Occupied(id) \ Unpaid(id) = (0..(a.seats - 1)) \ Owed(a, r)
    BY DEF Occupied, Unpaid, Owed
  <2>3. QED
    BY <2>1, <2>2 DEF RemainingDeposit, Remaining, Spent, FeeReserve
<1>2. [id \in Live |-> RemainingDeposit(id)] = Deposited
  BY <1>1 DEF Deposited
<1>3. QED
  BY <1>2 DEF Balanced, Conserved, UsdcConserved, AlgoConserved, Held

\* The agreements are finitely many.
LEMMA LiveFinite ==
  ASSUME TypeOK
  PROVE  IsFiniteSet(Live)
<1>1. Live \subseteq 1..agreement_count /\ agreement_count \in Int /\ 1 \in Int
  BY DEF TypeOK
<1>2. IsFiniteSet(1..agreement_count)
  BY <1>1, FS_Interval
<1>3. QED
  BY <1>1, <1>2, FS_Subset

\* The numbers the balances are compared with.
LEMMA BalanceTypes ==
  ASSUME IInv
  PROVE  /\ IsFiniteSet(Live) /\ minFee \in Nat /\ InitialFee \in Nat /\ algo \in Int
         /\ usdc[App] \in Nat
<1>1. IsFiniteSet(Live)
  BY LiveFinite DEF IInv
<1>2. minFee \in Nat /\ InitialFee \in Nat
  BY NumberAssumption DEF IInv, TypeOK
<1>3. algo \in Int /\ usdc[App] \in Nat
  BY DEF IInv, TypeOK
<1>4. QED
  BY <1>1, <1>2, <1>3

\* The deposit left after so many more fees.
LEMMA FeesSpent ==
  ASSUME NEW a \in Agreement, NEW r, NEW b \in Agreement, NEW q,
         NEW fee \in Nat, NEW fees \in Nat,
         b.max_seats = a.max_seats, Spent(b, q) = Spent(a, r) + fees
  PROVE  Remaining(b, q, fee) = Remaining(a, r, fee) - fees * fee
<1>1. /\ Spent(a, r) \in Nat /\ BoxMbr(a.max_seats) \in Nat
      /\ Spent(a, r) * fee \in Nat /\ (a.max_seats + 1) * fee \in Nat
  BY RemainingType
<1>2. (Spent(a, r) + fees) * fee = Spent(a, r) * fee + fees * fee
  <2> DEFINE n == Spent(a, r)
  <2> HIDE DEF n
  <2>1. n \in Nat
    BY <1>1 DEF n
  <2>2. QED
    BY <2>1 DEF n
<1>3. fees * fee \in Nat
  BY ProductIsNat
<1>4. QED
  BY <1>1, <1>2, <1>3 DEF Remaining

\* A call that writes one agreement keeps the balances if it moves as much as
\* the record says: USDC by what is held, ALGO by the fees it spends.
LEMMA WritesBalanced ==
  ASSUME IInv, Balanced, NEW id, NEW a \in Agreement, NEW r, Writes(id, a, r),
         a.max_seats = agreements[id].max_seats, minFee' = minFee,
         NEW fees \in Nat, Spent(a, r) = Spent(agreements[id], roster[id]) + fees,
         usdc'[App] = usdc[App] + a.total_held - agreements[id].total_held,
         algo' = algo - fees * minFee
  PROVE  Balanced'
<1>1. /\ Live' = Live /\ id \in Live /\ agreements'[id] = a /\ roster'[id] = r
      /\ \A i \in Live : i # id => agreements'[i] = agreements[i] /\ roster'[i] = roster[i]
  BY DEF Writes, IInv, TypeOK, Live
<1>2. IsFiniteSet(Live) /\ minFee \in Nat /\ InitialFee \in Nat /\ algo \in Int
      /\ usdc[App] \in Int
  BY BalanceTypes
<1>3. \A i \in Live : agreements[i] \in Agreement /\ agreements'[i] \in Agreement
  BY <1>1, BoxOf
<1>4. usdc'[App] = SumFunction(Held')
  <2>1. Held' = [i \in Live |-> agreements'[i].total_held]
    BY <1>1 DEF Held
  <2>2. \A i \in Live : /\ Held[i] \in Int /\ Held'[i] \in Int
                        /\ i # id => Held'[i] = Held[i]
    BY <1>1, <1>3, <2>1 DEF Held, Agreement
  <2>3. SumFunction(Held') = SumFunction(Held) + Held'[id] - Held[id]
    <3>1. DOMAIN Held = Live /\ DOMAIN Held' = Live
      BY <2>1 DEF Held
    <3>2. QED
      BY <1>1, <1>2, <2>2, <3>1, SumChanged
  <2>4. QED
    BY <1>1, <2>1, <2>3 DEF Held, Balanced
<1>5. minFee' = InitialFee => algo' = Funding + SumFunction(Deposited')
  <2>1. Deposited' = [i \in Live |-> Remaining(agreements'[i], roster'[i], minFee)]
    BY <1>1 DEF Deposited
  <2>2. \A i \in Live : /\ Deposited[i] \in Int /\ Deposited'[i] \in Int
                        /\ i # id => Deposited'[i] = Deposited[i]
    BY <1>1, <1>2, <1>3, <2>1, RemainingType DEF Deposited
  <2>3. SumFunction(Deposited') = SumFunction(Deposited) + Deposited'[id] - Deposited[id]
    <3>1. DOMAIN Deposited = Live /\ DOMAIN Deposited' = Live
      BY <2>1 DEF Deposited
    <3>2. QED
      BY <1>1, <1>2, <2>2, <3>1, SumChanged
  <2>4. Deposited'[id] = Deposited[id] - fees * minFee
    BY <1>1, <1>2, <1>3, <2>1, FeesSpent DEF Deposited
  <2>5. SumFunction(Deposited) \in Int /\ fees * minFee \in Int /\ Deposited[id] \in Int
    <3>1. DOMAIN Deposited = Live
      BY DEF Deposited
    <3>2. SumFunction(Deposited) \in Int
      BY <1>2, <2>2, <3>1, SumIsInt DEF SumFunction
    <3>3. QED
      BY <1>1, <1>2, <2>2, <3>2, ProductIsNat
  <2>6. minFee = InitialFee => algo = Funding + SumFunction(Deposited)
    BY DEF Balanced
  <2> DEFINE s == SumFunction(Deposited)
             t == SumFunction(Deposited')
             d == Deposited[id]
             e == Deposited'[id]
             f == fees * minFee
  <2> HIDE DEF s, t, d, e, f
  <2>7. t = s + e - d /\ e = d - f /\ s \in Int /\ f \in Int /\ d \in Int
        /\ (minFee = InitialFee => algo = Funding + s) /\ algo' = algo - f
    BY <2>3, <2>4, <2>5, <2>6 DEF s, t, d, e, f
  <2>8. minFee' = InitialFee => algo' = Funding + t
    BY <1>2, <2>7, NumberAssumption
  <2>9. QED
    BY <2>8 DEF t
<1>6. QED
  BY <1>4, <1>5 DEF Balanced

\* create_agreement: a new summand, of which nothing is held and the whole
\* deposit is left.
LEMMA BalancedCreate ==
  ASSUME IInv, Balanced, NEW caller \in Account, NEW o \in OfferType, NEW deposit,
         CreateAgreement(caller, o, deposit)
  PROVE  Balanced'
<1> DEFINE id == agreement_count + 1
           new == NewAgreement(o, caller)
           seats == EmptyRoster(o.max_seats)
<1>1. /\ agreements' = WithBox(agreements, id, new)
      /\ roster' = WithBox(roster, id, seats)
      /\ algo' = algo + RequiredDeposit(o.max_seats)
      /\ UNCHANGED <<minFee, usdc>> /\ ValidOffer(o)
  BY DEF CreateAgreement, CreatePasses, ledgerVars
<1>2. new \in Agreement
  BY <1>1 DEF ValidOffer, NewAgreement, OfferType, Agreement, States
<1>3. /\ new.max_seats = o.max_seats /\ new.seats = 0 /\ new.total_held = 0
      /\ new.state = "OPEN"
  BY DEF NewAgreement
<1>4. id \notin Live
  BY DEF IInv, TypeOK
<1> HIDE DEF id, new, seats
<1>5. /\ Live' = Live \cup {id} /\ agreements'[id] = new /\ roster'[id] = seats
      /\ \A i \in Live : agreements'[i] = agreements[i] /\ roster'[i] = roster[i]
  <2>1. Live' = Live \cup {id} /\ DOMAIN roster = Live
    BY <1>1 DEF WithBox, Live, IInv, TypeOK
  <2>2. QED
    BY <1>1, <1>4, <2>1 DEF WithBox, Live
<1>6. IsFiniteSet(Live) /\ minFee \in Nat /\ InitialFee \in Nat /\ algo \in Int
      /\ usdc[App] \in Int
  BY BalanceTypes
<1>7. \A i \in Live : agreements[i] \in Agreement
  BY BoxOf
<1>8. SumFunction(Held') = SumFunction(Held)
  <2>1. Held' = [i \in Live \cup {id} |-> agreements'[i].total_held]
    BY <1>5 DEF Held
  <2>2. DOMAIN Held = Live /\ DOMAIN Held' = Live \cup {id} /\ Held'[id] = 0
    BY <1>3, <1>5, <2>1 DEF Held
  <2>3. \A i \in Live : Held[i] \in Int /\ Held'[i] = Held[i]
    BY <1>5, <1>7, <2>1 DEF Held, Agreement
  <2>4. SumFunction(Held') = SumFunction(Held) + Held'[id]
    BY <1>4, <1>6, <2>2, <2>3, SumAdded
  <2>5. SumFunction(Held) \in Int
    BY <1>6, <2>2, <2>3, SumIsInt DEF SumFunction
  <2>6. QED
    BY <2>2, <2>4, <2>5
<1>9. /\ SumFunction(Deposited') = SumFunction(Deposited) + RequiredDeposit(o.max_seats)
      /\ SumFunction(Deposited) \in Int /\ RequiredDeposit(o.max_seats) \in Int
  <2>1. Deposited' = [i \in Live \cup {id} |-> Remaining(agreements'[i], roster'[i], minFee)]
    BY <1>1, <1>5 DEF Deposited
  <2>2. Spent(new, seats) = 0
    <3>1. Owed(new, seats) = {}
      BY <1>3 DEF Owed
    <3>2. QED
      BY <1>3, <3>1, FS_EmptySet DEF Spent
  <2>3. /\ Remaining(new, seats, minFee) = RequiredDeposit(o.max_seats)
        /\ Remaining(new, seats, minFee) \in Int
    <3>1. /\ BoxMbr(new.max_seats) \in Nat /\ (new.max_seats + 1) * minFee \in Nat
          /\ Remaining(new, seats, minFee) \in Int
      BY <1>2, <1>6, RemainingType
    <3>2. QED
      BY <1>3, <1>6, <2>2, <3>1 DEF Remaining, RequiredDeposit, FeeReserve
  <2>4. /\ DOMAIN Deposited = Live /\ DOMAIN Deposited' = Live \cup {id}
        /\ Deposited'[id] = RequiredDeposit(o.max_seats)
    BY <1>5, <2>1, <2>3 DEF Deposited
  <2>5. \A i \in Live : Deposited[i] \in Int /\ Deposited'[i] = Deposited[i]
    BY <1>5, <1>6, <1>7, <2>1, RemainingType DEF Deposited
  <2>6. SumFunction(Deposited') = SumFunction(Deposited) + Deposited'[id]
    BY <1>4, <1>6, <2>3, <2>4, <2>5, SumAdded
  <2>7. SumFunction(Deposited) \in Int
    BY <1>6, <2>4, <2>5, SumIsInt DEF SumFunction
  <2>8. QED
    BY <2>3, <2>4, <2>6, <2>7
<1> DEFINE s == SumFunction(Deposited)
           t == SumFunction(Deposited')
           d == RequiredDeposit(o.max_seats)
<1> HIDE DEF s, t, d
<1>10. minFee' = InitialFee => algo' = Funding + t
  <2>1. t = s + d /\ s \in Int /\ d \in Int /\ algo' = algo + d /\ minFee' = minFee
    BY <1>1, <1>9 DEF s, t, d
  <2>2. minFee = InitialFee => algo = Funding + s
    BY DEF Balanced, s
  <2>3. QED
    BY <2>1, <2>2, NumberAssumption
<1>11. minFee' >= InitialFee /\ usdc'[App] = SumFunction(Held')
  BY <1>1, <1>8 DEF Balanced
<1>12. QED
  BY <1>10, <1>11 DEF Balanced, t

\* join: the payer's transfer is held, and no fee is spent.
LEMMA BalancedJoin ==
  ASSUME IInv, Balanced, NEW id \in Live, NEW caller \in Payers, NEW p \in PaymentType,
         Join(caller, id, p)
  PROVE  Balanced'
<1> DEFINE a == agreements[id]
           b == Seated(a, a.share_price)
           r == [roster[id] EXCEPT ![a.seats] =
                   [payer |-> caller, amount |-> a.share_price]]
<1>1. a \in Agreement /\ roster[id] \in [0..(a.max_seats - 1) -> Seat]
      /\ Sound(a, roster[id])
  BY BoxOf
<1>2. /\ p.amount = a.share_price /\ p.asset = "usdc" /\ p.receiver = App
      /\ p.sender = caller /\ a.state = "OPEN" /\ a.seats < a.max_seats
      /\ \A s \in 0..(a.seats - 1) : roster[id][s].payer # caller
  BY DEF Join, JoinPasses, Settles, AlreadyJoined, Occupied
<1>3. Writes(id, b, r)
  BY <1>2 DEF Join, Writes, IInv, TypeOK, Live
<1>4. /\ b \in Agreement /\ b.max_seats = a.max_seats
      /\ b.total_held = a.total_held + a.share_price
      /\ b.state \in {"OPEN", "FUNDED", "FILLED"}
  <2> DEFINE full == IF a.condition = "quorum" THEN "FILLED" ELSE "FUNDED"
             state == IF a.seats + 1 >= a.min_seats THEN full ELSE a.state
  <2>1. state \in {"OPEN", "FUNDED", "FILLED"}
    BY <1>2
  <2>2. a.seats + 1 \in Nat /\ a.total_held + a.share_price \in Nat
    BY <1>1 DEF Agreement
  <2>3. b = [a EXCEPT !.seats = a.seats + 1,
                      !.total_held = a.total_held + a.share_price, !.state = state]
    BY DEF Seated
  <2> HIDE DEF state, b
  <2>4. QED
    BY <1>1, <2>1, <2>2, <2>3 DEF Agreement, States
<1>5. Spent(b, r) = Spent(a, roster[id]) + 0
  <2>1. Sound(b, r)
    BY <1>1, <1>2, AccountAssumption, SoundJoin
  <2>2. Owed(b, r) = 0..(b.seats - 1) /\ Owed(a, roster[id]) = 0..(a.seats - 1)
    BY <1>1, <1>2, <1>4, <2>1, AllOwed
  <2>3. a.seats \in Nat /\ b.seats \in Nat
    BY <1>1, <1>4 DEF Agreement
  <2>4. /\ Cardinality(Owed(b, r)) = b.seats
        /\ Cardinality(Owed(a, roster[id])) = a.seats
    BY <2>2, <2>3, SeatsBelow
  <2>5. QED
    BY <1>2, <1>4, <2>3, <2>4 DEF Spent
<1>6. usdc'[App] = usdc[App] + b.total_held - a.total_held
  <2>1. caller # App /\ caller \in Account /\ usdc \in [Account \cup {App} -> Nat]
    BY AccountAssumption DEF IInv, TypeOK
  <2>2. usdc' = [usdc EXCEPT ![caller] = @ - a.share_price, ![App] = @ + a.share_price]
    BY <1>2 DEF Join, Transferred
  <2>3. a.share_price \in Nat /\ a.total_held \in Nat
    BY <1>1 DEF Agreement
  <2>4. usdc'[App] = usdc[App] + a.share_price /\ usdc[App] \in Nat
    BY <2>1, <2>2
  <2>5. QED
    BY <1>4, <2>3, <2>4
<1>7. algo' = algo - 0 * minFee /\ minFee' = minFee
  <2>1. minFee \in Nat /\ algo \in Int
    BY NumberAssumption DEF IInv, TypeOK
  <2>2. QED
    BY <2>1 DEF Join, ledgerVars
<1> HIDE DEF b, r
<1>8. QED
  BY <1>3, <1>4, <1>5, <1>6, <1>7, WritesBalanced

\* Both releases: all that is held goes, and one fee.
LEMMA BalancedRelease ==
  ASSUME IInv, Balanced, NEW id \in Live, Release(id),
         agreements[id].state \in {"FUNDED", "FILLED"}
  PROVE  Balanced'
<1> DEFINE a == agreements[id]
           b == [a EXCEPT !.total_held = 0, !.state = "RELEASED"]
<1>1. a \in Agreement /\ Sound(a, roster[id])
  BY BoxOf
<1>2. Writes(id, b, roster[id])
  BY DEF Release, Writes, IInv, TypeOK
<1>3. /\ b \in Agreement /\ b.max_seats = a.max_seats
      /\ b.total_held = 0 /\ b.state = "RELEASED"
  BY <1>1 DEF Agreement, States
<1>4. Spent(b, roster[id]) = Spent(a, roster[id]) + 1
  <2>1. Owed(a, roster[id]) = 0..(a.seats - 1)
    BY <1>1, AllOwed
  <2>2. a.seats \in Nat
    BY <1>1 DEF Agreement
  <2>3. Cardinality(Owed(a, roster[id])) = a.seats
    BY <2>1, <2>2, SeatsBelow
  <2>4. QED
    BY <1>3, <2>2, <2>3 DEF Spent
<1>5. usdc'[App] = usdc[App] + b.total_held - a.total_held
  BY <1>1, <1>3 DEF Release, PaidOut, Agreement, IInv, TypeOK
<1>6. algo' = algo - 1 * minFee /\ minFee' = minFee
  BY NumberAssumption DEF Release, ledgerVars, IInv, TypeOK
<1> HIDE DEF b
<1>7. QED
  BY <1>2, <1>3, <1>4, <1>5, <1>6, WritesBalanced

\* expire moves nothing.
LEMMA BalancedExpire ==
  ASSUME IInv, Balanced, NEW id \in Live, NEW caller, Expire(caller, id)
  PROVE  Balanced'
<1> DEFINE a == agreements[id]
           b == [a EXCEPT !.state = "EXPIRED"]
<1>1. a \in Agreement /\ a.state # "RELEASED"
  BY BoxOf DEF Expire, ExpirePasses, Expirable
<1>2. Writes(id, b, roster[id])
  BY DEF Expire, Writes, IInv, TypeOK
<1>3. /\ b \in Agreement /\ b.max_seats = a.max_seats /\ b.seats = a.seats
      /\ b.total_held = a.total_held /\ b.state = "EXPIRED"
  BY <1>1 DEF Agreement, States
<1>4. Spent(b, roster[id]) = Spent(a, roster[id]) + 0
  <2>1. Owed(b, roster[id]) = Owed(a, roster[id])
    BY <1>3 DEF Owed
  <2>2. Spent(a, roster[id]) \in Nat
    BY <1>1, NumberAssumption, RemainingType
  <2>3. QED
    BY <1>1, <1>3, <2>1, <2>2 DEF Spent
<1>5. usdc'[App] = usdc[App] + b.total_held - a.total_held
  BY <1>1, <1>3 DEF Expire, Agreement, IInv, TypeOK
<1>6. algo' = algo - 0 * minFee /\ minFee' = minFee
  BY NumberAssumption DEF Expire, ledgerVars, IInv, TypeOK
<1> HIDE DEF b
<1>7. QED
  BY <1>2, <1>3, <1>4, <1>5, <1>6, WritesBalanced

\* The seats a refund pays were owed.
LEMMA PayableOwed ==
  ASSUME IInv, NEW id \in Live, NEW count \in Nat, NEW last,
         last = WindowEnd(agreements[id], count)
  PROVE  Payable(id, last) \in SUBSET Owed(agreements[id], roster[id])
<1> DEFINE a == agreements[id]
<1>1. a.refund_cursor \in Nat /\ a.seats \in Nat
  BY BoxOf DEF Agreement
<1>2. last <= a.seats /\ last \in Nat
  BY WindowTypes DEF IInv
<1> HIDE DEF a
<1>3. \A s \in a.refund_cursor..(last - 1) : s \in 0..(a.seats - 1)
  BY <1>1, <1>2
<1>4. QED
  BY <1>3 DEF Payable, Owed, a

\* Once so many owed seats are zeroed, that many more fees are spent.
LEMMA SpentZeroed ==
  ASSUME NEW a \in Agreement, NEW r \in [0..(a.max_seats - 1) -> Seat], Staged(a),
         NEW b, b.seats = a.seats, a.state # "RELEASED", b.state # "RELEASED",
         NEW S \in SUBSET Owed(a, r)
  PROVE  /\ Cardinality(S) \in Nat
         /\ Spent(b, Zeroed(r, S)) = Spent(a, r) + Cardinality(S)
<1> DEFINE q == Zeroed(r, S)
<1>1. Owed(b, q) = Owed(a, q) /\ Owed(a, q) = Owed(a, r) \ S
  <2>1. Owed(a, q) = Owed(a, r) \ S
    BY ZeroedOwed
  <2> HIDE DEF q
  <2>2. Owed(b, q) = Owed(a, q)
    BY DEF Owed
  <2>3. QED
    BY <2>1, <2>2
<1>2. Cardinality(Owed(a, r) \ S) = Cardinality(Owed(a, r)) - Cardinality(S)
  BY OwedLess
<1>3. Cardinality(Owed(a, r)) \in Nat /\ Cardinality(S) \in Nat /\ a.seats \in Nat
  BY OwedFinite DEF Agreement
<1> HIDE DEF q
<1>4. Spent(b, q) = a.seats - (Cardinality(Owed(a, r)) - Cardinality(S))
  BY <1>1, <1>2 DEF Spent
<1>5. QED
  BY <1>3, <1>4 DEF Spent, q

\* refund_next: each share paid is held no more and costs one fee.
LEMMA BalancedRefundNext ==
  ASSUME IInv, Balanced, NEW id \in Live, NEW count \in Nat, RefundNext(id, count)
  PROVE  Balanced'
<1> DEFINE a == agreements[id]
           r == roster[id]
           last == WindowEnd(a, count)
           paid == Payable(id, last)
           skipped == Skipped(id, last)
           sum == Worth(id, paid)
           new == [a EXCEPT !.refund_cursor = last,
                     !.total_held = a.total_held - sum,
                     !.unclaimed_seats = a.unclaimed_seats + Cardinality(skipped),
                     !.state = IF last >= a.seats THEN "REFUNDED" ELSE "REFUNDING"]
           q == Zeroed(r, paid)
<1>1. a \in Agreement /\ r \in [0..(a.max_seats - 1) -> Seat] /\ Sound(a, r)
  BY BoxOf
<1>2. Writes(id, new, q)
  BY DEF RefundNext, Writes, IInv, TypeOK, ZeroAmounts, Zeroed
<1>3. new \in Agreement
  <2>1. TypeOK'
    BY TypeRefundNext DEF IInv
  <2>2. agreements'[id] = new /\ id \in Live'
    BY <1>2 DEF Writes, IInv, TypeOK, Live
  <2>3. QED
    BY <2>1, <2>2 DEF TypeOK
<1>4. /\ new.max_seats = a.max_seats /\ new.seats = a.seats
      /\ new.total_held = a.total_held - sum /\ new.state # "RELEASED"
      /\ a.state # "RELEASED"
  BY <1>1 DEF Agreement, RefundNext, RefundNextPasses
<1>5. sum \in Nat /\ a.total_held \in Nat
  BY <1>1, WindowTypes DEF IInv, Agreement
<1>6. usdc' = PaidOut(Shares(id, paid), sum) /\ algo' = algo - Cardinality(paid) * minFee
      /\ minFee' = minFee
  BY DEF RefundNext, ledgerVars
<1>7. paid \in SUBSET Owed(a, r)
  BY PayableOwed
<1> HIDE DEF last, skipped, new
<1>8. Cardinality(paid) \in Nat /\ Spent(new, q) = Spent(a, r) + Cardinality(paid)
  <2> HIDE DEF paid
  <2>1. Staged(a)
    BY <1>1 DEF Sound
  <2>2. QED
    BY <1>1, <1>4, <1>7, <2>1, SpentZeroed
<1>9. usdc'[App] = usdc[App] + new.total_held - a.total_held
  <2>1. usdc'[App] = usdc[App] - sum /\ usdc[App] \in Nat
    BY <1>6, BalanceTypes DEF PaidOut
  <2>2. QED
    BY <1>4, <1>5, <2>1
<1>10. QED
  BY <1>2, <1>3, <1>4, <1>6, <1>8, <1>9, WritesBalanced

\* claim_refund: one share, one fee.
LEMMA BalancedClaim ==
  ASSUME IInv, Balanced, NEW id \in Live, NEW seat \in Nat, ClaimRefund(id, seat)
  PROVE  Balanced'
<1> DEFINE a == agreements[id]
           r == roster[id]
           amount == r[seat].amount
           new == [a EXCEPT !.total_held = a.total_held - amount,
                            !.unclaimed_seats = a.unclaimed_seats - 1]
           q == Zeroed(r, {seat})
<1>1. a \in Agreement /\ r \in [0..(a.max_seats - 1) -> Seat] /\ Sound(a, r)
  BY BoxOf
<1>2. Writes(id, new, q)
  BY DEF ClaimRefund, Writes, IInv, TypeOK, ZeroAmounts, Zeroed
<1>3. new \in Agreement
  <2>1. TypeOK'
    BY TypeClaimRefund DEF IInv
  <2>2. agreements'[id] = new /\ id \in Live'
    BY <1>2 DEF Writes, IInv, TypeOK, Live
  <2>3. QED
    BY <2>1, <2>2 DEF TypeOK
<1>4. /\ new.max_seats = a.max_seats /\ new.seats = a.seats
      /\ new.total_held = a.total_held - amount /\ new.state = a.state
      /\ a.state # "RELEASED" /\ seat \in Owed(a, r)
  BY <1>1 DEF Agreement, ClaimRefund, ClaimRefundPasses, Claimable, Owed
<1>5. amount \in Nat /\ a.total_held \in Nat
  <2>1. seat \in DOMAIN r
    BY DEF ClaimRefund, ClaimRefundPasses
  <2>2. QED
    BY <1>1, <2>1 DEF Agreement, Seat
<1>6. usdc'[App] = usdc[App] - amount /\ algo' = algo - minFee /\ minFee' = minFee
  BY DEF ClaimRefund, PaidOut, ledgerVars
<1> HIDE DEF new
<1>7. Spent(new, q) = Spent(a, r) + 1
  <2>1. Staged(a) /\ {seat} \in SUBSET Owed(a, r) /\ Cardinality({seat}) = 1
    BY <1>1, <1>4, FS_Singleton DEF Sound
  <2>2. QED
    BY <1>1, <1>4, <2>1, SpentZeroed
<1>8. usdc'[App] = usdc[App] + new.total_held - a.total_held /\ algo' = algo - 1 * minFee
  <2>1. usdc[App] \in Nat /\ minFee \in Nat
    BY BalanceTypes
  <2>2. QED
    BY <1>4, <1>5, <1>6, <2>1
<1>9. QED
  BY <1>2, <1>3, <1>4, <1>6, <1>7, <1>8, WritesBalanced

\* What close pays out, its own fee included, is all the deposit that is left.
LEMMA CloseReturnsRemaining ==
  ASSUME IInv, NEW id \in Live, Closable(agreements[id])
  PROVE  CloseReturn(agreements[id]) + minFee
           = Remaining(agreements[id], roster[id], minFee)
<1> DEFINE a == agreements[id]
           r == roster[id]
           used == InnerUsed(a)
<1>1. a \in Agreement /\ Sound(a, r)
  BY BoxOf
<1>2. a.seats \in Nat /\ a.max_seats \in Nat /\ minFee \in Nat
  BY <1>1, BalanceTypes DEF Agreement
<1>3. Spent(a, r) = used
  <2>1. CASE a.state = "RELEASED"
    BY <2>1 DEF Spent, InnerUsed
  <2>2. CASE a.state # "RELEASED"
    <3>1. Owed(a, r) = {}
      BY <2>2, ClosableOwesNobody DEF Unpaid, Occupied, Owed
    <3>2. QED
      BY <1>2, <2>2, <3>1, FS_EmptySet DEF Spent, InnerUsed
  <2>3. QED
    BY <2>1, <2>2
<1>4. used \in Nat /\ used <= a.max_seats
  BY <1>1, <1>2 DEF InnerUsed, Sound, Staged
<1>5. BoxMbr(a.max_seats) \in Nat
  BY <1>1, <1>2, RemainingType
<1> DEFINE m == a.max_seats
           f == minFee
<1>6. /\ (used + 1) * f = used * f + f /\ used * f \in Nat
      /\ (m + 1) * f = (used + 1) * f + (m - used) * f
      /\ (m - used) * f \in Nat /\ (m + 1) * f \in Nat
  <2> HIDE DEF used, m, f
  <2>1. used \in Nat /\ m \in Nat /\ f \in Nat /\ m - used \in Nat
    BY <1>2, <1>4 DEF m, f
  <2>2. (used + 1) * f = used * f + f
    BY <2>1
  <2>3. (m + 1) * f = (used + 1) * f + (m - used) * f
    BY <2>1
  <2>4. QED
    BY <2>1, <2>2, <2>3, ProductIsNat
<1>7. CloseReturn(a) = BoxMbr(m) + (m - used) * f
  <2> DEFINE spent == (used + 1) * f
             reserve == (m + 1) * f
             rest == (m - used) * f
  <2>1. CloseReturn(a) = BoxMbr(m) + (IF reserve > spent THEN reserve - spent ELSE 0)
    BY DEF CloseReturn, FeeReserve
  <2>2. reserve = spent + rest /\ rest \in Nat /\ spent \in Nat
    BY <1>2, <1>6
  <2> HIDE DEF spent, reserve, rest
  <2>3. (IF reserve > spent THEN reserve - spent ELSE 0) = rest
    BY <2>2
  <2>4. QED
    BY <2>1, <2>3 DEF rest
<1>8. Remaining(a, r, minFee) = BoxMbr(m) + (m + 1) * f - used * f
  BY <1>3 DEF Remaining
<1>9. QED
  <2> DEFINE x == used * f
             y == (m - used) * f
             z == (m + 1) * f
             u == (used + 1) * f
             v == BoxMbr(m)
  <2>1. u = x + f /\ z = u + y /\ x \in Nat /\ y \in Nat /\ v \in Nat /\ f \in Nat
    BY <1>2, <1>5, <1>6
  <2>2. CloseReturn(a) = v + y /\ Remaining(a, r, minFee) = v + z - x
    BY <1>7, <1>8
  <2> HIDE DEF x, y, z, u, v
  <2>3. v + y + f = v + z - x
    BY <2>1
  <2>4. QED
    BY <2>2, <2>3 DEF f

\* close: a summand goes, of which nothing is held, and its deposit with it.
LEMMA BalancedClose ==
  ASSUME IInv, Balanced, NEW id \in Live, Close(id)
  PROVE  Balanced'
<1>1. /\ Live' = Live \ {id} /\ UNCHANGED <<minFee, usdc>>
      /\ \A i \in Live \ {id} :
           agreements'[i] = agreements[i] /\ roster'[i] = roster[i]
  BY DEF Close, WithoutBox, ledgerVars, IInv, TypeOK, Live
<1>2. Closable(agreements[id]) /\ algo' = algo - CloseReturn(agreements[id]) - minFee
  BY DEF Close, ClosePasses
<1>3. /\ IsFiniteSet(Live) /\ minFee \in Nat /\ InitialFee \in Nat /\ algo \in Int
      /\ usdc[App] \in Nat
  BY BalanceTypes
<1>4. \A i \in Live : agreements[i] \in Agreement
  BY BoxOf
<1>5. SumFunction(Held') = SumFunction(Held)
  <2>1. Held' = [i \in Live \ {id} |-> agreements[i].total_held]
    BY <1>1 DEF Held
  <2>2. DOMAIN Held = Live /\ DOMAIN Held' = Live \ {id} /\ Held[id] = 0
    BY <1>2, <2>1 DEF Held, Closable
  <2>3. \A i \in Live : Held[i] \in Int /\ (i # id => Held'[i] = Held[i])
    BY <1>4, <2>1 DEF Held, Agreement
  <2>4. SumFunction(Held') = SumFunction(Held) - Held[id]
    BY <1>3, <2>2, <2>3, SumRemoved
  <2>5. SumFunction(Held) \in Int
    BY <1>3, <2>2, <2>3, SumIsInt DEF SumFunction
  <2>6. QED
    BY <2>2, <2>4, <2>5
<1> DEFINE s == SumFunction(Deposited)
           t == SumFunction(Deposited')
           d == Deposited[id]
           c == CloseReturn(agreements[id])
<1>6. t = s - d /\ s \in Int /\ d \in Int
  <2>1. Deposited' = [i \in Live \ {id} |-> Remaining(agreements[i], roster[i], minFee)]
    BY <1>1 DEF Deposited
  <2>2. DOMAIN Deposited = Live /\ DOMAIN Deposited' = Live \ {id}
    BY <2>1 DEF Deposited
  <2>3. \A i \in Live : Deposited[i] \in Int /\ (i # id => Deposited'[i] = Deposited[i])
    BY <1>3, <1>4, <2>1, RemainingType DEF Deposited
  <2>4. t = s - d
    BY <1>3, <2>2, <2>3, SumRemoved
  <2>5. s \in Int
    BY <1>3, <2>2, <2>3, SumIsInt DEF SumFunction
  <2>6. QED
    BY <2>3, <2>4, <2>5
<1>7. d = c + minFee /\ algo' = algo - c - minFee
  BY <1>2, CloseReturnsRemaining DEF Deposited
<1>8. c \in Int
  <2> DEFINE a == agreements[id]
  <2>1. a.max_seats \in Nat /\ InnerUsed(a) + 1 \in Nat
    BY <1>4 DEF Agreement, InnerUsed
  <2>2. (a.max_seats + 1) * minFee \in Nat /\ (InnerUsed(a) + 1) * minFee \in Nat
    BY <1>3, <2>1, ProductIsNat
  <2>3. BoxMbr(a.max_seats) \in Nat
    BY <1>3, <1>4, RemainingType
  <2>4. QED
    BY <2>2, <2>3 DEF CloseReturn, FeeReserve
<1>9. minFee = InitialFee => algo = Funding + s
  BY DEF Balanced
<1> HIDE DEF s, t, d, c
<1>10. minFee' = InitialFee => algo' = Funding + t
  BY <1>1, <1>3, <1>6, <1>7, <1>8, <1>9, NumberAssumption
<1>11. minFee' >= InitialFee /\ usdc'[App] = SumFunction(Held')
  BY <1>1, <1>5 DEF Balanced
<1>12. QED
  BY <1>10, <1>11 DEF Balanced, t

\* A step that writes no box and moves no money keeps the balances, whatever
\* happens to the fee as long as it does not fall.
LEMMA BalancedUnmoved ==
  ASSUME IInv, Balanced, UNCHANGED <<usdc, algo, agreements, roster>>,
         minFee' = minFee \/ (minFee' \in Nat /\ minFee' > minFee)
  PROVE  Balanced'
<1>1. Live' = Live /\ Held' = Held
  BY DEF Live, Held
<1>2. usdc'[App] = SumFunction(Held')
  BY <1>1 DEF Balanced
<1>3. CASE minFee' = minFee
  <2>1. Deposited' = Deposited
    BY <1>1, <1>3 DEF Deposited
  <2>2. QED
    BY <1>2, <1>3, <2>1 DEF Balanced
<1>4. CASE minFee' \in Nat /\ minFee' > minFee
  <2>1. minFee' >= InitialFee /\ minFee' # InitialFee
    BY <1>4, BalanceTypes DEF Balanced
  <2>2. QED
    BY <1>2, <2>1 DEF Balanced
<1>5. QED
  BY <1>3, <1>4

\* The balances add up in every reachable state.
LEMMA BalancedAlways == Spec => []Balanced
<1>1. Init => Balanced
  <2> SUFFICES ASSUME Init PROVE Balanced
    OBVIOUS
  <2>1. Live = {} /\ DOMAIN Held = {} /\ DOMAIN Deposited = {}
    BY DEF Init, Live, Held, Deposited
  <2>2. SumFunction(Held) = 0 /\ SumFunction(Deposited) = 0
    BY <2>1, SumOfNone DEF SumFunction
  <2>3. usdc[App] = 0 /\ algo = Funding /\ minFee = InitialFee
    BY DEF Init
  <2>4. QED
    BY <2>2, <2>3, NumberAssumption DEF Balanced
<1>2. IInv /\ Balanced /\ [Next]_vars => Balanced'
  <2> SUFFICES ASSUME IInv, Balanced, [Next]_vars PROVE Balanced'
    OBVIOUS
  <2>1. ASSUME Administer PROVE Balanced'
    <3>1. ASSUME NEW caller \in Account, NEW o \in Offers,
                 NEW deposit, CreateAgreement(caller, o, deposit)
          PROVE  Balanced'
      BY <3>1, BalancedCreate, InputAssumption
    <3>2. ASSUME UNCHANGED <<minFee, usdc, algo, boxVars>> PROVE Balanced'
      BY <3>2, BalancedUnmoved DEF boxVars
    <3>3. QED
      BY <2>1, <3>1, <3>2 DEF Administer, OptInAsset, SetAdmin, SetPaused, ledgerVars
  <2>2. ASSUME NEW id \in Live, Call(id) PROVE Balanced'
    <3>1. ASSUME NEW caller \in Payers, NEW p \in Payments, Join(caller, id, p)
          PROVE  Balanced'
      BY <3>1, BalancedJoin, InputAssumption
    <3>2. ASSUME NEW caller \in Account, NEW h \in Hash \cup {ZeroHash},
                 ReleaseHash(caller, id, h)
          PROVE  Balanced'
      BY <3>2, BalancedRelease DEF ReleaseHash, ReleaseHashPasses
    <3>3. CASE ReleaseQuorum(id)
      BY <3>3, BalancedRelease DEF ReleaseQuorum, ReleaseQuorumPasses
    <3>4. ASSUME NEW caller \in Account, Expire(caller, id) PROVE Balanced'
      BY <3>4, BalancedExpire
    <3>5. ASSUME NEW count \in 0..(BatchCeiling + 1), RefundNext(id, count)
          PROVE  Balanced'
      BY <3>5, BalancedRefundNext
    <3>6. ASSUME NEW seat \in 0..SeatsCeiling, ClaimRefund(id, seat)
          PROVE  Balanced'
      BY <3>6, BalancedClaim
    <3>7. CASE Close(id)
      BY <3>7, BalancedClose
    <3>8. QED
      BY <2>2, <3>1, <3>2, <3>3, <3>4, <3>5, <3>6, <3>7 DEF Call
  <2>3. ASSUME Environment PROVE Balanced'
    BY <2>3, BalancedUnmoved, NumberAssumption
       DEF Environment, Tick, LoseHolding, RegainHolding, RaiseMinFee, boxVars
  <2>4. CASE UNCHANGED vars
    BY <2>4, BalancedUnmoved DEF vars
  <2>5. QED
    BY <2>1, <2>2, <2>3, <2>4 DEF Next
<1>3. QED
  BY <1>1, <1>2, Invariant, PTL DEF Spec

\* Conservation, for any number of agreements of any prices and sizes: the
\* application's USDC is what their records say is held, and for as long as the
\* minimum fee stays what it was its ALGO is the deposits they have left.
THEOREM ConservedAlways == Spec => []Conserved
<1>1. IInv /\ Balanced => Conserved
  BY BalancedConserves
<1>2. QED
  BY <1>1, Invariant, BalancedAlways, PTL

-----------------------------------------------------------------------------
(* The exits: what every call needs of the application is there as long as *)
(* anything is held. The holding is open, since USDC has come in; the USDC *)
(* covers the share, since it covers all of them; and the ALGO covers the  *)
(* fee, since an agreement that still holds has not spent its last one.    *)

Receptive == usdc[App] > 0 => App \in canReceive

LEMMA ReceptiveStep ==
  ASSUME IInv, Receptive, [Next]_vars
  PROVE  Receptive'
<1>1. App \in canReceive => App \in canReceive'
  <2>1. CASE UNCHANGED canReceive
    BY <2>1
  <2>2. ASSUME NEW caller, OptInAsset(caller) PROVE App \in canReceive'
    BY <2>2 DEF OptInAsset
  <2>3. ASSUME NEW acct \in Fickle, LoseHolding(acct) \/ RegainHolding(acct)
        PROVE  App \in canReceive => App \in canReceive'
    BY <2>3, AccountAssumption DEF LoseHolding, RegainHolding
  <2>4. QED
    BY <2>1, <2>2, <2>3
       DEF Next, Administer, SetAdmin, SetPaused, CreateAgreement, Call, Join, ReleaseHash,
           ReleaseQuorum, Release, Expire, RefundNext, ClaimRefund, Close, Environment, Tick,
           RaiseMinFee, ledgerVars, vars
<1>2. App \in canReceive \/ usdc'[App] = usdc[App]
  <2> SUFFICES ASSUME App \notin canReceive PROVE usdc'[App] = usdc[App]
    OBVIOUS
  <2>1. CASE UNCHANGED usdc
    BY <2>1
  <2>2. ASSUME NEW id \in Live, Call(id) PROVE usdc'[App] = usdc[App]
    <3>1. ASSUME NEW caller \in Payers, NEW p \in Payments, Join(caller, id, p)
          PROVE  FALSE
      BY <3>1 DEF Join, JoinPasses, Transferable, Settles
    <3>2. ASSUME NEW count \in 0..(BatchCeiling + 1), RefundNext(id, count)
          PROVE  usdc'[App] = usdc[App]
      <4> DEFINE paid == Payable(id, WindowEnd(agreements[id], count))
      <4>1. paid = {} /\ usdc' = PaidOut(Shares(id, paid), Worth(id, paid))
        BY <3>2 DEF RefundNext, RefundNextPasses, CanPay
      <4> HIDE DEF paid
      <4>2. Worth(id, paid) = 0
        <5>1. agreements[id].share_price \in Nat /\ Cardinality(paid) = 0
          BY <4>1, FS_EmptySet, BoxOf DEF Agreement
        <5>2. QED
          BY <5>1 DEF Worth
      <4>3. QED
        BY <4>1, <4>2, BalanceTypes DEF PaidOut
    <3>3. ASSUME NEW caller \in Account, NEW h, ReleaseHash(caller, id, h) PROVE FALSE
      BY <3>3 DEF ReleaseHash, ReleaseHashPasses, CanDeliver, CanPay
    <3>4. ASSUME ReleaseQuorum(id) PROVE FALSE
      BY <3>4 DEF ReleaseQuorum, ReleaseQuorumPasses, CanDeliver, CanPay
    <3>5. ASSUME NEW seat, ClaimRefund(id, seat) PROVE FALSE
      BY <3>5 DEF ClaimRefund, ClaimRefundPasses, CanPay
    <3>6. (\E caller \in Account : Expire(caller, id)) \/ Close(id) => usdc' = usdc
      BY DEF Expire, Close
    <3>7. QED
      BY <2>2, <3>1, <3>2, <3>3, <3>4, <3>5, <3>6 DEF Call
  <2>3. QED
    BY <2>1, <2>2
       DEF Next, Administer, OptInAsset, SetAdmin, SetPaused, CreateAgreement, Environment,
           Tick, LoseHolding, RegainHolding, RaiseMinFee, vars
<1>3. QED
  BY <1>1, <1>2 DEF Receptive

LEMMA ReceptiveAlways == Spec => []Receptive
<1>1. Init => Receptive
  BY DEF Init, Receptive
<1>2. QED
  BY <1>1, ReceptiveStep, Invariant, PTL DEF Spec

\* As many seats are settled as are not owed, at most all of them.
LEMMA SpentWithin ==
  ASSUME NEW a \in Agreement, NEW r, Sound(a, r)
  PROVE  /\ Spent(a, r) \in Nat /\ a.max_seats \in Nat /\ Spent(a, r) <= a.max_seats
         /\ a.state # "RELEASED" => Spent(a, r) + Cardinality(Owed(a, r)) <= a.max_seats
<1>1. /\ a.max_seats \in Nat /\ a.seats \in Nat /\ a.seats <= a.max_seats /\ 0 < a.max_seats
  BY DEF Agreement, Sound, Staged
<1>2. Cardinality(Owed(a, r)) \in Nat /\ Cardinality(Owed(a, r)) <= a.seats
  BY SettledCount
<1>3. QED
  BY <1>1, <1>2 DEF Spent

\* What an agreement has left of its deposit covers what the ledger holds the
\* application to for its boxes, and a fee for each payment it may still make.
LEMMA DepositCovers ==
  ASSUME NEW a \in Agreement, NEW r, Sound(a, r), NEW fee \in Nat, NEW count \in Nat,
         Spent(a, r) + count <= a.max_seats + 1
  PROVE  BoxMbr(a.max_seats) + count * fee <= Remaining(a, r, fee)
<1> DEFINE m == a.max_seats
           n == Spent(a, r)
           k == m + 1 - n - count
<1>1. m \in Nat /\ n \in Nat /\ BoxMbr(m) \in Nat
  BY RemainingType DEF Agreement
<1>2. Remaining(a, r, fee) = BoxMbr(m) + (m + 1) * fee - n * fee
  BY DEF Remaining
<1> HIDE DEF m, n
<1>3. k \in Nat /\ m + 1 = n + (count + k) /\ count + k \in Nat
  BY <1>1 DEF m, n
<1> HIDE DEF k
<1>4. (n + (count + k)) * fee = n * fee + (count + k) * fee
  BY <1>1, <1>3
<1>5. (count + k) * fee = count * fee + k * fee
  BY <1>3
<1>6. n * fee \in Nat /\ count * fee \in Nat /\ k * fee \in Nat
  BY <1>1, <1>3, ProductIsNat
<1>7. QED
  <2> DEFINE x == n * fee
             y == count * fee
             w == k * fee
             z == (m + 1) * fee
             v == BoxMbr(m)
             u == Remaining(a, r, fee)
  <2>1. z = x + (y + w) /\ x \in Nat /\ y \in Nat /\ w \in Nat /\ v \in Nat /\ u = v + z - x
    BY <1>1, <1>2, <1>3, <1>4, <1>5, <1>6
  <2> HIDE DEF x, y, z, v, w, u
  <2>2. v + y <= u
    BY <2>1
  <2>3. QED
    BY <2>2 DEF v, y, u, m

\* The ALGO of the application beside one agreement's deposit covers the other
\* agreements' boxes.
LEMMA AlgoCovers ==
  ASSUME IInv, Balanced, minFee = InitialFee, NEW id \in Live
  PROVE  /\ MinBalance(agreements) \in Int
         /\ algo >= MinBalance(agreements)
                      + Remaining(agreements[id], roster[id], minFee)
                      - BoxMbr(agreements[id].max_seats)
<1> DEFINE boxes == [i \in Live |-> BoxMbr(agreements[i].max_seats)]
<1>1. IsFiniteSet(Live) /\ minFee \in Nat /\ algo \in Int /\ Funding \in Nat
  BY BalanceTypes, NumberAssumption
<1>2. \A i \in Live : agreements[i] \in Agreement /\ Sound(agreements[i], roster[i])
  BY BoxOf
<1>3. DOMAIN boxes = Live /\ DOMAIN Deposited = Live
  BY DEF Deposited
<1>4. \A i \in Live : /\ boxes[i] = BoxMbr(agreements[i].max_seats)
                      /\ Deposited[i] = Remaining(agreements[i], roster[i], minFee)
  BY DEF Deposited
<1>5. ASSUME NEW i \in Live
      PROVE  boxes[i] \in Nat /\ Deposited[i] \in Int /\ boxes[i] <= Deposited[i]
  <2> DEFINE a == agreements[i]
             r == roster[i]
  <2>1. a \in Agreement /\ Sound(a, r)
    BY <1>2
  <2> HIDE DEF a, r
  <2>2. Spent(a, r) + 0 <= a.max_seats + 1
    BY <2>1, SpentWithin
  <2>3. BoxMbr(a.max_seats) + 0 * minFee <= Remaining(a, r, minFee)
    BY <1>1, <2>1, <2>2, DepositCovers
  <2>4. BoxMbr(a.max_seats) \in Nat /\ Remaining(a, r, minFee) \in Int
    BY <1>1, <2>1, RemainingType
  <2>5. BoxMbr(a.max_seats) <= Remaining(a, r, minFee)
    BY <1>1, <2>3, <2>4
  <2>6. QED
    BY <1>4, <2>4, <2>5 DEF a, r
<1>6. MinBalance(agreements) = SumFunction(boxes)
  BY DEF MinBalance, Live
<1> HIDE DEF boxes
<1>7. SumFunction(boxes) + (Deposited[id] - boxes[id]) <= SumFunction(Deposited)
  BY <1>1, <1>3, <1>5, SumsApart
<1>8. SumFunction(boxes) \in Int /\ SumFunction(Deposited) \in Int
  BY <1>1, <1>3, <1>5, SumIsInt DEF SumFunction
<1>9. algo = Funding + SumFunction(Deposited)
  BY DEF Balanced
<1>10. algo >= SumFunction(boxes) + Deposited[id] - boxes[id]
  BY <1>1, <1>5, <1>7, <1>8, <1>9
<1>11. QED
  BY <1>4, <1>6, <1>8, <1>10

\* Payments of an agreement's own money pass as far as the application is
\* concerned: they are left to their receivers.
LEMMA PaymentsPass ==
  ASSUME IInv, Balanced, Receptive, minFee = InitialFee,
         NEW id \in Live, agreements[id].total_held > 0,
         NEW total \in Nat, total <= agreements[id].total_held,
         NEW receivers \in SUBSET canReceive, NEW count \in Nat,
         Spent(agreements[id], roster[id]) + count <= agreements[id].max_seats + 1
  PROVE  CanPay(receivers, total, count)
<1> DEFINE a == agreements[id]
           r == roster[id]
           box == BoxMbr(a.max_seats)
           left == Remaining(a, r, minFee)
           fees == count * minFee
<1>1. IsFiniteSet(Live) /\ minFee \in Nat /\ algo \in Int /\ usdc[App] \in Nat
  BY BalanceTypes
<1>2. \A i \in Live : agreements[i] \in Agreement
  BY BoxOf
<1>3. a.total_held <= usdc[App] /\ a.total_held \in Nat
  <2>1. DOMAIN Held = Live /\ \A i \in Live : Held[i] = agreements[i].total_held
    BY DEF Held
  <2>2. \A i \in Live : Held[i] \in Nat
    BY <1>2, <2>1 DEF Agreement
  <2>3. Held[id] <= SumFunction(Held)
    BY <1>1, <2>1, <2>2, SumAtLeast
  <2>4. QED
    BY <2>1, <2>2, <2>3 DEF Balanced
<1>4. App \in canReceive /\ total <= usdc[App]
  BY <1>1, <1>3 DEF Receptive
<1>5. algo >= MinBalance(agreements) + left - box /\ MinBalance(agreements) \in Int
  BY AlgoCovers
<1>6. box + fees <= left
  BY <1>1, BoxOf, DepositCovers
<1>7. box \in Int /\ left \in Int
  BY <1>1, BoxOf, RemainingType
<1>8. fees \in Nat
  BY <1>1, ProductIsNat
<1>9. algo >= MinBalance(agreements) + fees
  <2> HIDE DEF box, left, fees
  <2>1. QED
    BY <1>1, <1>5, <1>6, <1>7, <1>8
<1>10. QED
  BY <1>4, <1>9 DEF CanPay

\* One payment always passes.
LEMMA OnePaymentPasses ==
  ASSUME IInv, Balanced, Receptive, minFee = InitialFee,
         NEW id \in Live, agreements[id].total_held > 0,
         NEW total \in Nat, total <= agreements[id].total_held,
         NEW receivers \in SUBSET canReceive
  PROVE  CanPay(receivers, total, 1)
<1>1. Spent(agreements[id], roster[id]) + 1 <= agreements[id].max_seats + 1
  BY BoxOf, SpentWithin
<1>2. QED
  BY <1>1, PaymentsPass

\* Of the seats still owed each is worth the price, and no more is owed than held.
LEMMA OwedWorth ==
  ASSUME IInv, NEW id \in Live, agreements[id].state # "RELEASED",
         NEW S \in SUBSET Owed(agreements[id], roster[id])
  PROVE  Worth(id, S) \in Nat /\ Worth(id, S) <= agreements[id].total_held
<1> DEFINE a == agreements[id]
           owed == Owed(a, roster[id])
<1>1. a \in Agreement /\ Sound(a, roster[id])
  BY BoxOf
<1>2. IsFiniteSet(owed) /\ Cardinality(owed) \in Nat /\ IsFiniteSet(S)
      /\ Cardinality(S) \in Nat /\ Cardinality(S) <= Cardinality(owed)
  BY <1>1, OwedFinite, FS_Subset, FS_CardinalityType
<1>3. a.share_price \in Nat /\ a.total_held = a.share_price * Cardinality(owed)
  BY <1>1 DEF Agreement, Sound, HeldExact
<1> DEFINE m == Cardinality(S)
           n == Cardinality(owed)
           x == a.share_price
<1>4. Worth(id, S) = x * m
  BY DEF Worth
<1> HIDE DEF m, n, x, owed
<1>5. x \in Nat /\ m \in Nat /\ n \in Nat /\ m <= n /\ a.total_held = x * n
  BY <1>2, <1>3 DEF m, n, x
<1>6. x * n = x * m + x * (n - m) /\ x * m \in Nat /\ x * (n - m) \in Nat
  BY <1>5, Distribute, ProductIsNat
<1>7. QED
  BY <1>4, <1>5, <1>6

\* While a seat is owed something is held for it.
LEMMA OwedIsHeld ==
  ASSUME IInv, NEW id \in Live, agreements[id].state # "RELEASED",
         NEW seat \in Owed(agreements[id], roster[id])
  PROVE  /\ agreements[id].total_held > 0
         /\ roster[id][seat].amount = agreements[id].share_price
         /\ agreements[id].share_price <= agreements[id].total_held
<1> DEFINE a == agreements[id]
<1>1. a \in Agreement /\ Sound(a, roster[id])
  BY BoxOf
<1>2. seat \in 0..(a.seats - 1) /\ roster[id][seat].amount > 0
  BY DEF Owed
<1>3. roster[id][seat].amount = a.share_price
  BY <1>1, <1>2 DEF Sound, Seating
<1>4. {seat} \in SUBSET Owed(a, roster[id]) /\ Cardinality({seat}) = 1
  BY FS_Singleton
<1>5. Worth(id, {seat}) \in Nat /\ Worth(id, {seat}) <= a.total_held
  BY <1>4, OwedWorth
<1>6. a.share_price \in Nat /\ a.share_price > 0 /\ a.total_held \in Nat
  BY <1>1 DEF Agreement, Sound, Staged
<1>7. a.share_price * Cardinality({seat}) = a.share_price
  BY <1>4, <1>6
<1>8. Worth(id, {seat}) = a.share_price
  BY <1>7 DEF Worth
<1>9. QED
  BY <1>3, <1>5, <1>6, <1>8

\* The cursor can always move on, by any window a call may cover.
LEMMA RefundOpen ==
  ASSUME IInv, Balanced, Receptive, minFee = InitialFee,
         NEW id \in Live, agreements[id].state \in {"EXPIRED", "REFUNDING"},
         NEW count \in 1..BatchCeiling
  PROVE  RefundNextPasses(id, count)
<1> DEFINE a == agreements[id]
           r == roster[id]
           paid == Payable(id, WindowEnd(a, count))
<1>1. a \in Agreement /\ Sound(a, r) /\ count \in Nat
  BY BoxOf, NumberAssumption
<1>2. paid \in SUBSET Owed(a, r)
  BY <1>1, PayableOwed
<1>3. Worth(id, paid) \in Nat /\ Worth(id, paid) <= a.total_held
  BY <1>2, OwedWorth
<1>4. {r[seat].payer : seat \in paid} \in SUBSET canReceive
  BY DEF Payable
<1> HIDE DEF paid
<1>5. ASSUME paid # {}
      PROVE  CanPay({r[seat].payer : seat \in paid}, Worth(id, paid), Cardinality(paid))
  <2>1. a.total_held > 0
    BY <1>2, <1>5, OwedIsHeld
  <2>2. Cardinality(paid) \in Nat /\ Cardinality(paid) <= Cardinality(Owed(a, r))
        /\ Cardinality(Owed(a, r)) \in Nat
    BY <1>1, <1>2, OwedFinite, FS_Subset
  <2>3. Spent(a, r) + Cardinality(paid) <= a.max_seats + 1
    BY <1>1, <2>2, SpentWithin
  <2>4. QED
    BY <1>3, <1>4, <2>1, <2>2, <2>3, PaymentsPass
<1>6. a.total_held >= Worth(id, paid)
  BY <1>1, <1>3 DEF Agreement
<1>7. count > 0 /\ count <= BatchCeiling
  BY NumberAssumption
<1>8. QED
  BY <1>5, <1>6, <1>7 DEF RefundNextPasses, paid

\* A skipped payer who can receive again can claim.
LEMMA ClaimOpen ==
  ASSUME IInv, Balanced, Receptive, minFee = InitialFee,
         NEW id \in Live, agreements[id].state \in Returning,
         NEW seat \in Unpaid(id), seat < agreements[id].refund_cursor,
         roster[id][seat].payer \in canReceive
  PROVE  ClaimRefundPasses(id, seat)
<1> DEFINE a == agreements[id]
           r == roster[id]
           amount == r[seat].amount
<1>1. a \in Agreement /\ r \in [0..(a.max_seats - 1) -> Seat] /\ Sound(a, r)
  BY BoxOf
<1>2. seat \in Owed(a, r) /\ seat \in 0..(a.seats - 1) /\ amount > 0
  BY DEF Unpaid, Occupied, Owed
<1>3. a.seats \in Nat /\ a.max_seats \in Nat /\ a.seats <= a.max_seats
  BY <1>1 DEF Agreement, Sound, Staged
<1>4. seat < a.seats /\ seat \in DOMAIN r
  BY <1>1, <1>2, <1>3
<1>5. a.total_held > 0 /\ amount \in Nat /\ amount <= a.total_held /\ a.total_held \in Nat
  <2>1. a.share_price \in Nat /\ a.total_held \in Nat
    BY <1>1 DEF Agreement
  <2>2. QED
    BY <1>2, <2>1, OwedIsHeld DEF Returning
<1>6. CanPay({r[seat].payer}, amount, 1)
  <2>1. {r[seat].payer} \in SUBSET canReceive
    OBVIOUS
  <2>2. QED
    BY <1>5, <2>1, OnePaymentPasses
<1>7. a.unclaimed_seats >= 1
  <2> DEFINE skipped == {s \in Owed(a, r) : s < a.refund_cursor}
  <2>1. IsFiniteSet(Owed(a, r)) /\ skipped \subseteq Owed(a, r) /\ seat \in skipped
    BY <1>1, <1>2, OwedFinite
  <2>2. IsFiniteSet(skipped) /\ Cardinality(skipped) \in Nat
    BY <2>1, FS_Subset, FS_CardinalityType
  <2>3. Cardinality(skipped) # 0
    BY <2>1, <2>2, FS_EmptySet
  <2>4. a.unclaimed_seats = Cardinality(skipped)
    BY <1>1 DEF Sound, SkipsExact
  <2> HIDE DEF skipped
  <2>5. QED
    BY <2>2, <2>3, <2>4
<1>8. Claimable(a, seat)
  BY <1>4 DEF Claimable, Returning
<1>9. QED
  BY <1>2, <1>4, <1>5, <1>6, <1>7, <1>8 DEF ClaimRefundPasses

\* What can be closed is: the deposit it has left is there to be paid out.
LEMMA CloseOpen ==
  ASSUME IInv, Balanced, minFee = InitialFee,
         NEW id \in Live, Closable(agreements[id])
  PROVE  ClosePasses(id)
<1> DEFINE a == agreements[id]
           box == BoxMbr(a.max_seats)
           left == Remaining(a, roster[id], minFee)
           boxes == [i \in Live |-> BoxMbr(agreements[i].max_seats)]
           others == [i \in Live \ {id} |-> BoxMbr(agreements[i].max_seats)]
<1>1. IsFiniteSet(Live) /\ minFee \in Nat /\ algo \in Int
  BY BalanceTypes
<1>2. CloseReturn(a) + minFee = left
  BY CloseReturnsRemaining
<1>3. algo >= MinBalance(agreements) + left - box /\ MinBalance(agreements) \in Int
  BY AlgoCovers
<1>4. ASSUME NEW i \in Live PROVE boxes[i] \in Int
  <2>1. BoxMbr(agreements[i].max_seats) \in Nat
    BY <1>1, BoxOf, RemainingType
  <2>2. QED
    BY <2>1
<1>5. MinBalance(WithoutBox(agreements, id)) = MinBalance(agreements) - box
  <2>1. MinBalance(agreements) = SumFunction(boxes)
    BY DEF MinBalance, Live
  <2>2. MinBalance(WithoutBox(agreements, id)) = SumFunction(others)
    <3>1. DOMAIN WithoutBox(agreements, id) = Live \ {id}
          /\ \A i \in Live \ {id} : WithoutBox(agreements, id)[i] = agreements[i]
      BY DEF WithoutBox, Live
    <3>2. [i \in DOMAIN WithoutBox(agreements, id) |->
             BoxMbr(WithoutBox(agreements, id)[i].max_seats)] = others
      BY <3>1
    <3>3. QED
      BY <3>2 DEF MinBalance
  <2>3. DOMAIN boxes = Live /\ DOMAIN others = DOMAIN boxes \ {id}
        /\ (\A i \in Live : i # id => others[i] = boxes[i]) /\ boxes[id] = box
    OBVIOUS
  <2> HIDE DEF boxes, others
  <2>4. SumFunction(others) = SumFunction(boxes) - boxes[id]
    BY <1>1, <1>4, <2>3, SumRemoved
  <2>5. QED
    BY <2>1, <2>2, <2>3, <2>4
<1>6. box \in Int /\ left \in Int /\ CloseReturn(a) \in Int
  <2>1. box \in Nat /\ left \in Int
    BY <1>1, BoxOf, RemainingType
  <2>2. CloseReturn(a) \in Int
    <3>1. (InnerUsed(a) + 1) * minFee \in Int /\ (a.max_seats + 1) * minFee \in Int
      BY <1>1, BoxOf DEF InnerUsed, Agreement
    <3>2. QED
      BY <2>1, <3>1 DEF CloseReturn, FeeReserve
  <2>3. QED
    BY <2>1, <2>2
<1>7. algo >= CloseReturn(a) + minFee + MinBalance(WithoutBox(agreements, id))
  <2> DEFINE whole == MinBalance(agreements)
             rest == MinBalance(WithoutBox(agreements, id))
             back == CloseReturn(a)
  <2> HIDE DEF box, left, whole, rest, back
  <2>1. back + minFee = left /\ algo >= whole + left - box /\ whole \in Int /\ rest = whole - box
        /\ box \in Int /\ left \in Int /\ back \in Int
    BY <1>2, <1>3, <1>5, <1>6 DEF whole, rest, back
  <2>2. algo >= back + minFee + rest
    BY <1>1, <2>1
  <2>3. QED
    BY <2>2 DEF rest, back
<1>8. id \in DOMAIN roster
  BY DEF IInv, TypeOK
<1>9. QED
  BY <1>7, <1>8 DEF ClosePasses

\* From the deadline on every agreement that holds anything has an open exit,
\* for as long as the minimum fee is the one deposits were priced at: the run
\* of the fee rise shows that it may have none afterwards.
THEOREM NoTrappedShareAlways == Spec => [](minFee = InitialFee => NoTrappedShare)
<1>1. ASSUME IInv, Balanced, Receptive, minFee = InitialFee
      PROVE  NoTrappedShare
  <2> SUFFICES ASSUME NEW id \in Live, agreements[id].total_held > 0,
                      now >= agreements[id].deadline
               PROVE  \/ ReleaseQuorumPasses(id)
                      \/ ExpireCanPass(id)
                      \/ \E count \in 1..BatchCeiling : RefundNextPasses(id, count)
                      \/ \E seat \in Unpaid(id) : ClaimRefundPasses(id, seat)
                      \/ \A seat \in Unpaid(id) : /\ seat < agreements[id].refund_cursor
                                                  /\ roster[id][seat].payer \notin canReceive
    BY DEF NoTrappedShare
  <2> DEFINE a == agreements[id]
  <2>1. a \in Agreement /\ Sound(a, roster[id])
    BY <1>1, BoxOf
  <2>2. CASE a.state \in {"OPEN", "FUNDED"} \/ (a.state = "FILLED" /\ a.beneficiary \notin canReceive)
    <3>1. PICK caller \in Account : caller = admin
      BY <1>1 DEF IInv, TypeOK
    <3>2. ExpirePasses(caller, id)
      BY <2>2 DEF ExpirePasses, Expirable
    <3>3. QED
      BY <3>2 DEF ExpireCanPass
  <2>3. CASE a.state = "FILLED" /\ a.beneficiary \in canReceive
    <3>1. a.total_held \in Nat /\ a.total_held <= a.total_held
      BY <2>1 DEF Agreement
    <3>2. {a.beneficiary} \in SUBSET canReceive
      BY <2>3
    <3>3. CanPay({a.beneficiary}, a.total_held, 1)
      BY <1>1, <3>1, <3>2, OnePaymentPasses
    <3>4. QED
      BY <2>3, <3>3 DEF ReleaseQuorumPasses, CanDeliver
  <2>4. CASE a.state \in {"EXPIRED", "REFUNDING"}
    <3>1. 1 \in 1..BatchCeiling
      BY NumberAssumption
    <3>2. RefundNextPasses(id, 1)
      BY <1>1, <2>4, <3>1, RefundOpen
    <3>3. QED
      BY <3>1, <3>2
  <2>5. CASE a.state = "REFUNDED"
    <3>1. ASSUME NEW seat \in Unpaid(id) PROVE seat < a.refund_cursor
      BY <2>1, <2>5 DEF Unpaid, Occupied, Sound, Staged, Agreement
    <3>2. ASSUME NEW seat \in Unpaid(id), roster[id][seat].payer \in canReceive
          PROVE  ClaimRefundPasses(id, seat)
      BY <1>1, <2>5, <3>1, <3>2, ClaimOpen DEF Returning
    <3>3. QED
      BY <3>1, <3>2
  <2>6. a.state # "RELEASED"
    BY <2>1 DEF Sound, HeldExact
  <2>7. QED
    BY <2>1, <2>2, <2>3, <2>4, <2>5, <2>6 DEF Agreement, States
<1>2. QED
  BY <1>1, Invariant, BalancedAlways, ReceptiveAlways, PTL

-----------------------------------------------------------------------------
(* The refinement: Escrow implements EscrowPromise, for any accounts,      *)
(* offers and bounds.  Each step of the contract is shown to be the step   *)
(* of the promise with the same effect on people, or none at all.          *)

\* The promise's vocabulary: what a record and a roster say of a deal.
People(r, S) == {r[s].payer : s \in S}

HeldFor(a, r) == People(r, Owed(a, r))

DealAt(a, stage, held) ==
  [quota |-> a.min_seats, price |-> a.share_price,
   beneficiary |-> a.beneficiary, stage |-> stage, held |-> held]

DealOf(a, r) ==
  DealAt(a, PromiseStage(a.state), IF a.state = "RELEASED" THEN {} ELSE HeldFor(a, r))

PromiseVars == <<agreement_count, PromiseDeals, usdc>>

-----------------------------------------------------------------------------
(* Seats and people.                                                       *)

\* The promise counts people as the contract's model counts seats.
LEMMA SameCardinality ==
  ASSUME NEW S
  PROVE  Promise!Cardinality(S) = Cardinality(S)
BY DEF Promise!Cardinality, Cardinality

\* As many people as seats, since no one sits twice.
LEMMA PeopleCount ==
  ASSUME NEW a \in Agreement, NEW r, Seating(a, r), NEW S \in SUBSET Owed(a, r)
  PROVE  /\ IsFiniteSet(People(r, S))
         /\ Cardinality(People(r, S)) = Cardinality(S)
<1> DEFINE T == People(r, S)
           f == [s \in S |-> r[s].payer]
<1>1. IsFiniteSet(S)
  BY OwedFinite
<1>2. \A s, t \in S : r[s].payer = r[t].payer => s = t
  BY DEF Seating, Owed
<1>3. f \in [S -> T] /\ \A t \in T : \E s \in S : f[s] = t
  BY DEF People
<1>4. f \in Surjection(S, T) /\ f \in Injection(S, T)
  BY <1>2, <1>3 DEF Surjection, Injection, IsInjective
<1>5. QED
  BY <1>1, <1>4, FS_Surjection

\* The deal holds for one person per seat owed.
LEMMA HeldCount ==
  ASSUME NEW a \in Agreement, NEW r, Seating(a, r)
  PROVE  /\ IsFiniteSet(HeldFor(a, r))
         /\ Cardinality(HeldFor(a, r)) = Cardinality(Owed(a, r))
<1>1. Owed(a, r) \in SUBSET Owed(a, r)
  OBVIOUS
<1>2. QED
  BY <1>1, PeopleCount DEF HeldFor

\* Those of the seats in S are people the deal holds a share for, and those of
\* the other seats are the others.
LEMMA PeopleLess ==
  ASSUME NEW a \in Agreement, NEW r \in [0..(a.max_seats - 1) -> Seat],
         Staged(a), Seating(a, r), NEW S \in SUBSET Owed(a, r)
  PROVE  /\ People(r, S) \subseteq HeldFor(a, r)
         /\ HeldFor(a, Zeroed(r, S)) = HeldFor(a, r) \ People(r, S)
<1> DEFINE q == Zeroed(r, S)
<1>1. Owed(a, q) = Owed(a, r) \ S
  BY ZeroedOwed
<1>2. \A s \in Owed(a, r) : q[s].payer = r[s].payer
  <2>1. SameButZero(a, r, q, S)
    BY ZeroedSeat
  <2>2. QED
    BY <2>1 DEF SameButZero, Owed
<1>3. \A s, t \in Owed(a, r) : r[s].payer = r[t].payer => s = t
  BY DEF Seating, Owed
<1> HIDE DEF q
<1>4. HeldFor(a, q) = People(r, Owed(a, r) \ S)
  BY <1>1, <1>2 DEF HeldFor, People
<1>5. People(r, Owed(a, r) \ S) = HeldFor(a, r) \ People(r, S)
  BY <1>3 DEF HeldFor, People
<1>6. QED
  BY <1>4, <1>5 DEF HeldFor, People, q

-----------------------------------------------------------------------------
(* The mapped deals.                                                       *)

\* The refinement mapping reads one record and its roster at a time.
LEMMA Deals ==
  /\ PromiseDeals = [id \in Live |-> DealOf(agreements[id], roster[id])]
  /\ PromiseDeals' = [id \in Live' |-> DealOf(agreements'[id], roster'[id])]
BY DEF PromiseDeals, DealOf, DealAt, HeldFor, People, Owed, Unpaid, Occupied

\* A call that writes one agreement rewrites its deal.
LEMMA WritesDeal ==
  ASSUME TypeOK, NEW id, NEW a, NEW r, Writes(id, a, r)
  PROVE  /\ id \in DOMAIN PromiseDeals
         /\ PromiseDeals[id] = DealOf(agreements[id], roster[id])
         /\ PromiseDeals' = [PromiseDeals EXCEPT ![id] = DealOf(a, r)]
         /\ agreement_count' = agreement_count
<1>1. Live' = Live /\ id \in Live
  BY DEF Writes, TypeOK, Live
<1>2. \A i \in Live : /\ agreements'[i] = IF i = id THEN a ELSE agreements[i]
                      /\ roster'[i] = IF i = id THEN r ELSE roster[i]
  BY <1>1 DEF Writes, TypeOK, Live
<1>3. \A i \in Live : DealOf(agreements'[i], roster'[i]) =
                        IF i = id THEN DealOf(a, r)
                                  ELSE DealOf(agreements[i], roster[i])
  BY <1>2
<1>4. QED
  BY <1>1, <1>3, Deals DEF Writes

\* A deal is its terms, its stage and whom it holds a share for.
LEMMA DealFields ==
  ASSUME NEW a, NEW stage, NEW held
  PROVE  /\ DealAt(a, stage, held).stage = stage
         /\ DealAt(a, stage, held).held = held
         /\ DealAt(a, stage, held).quota = a.min_seats
         /\ DealAt(a, stage, held).price = a.share_price
         /\ DealAt(a, stage, held).beneficiary = a.beneficiary
BY DEF DealAt

\* The same deal at another stage.
LEMMA OtherStage ==
  ASSUME NEW deal, NEW a, NEW stage, NEW held, deal = DealAt(a, stage, held), NEW next
  PROVE  [deal EXCEPT !.stage = next] = DealAt(a, next, held)
BY DEF DealAt

\* Only the terms of an agreement matter to its deal.
LEMMA SameTerms ==
  ASSUME NEW a, NEW b, b.min_seats = a.min_seats, b.share_price = a.share_price,
         b.beneficiary = a.beneficiary, NEW stage, NEW held
  PROVE  DealAt(b, stage, held) = DealAt(a, stage, held)
BY DEF DealAt

\* A step that touches neither boxes nor balances is none of the promise's.
LEMMA Stutters ==
  ASSUME UNCHANGED <<boxVars, usdc>>
  PROVE  UNCHANGED PromiseVars
BY DEF boxVars, PromiseVars, PromiseDeals, Live, Unpaid, Occupied

-----------------------------------------------------------------------------
(* Each call is a step of the promise.                                     *)

\* create_agreement offers a deal.
LEMMA CreateOffers ==
  ASSUME IInv, NEW caller \in Account, NEW o \in Offers, NEW deposit,
         CreateAgreement(caller, o, deposit)
  PROVE  Promise!Offer
<1> DEFINE id == agreement_count + 1
           a == NewAgreement(o, caller)
           r == EmptyRoster(o.max_seats)
<1>1. /\ agreements' = WithBox(agreements, id, a)
      /\ roster' = WithBox(roster, id, r)
      /\ agreement_count' = id /\ agreement_count < MaxAgreements
      /\ UNCHANGED usdc
      /\ ValidOffer(o) /\ o \in OfferType
  BY InputAssumption DEF CreateAgreement, CreatePasses
<1>2. DealOf(a, r) \in Promise!Deal
      /\ DealOf(a, r).stage = "gathering" /\ DealOf(a, r).held = {}
      /\ DealOf(a, r).price > 0
  <2>1. /\ a.min_seats \in Nat /\ a.share_price \in Nat /\ a.share_price > 0
        /\ a.beneficiary \in Account /\ a.state = "OPEN" /\ a.seats = 0
    BY <1>1 DEF ValidOffer, OfferType, NewAgreement
  <2>2. HeldFor(a, r) = {}
    BY <2>1 DEF HeldFor, People, Owed
  <2> HIDE DEF a, r
  <2>3. QED
    BY <2>1, <2>2 DEF DealOf, DealAt, PromiseStage, Promise!Deal
<1>3. id \notin Live /\ Live' = Live \cup {id} /\ DOMAIN roster = Live
  BY <1>1 DEF WithBox, Live, IInv, TypeOK
<1> HIDE DEF id, a, r
<1>4. /\ agreements'[id] = a /\ roster'[id] = r
      /\ \A i \in Live : agreements'[i] = agreements[i] /\ roster'[i] = roster[i]
  BY <1>1, <1>3 DEF WithBox, Live
<1>5. /\ DOMAIN PromiseDeals = Live /\ DOMAIN PromiseDeals' = Live \cup {id}
      /\ \A i \in Live : PromiseDeals'[i] = PromiseDeals[i]
      /\ PromiseDeals'[id] = DealOf(a, r)
  BY <1>3, <1>4, Deals
<1>6. QED
  BY <1>1, <1>2, <1>5 DEF Promise!Offer, id

\* join funds one share.
LEMMA JoinFunds ==
  ASSUME IInv, NEW id \in Live, NEW caller \in Payers, NEW p \in Payments,
         Join(caller, id, p)
  PROVE  Promise!Fund(id, caller)
<1> DEFINE a == agreements[id]
           r == roster[id]
           b == Seated(a, a.share_price)
           q == [r EXCEPT ![a.seats] = [payer |-> caller, amount |-> a.share_price]]
           people == HeldFor(a, r) \cup {caller}
<1>1. a \in Agreement /\ r \in [0..(a.max_seats - 1) -> Seat] /\ Sound(a, r)
  BY BoxOf
<1>2. /\ p.amount = a.share_price
      /\ a.state = "OPEN" /\ a.seats < a.max_seats
      /\ \A s \in 0..(a.seats - 1) : r[s].payer # caller
  BY DEF Join, JoinPasses, Settles, AlreadyJoined, Occupied
<1>3. Writes(id, b, q)
  BY <1>2 DEF Join, Writes, IInv, TypeOK, Live
<1>4. /\ a.seats \in Nat /\ a.share_price \in Nat /\ a.share_price > 0
      /\ a.min_seats = a.max_seats /\ a.min_seats \in Nat
  BY <1>1 DEF Sound, Staged, Agreement
<1>5. usdc' = [usdc EXCEPT ![caller] = @ - a.share_price,
                           ![App] = @ + a.share_price]
  BY <1>2 DEF Join, JoinPasses, Settles, Transferred
<1>6. /\ b.seats = a.seats + 1 /\ b.min_seats = a.min_seats
      /\ b.share_price = a.share_price /\ b.beneficiary = a.beneficiary
      /\ b.state \in {"OPEN", "FUNDED", "FILLED"}
      /\ b.state # "OPEN" <=> a.seats + 1 = a.min_seats
  BY <1>1, <1>2, <1>4 DEF Seated, Agreement
<1>7. HeldFor(b, q) = people
  <2>1. Owed(a, r) = 0..(a.seats - 1)
    BY <1>1, <1>2, AllOwed
  <2>2. \A s \in 0..a.seats :
          q[s] = IF s = a.seats THEN [payer |-> caller, amount |-> a.share_price]
                 ELSE r[s]
    BY <1>1, <1>2, <1>4
  <2> HIDE DEF b, q, a, r
  <2>3. Owed(b, q) = 0..a.seats
    BY <1>4, <1>6, <2>1, <2>2 DEF Owed
  <2>4. 0..a.seats = (0..(a.seats - 1)) \cup {a.seats}
    BY <1>4
  <2>5. QED
    BY <1>4, <2>1, <2>2, <2>3, <2>4 DEF HeldFor, People
<1>8. Cardinality(people) = a.seats + 1
  <2>1. Owed(a, r) = 0..(a.seats - 1)
    BY <1>1, <1>2, AllOwed
  <2>2. Cardinality(0..(a.seats - 1)) = a.seats
    BY <1>4, SeatsBelow
  <2>3. Seating(a, r)
    BY <1>1 DEF Sound
  <2> HIDE DEF a, r
  <2>4. IsFiniteSet(HeldFor(a, r)) /\ Cardinality(HeldFor(a, r)) = a.seats
    BY <1>1, <2>1, <2>2, <2>3, HeldCount
  <2>5. caller \notin HeldFor(a, r)
    BY <1>2, <2>1 DEF HeldFor, People
  <2>6. QED
    BY <2>4, <2>5, FS_AddElement
<1>9. caller \notin HeldFor(a, r)
  BY <1>2 DEF HeldFor, People, Owed
<1> HIDE DEF b, q, a, r, people
<1> DEFINE next == IF Cardinality(people) = a.min_seats THEN "ready" ELSE "gathering"
<1>10. DealOf(a, r) = DealAt(a, "gathering", HeldFor(a, r))
  BY <1>2 DEF DealOf, PromiseStage
<1>11. DealOf(b, q) = DealAt(a, next, people)
  <2>1. DealOf(b, q) = DealAt(b, next, people)
    BY <1>2, <1>4, <1>6, <1>7, <1>8 DEF DealOf, PromiseStage
  <2> HIDE DEF next
  <2>2. QED
    BY <1>6, <2>1, SameTerms
<1>12. /\ PromiseDeals[id] = DealOf(a, r) /\ agreement_count' = agreement_count
       /\ PromiseDeals' = [PromiseDeals EXCEPT ![id] = DealOf(b, q)]
  BY <1>3, WritesDeal DEF IInv, a, r
<1> DEFINE deal == PromiseDeals[id]
<1>13. /\ deal = DealAt(a, "gathering", HeldFor(a, r))
       /\ deal.stage = "gathering" /\ caller \notin deal.held
       /\ people = deal.held \cup {caller}
       /\ deal.quota = a.min_seats /\ deal.price = a.share_price
  BY <1>9, <1>10, <1>12, DealFields DEF people
<1>14. next = IF Promise!Cardinality(deal.held \cup {caller}) = deal.quota
              THEN "ready" ELSE "gathering"
  BY <1>13, SameCardinality
<1> HIDE DEF next
<1>15. PromiseDeals' = [PromiseDeals EXCEPT ![id] =
         [deal EXCEPT !.held = deal.held \cup {caller}, !.stage = next]]
  <2> HIDE DEF deal
  <2>1. deal = DealAt(a, "gathering", HeldFor(a, r))
    BY <1>13
  <2>2. [deal EXCEPT !.held = people, !.stage = next] = DealAt(a, next, people)
    <3>1. [deal EXCEPT !.held = people] = DealAt(a, "gathering", people)
      BY <2>1 DEF DealAt
    <3>2. [DealAt(a, "gathering", people) EXCEPT !.stage = next] = DealAt(a, next, people)
      BY DEF DealAt
    <3>3. QED
      BY <3>1, <3>2
  <2>3. QED
    BY <1>11, <1>12, <1>13, <2>2
<1>16. usdc' = [usdc EXCEPT ![caller] = @ - deal.price, ![App] = @ + deal.price]
  BY <1>5, <1>13
<1>17. QED
  BY <1>12, <1>13, <1>14, <1>15, <1>16 DEF Promise!Fund, Promise!Becomes

\* Both releases deliver.
LEMMA ReleaseDelivers ==
  ASSUME IInv, NEW id \in Live, Release(id),
         agreements[id].state \in {"FUNDED", "FILLED"}
  PROVE  Promise!Deliver(id)
<1> DEFINE a == agreements[id]
           r == roster[id]
           b == [a EXCEPT !.total_held = 0, !.state = "RELEASED"]
<1>1. a \in Agreement /\ r \in [0..(a.max_seats - 1) -> Seat] /\ Sound(a, r)
  BY BoxOf
<1>2. Writes(id, b, r)
  BY DEF Release, Writes, IInv, TypeOK
<1>3. a.total_held = a.share_price * Cardinality(HeldFor(a, r))
  <2>1. Seating(a, r)
    BY <1>1 DEF Sound
  <2>2. Cardinality(HeldFor(a, r)) = Cardinality(Owed(a, r))
    BY <1>1, <2>1, HeldCount
  <2>3. QED
    BY <1>1, <2>2 DEF Sound, HeldExact
<1>4. a.beneficiary \in Account /\ a.beneficiary # App /\ a.total_held \in Nat
  BY <1>1, AccountAssumption DEF Agreement
<1>5. usdc' = [usdc EXCEPT ![a.beneficiary] = @ + a.total_held,
                           ![App] = @ - a.total_held]
  <2>1. usdc' = PaidOut([acct \in Account |->
                  IF acct = a.beneficiary THEN a.total_held ELSE 0], a.total_held)
    BY DEF Release
  <2>2. usdc \in [Account \cup {App} -> Nat]
    BY DEF IInv, TypeOK
  <2> HIDE DEF a
  <2>3. /\ DOMAIN usdc' = Account \cup {App} /\ usdc'[App] = usdc[App] - a.total_held
        /\ \A acct \in Account : usdc'[acct] =
             IF acct = a.beneficiary THEN usdc[acct] + a.total_held ELSE usdc[acct]
    BY <1>4, <2>1, <2>2, AccountAssumption DEF PaidOut
  <2>4. usdc' = [x \in Account \cup {App} |-> usdc'[x]]
    BY <2>1 DEF PaidOut
  <2>5. QED
    BY <1>4, <2>2, <2>3, <2>4, AccountAssumption
<1>6. DealOf(b, r) = DealAt(a, "delivered", {})
  <2>1. /\ b.min_seats = a.min_seats /\ b.share_price = a.share_price
        /\ b.beneficiary = a.beneficiary /\ b.state = "RELEASED"
    BY <1>1 DEF Agreement
  <2> HIDE DEF a, b, r
  <2>2. DealOf(b, r) = DealAt(b, "delivered", {})
    BY <2>1 DEF DealOf, PromiseStage
  <2>3. QED
    BY <2>1, <2>2, SameTerms
<1>7. DealOf(a, r) = DealAt(a, "ready", HeldFor(a, r))
  BY DEF DealOf, PromiseStage
<1>8. /\ PromiseDeals[id] = DealOf(a, r) /\ agreement_count' = agreement_count
      /\ PromiseDeals' = [PromiseDeals EXCEPT ![id] = DealOf(b, r)]
  BY <1>2, WritesDeal DEF IInv
<1> HIDE DEF a, b, r
<1> DEFINE deal == PromiseDeals[id]
           sum == deal.price * Promise!Cardinality(deal.held)
<1>9. /\ deal = DealAt(a, "ready", HeldFor(a, r))
      /\ deal.stage = "ready" /\ deal.held = HeldFor(a, r)
      /\ deal.price = a.share_price /\ deal.beneficiary = a.beneficiary
  BY <1>7, <1>8, DealFields
<1>10. PromiseDeals' = [PromiseDeals EXCEPT ![id] =
                          [deal EXCEPT !.held = {}, !.stage = "delivered"]]
  <2> HIDE DEF deal
  <2>1. deal = DealAt(a, "ready", HeldFor(a, r))
    BY <1>9
  <2>2. [deal EXCEPT !.held = {}, !.stage = "delivered"] = DealAt(a, "delivered", {})
    <3>1. [deal EXCEPT !.held = {}] = DealAt(a, "ready", {})
      BY <2>1 DEF DealAt
    <3>2. [DealAt(a, "ready", {}) EXCEPT !.stage = "delivered"] = DealAt(a, "delivered", {})
      BY DEF DealAt
    <3>3. QED
      BY <3>1, <3>2
  <2>3. QED
    BY <1>6, <1>8, <2>2
<1>11. sum = a.total_held
  BY <1>3, <1>9, SameCardinality
<1> HIDE DEF sum
<1>12. usdc' = [usdc EXCEPT ![deal.beneficiary] = @ + sum, ![App] = @ - sum]
  BY <1>5, <1>9, <1>11
<1>13. QED
  BY <1>8, <1>9, <1>10, <1>12 DEF Promise!Deliver, Promise!Becomes, sum

\* expire calls the deal off.
LEMMA ExpireCallsOff ==
  ASSUME IInv, NEW id \in Live, NEW caller \in Account, Expire(caller, id)
  PROVE  Promise!CallOff(id)
<1> DEFINE a == agreements[id]
           r == roster[id]
           b == [a EXCEPT !.state = "EXPIRED"]
<1>1. a \in Agreement
  BY BoxOf
<1>2. a.state \in {"OPEN", "FUNDED", "FILLED"} /\ UNCHANGED usdc
  BY DEF Expire, ExpirePasses, Expirable
<1>3. Writes(id, b, r)
  BY DEF Expire, Writes, IInv, TypeOK
<1>4. /\ b.seats = a.seats /\ b.min_seats = a.min_seats /\ b.state = "EXPIRED"
      /\ b.share_price = a.share_price /\ b.beneficiary = a.beneficiary
  BY <1>1 DEF Agreement
<1>5. /\ PromiseDeals[id] = DealOf(a, r) /\ agreement_count' = agreement_count
      /\ PromiseDeals' = [PromiseDeals EXCEPT ![id] = DealOf(b, r)]
  BY <1>3, WritesDeal DEF IInv
<1> HIDE DEF a, b, r
<1> DEFINE stage == PromiseStage(a.state)
           held == HeldFor(a, r)
<1>6. DealOf(b, r) = DealAt(b, "returning", held)
  BY <1>2, <1>4 DEF DealOf, PromiseStage, HeldFor, Owed
<1>7. DealOf(a, r) = DealAt(a, stage, held) /\ stage \in {"gathering", "ready"}
  BY <1>2 DEF DealOf, PromiseStage
<1> HIDE DEF stage, held
<1>8. PromiseDeals[id].stage \in {"gathering", "ready"}
  BY <1>5, <1>7, DealFields
<1>9. DealOf(b, r) = [PromiseDeals[id] EXCEPT !.stage = "returning"]
  BY <1>4, <1>5, <1>6, <1>7, OtherStage, SameTerms
<1>10. QED
  BY <1>2, <1>5, <1>8, <1>9 DEF Promise!CallOff, Promise!Becomes

\* A call that pays each of some of those held for one share, zeroes their
\* seats and does no more to the deal, returns it to them.
LEMMA Returns ==
  ASSUME IInv, NEW id \in Live, NEW S \in SUBSET Owed(agreements[id], roster[id]),
         S # {}, agreements[id].state \in Returning,
         NEW b, b.state \in Returning, b.seats = agreements[id].seats,
         b.min_seats = agreements[id].min_seats,
         b.share_price = agreements[id].share_price,
         b.beneficiary = agreements[id].beneficiary,
         Writes(id, b, Zeroed(roster[id], S)),
         NEW total, total = agreements[id].share_price * Cardinality(S),
         NEW to, \A acct \in Account :
           to[acct] = IF acct \in People(roster[id], S)
                      THEN agreements[id].share_price ELSE 0,
         usdc' = PaidOut(to, total)
  PROVE  \E people \in SUBSET PromiseDeals[id].held : Promise!Return(id, people)
<1> DEFINE a == agreements[id]
           r == roster[id]
           q == Zeroed(r, S)
           people == People(r, S)
<1>1. a \in Agreement /\ r \in [0..(a.max_seats - 1) -> Seat] /\ Sound(a, r)
  BY BoxOf
<1>2. Staged(a) /\ Seating(a, r)
  BY <1>1 DEF Sound
<1>3. /\ PromiseDeals[id] = DealOf(a, r) /\ agreement_count' = agreement_count
      /\ PromiseDeals' = [PromiseDeals EXCEPT ![id] = DealOf(b, q)]
  BY WritesDeal DEF IInv
<1>4. a.share_price \in Nat
  BY <1>1 DEF Agreement
<1>5. usdc \in [Account \cup {App} -> Nat] /\ App \notin Account
  BY AccountAssumption DEF IInv, TypeOK
<1> HIDE DEF a, r, q
<1>6. Cardinality(people) = Cardinality(S)
  BY <1>1, <1>2, PeopleCount DEF a, r
<1>7. people # {}
  BY DEF People
<1>8. people \subseteq HeldFor(a, r) /\ HeldFor(a, q) = HeldFor(a, r) \ people
  BY <1>1, <1>2, PeopleLess DEF a, r, q
<1>9. HeldFor(b, q) = HeldFor(a, q)
  BY DEF HeldFor, People, Owed, a
<1> HIDE DEF people
<1>10. DealOf(a, r) = DealAt(a, "returning", HeldFor(a, r))
  BY DEF DealOf, PromiseStage, Returning, a
<1>11. DealOf(b, q) = DealAt(a, "returning", HeldFor(a, r) \ people)
  <2>1. DealOf(b, q) = DealAt(b, "returning", HeldFor(a, r) \ people)
    BY <1>8, <1>9 DEF DealOf, PromiseStage, Returning
  <2>2. QED
    BY <2>1, SameTerms DEF a
<1> DEFINE deal == PromiseDeals[id]
<1>12. /\ deal = DealAt(a, "returning", HeldFor(a, r))
       /\ deal.stage = "returning" /\ deal.held = HeldFor(a, r)
       /\ deal.price = a.share_price
  BY <1>3, <1>10, DealFields
<1>13. PromiseDeals' = [PromiseDeals EXCEPT ![id] =
                          [deal EXCEPT !.held = deal.held \ people]]
  <2> DEFINE rest == deal.held \ people
  <2>1. DealOf(b, q) = DealAt(a, "returning", rest)
    BY <1>11, <1>12
  <2> HIDE DEF deal, rest
  <2>2. deal = DealAt(a, "returning", HeldFor(a, r))
    BY <1>12
  <2>3. [deal EXCEPT !.held = rest] = DealAt(a, "returning", rest)
    BY <2>2 DEF DealAt
  <2>4. PromiseDeals' = [PromiseDeals EXCEPT ![id] = [deal EXCEPT !.held = rest]]
    BY <1>3, <2>1, <2>3
  <2>5. QED
    BY <2>4 DEF rest
<1>14. usdc' = [w \in Account \cup {App} |->
         IF w = App THEN usdc[w] - deal.price * Promise!Cardinality(people)
         ELSE IF w \in people THEN usdc[w] + deal.price ELSE usdc[w]]
  <2>1. total = deal.price * Promise!Cardinality(people)
    BY <1>6, <1>12, SameCardinality DEF a
  <2>2. \A w \in Account : usdc[w] + to[w] =
          IF w \in people THEN usdc[w] + deal.price ELSE usdc[w]
    BY <1>4, <1>5, <1>12 DEF a, r, people
  <2> HIDE DEF deal
  <2>3. QED
    BY <1>5, <2>1, <2>2 DEF PaidOut
<1>15. Promise!Return(id, people)
  BY <1>3, <1>7, <1>12, <1>13, <1>14 DEF Promise!Return, Promise!Becomes
<1>16. QED
  BY <1>8, <1>12, <1>15

\* refund_next returns their shares to those of its window who can receive; a
\* window without one moves no money.
LEMMA RefundReturns ==
  ASSUME IInv, NEW id \in Live, NEW count \in Nat, RefundNext(id, count)
  PROVE  \/ \E people \in SUBSET PromiseDeals[id].held : Promise!Return(id, people)
         \/ UNCHANGED PromiseVars
<1> DEFINE a == agreements[id]
           r == roster[id]
           last == WindowEnd(a, count)
           paid == Payable(id, last)
           b == [a EXCEPT !.refund_cursor = last,
                   !.total_held = a.total_held - Worth(id, paid),
                   !.unclaimed_seats = a.unclaimed_seats + Cardinality(Skipped(id, last)),
                   !.state = IF last >= a.seats THEN "REFUNDED" ELSE "REFUNDING"]
           q == Zeroed(r, paid)
<1>1. a \in Agreement /\ r \in [0..(a.max_seats - 1) -> Seat] /\ Sound(a, r)
  BY BoxOf
<1>2. TypeOK /\ last \in Nat /\ last <= a.seats /\ a.refund_cursor \in Nat
  <2>1. last \in Nat /\ last <= a.seats
    BY WindowTypes DEF IInv
  <2>2. QED
    BY <1>1, <2>1 DEF IInv, Agreement
<1>3. a.share_price \in Nat /\ a.seats \in Nat /\ Seating(a, r)
  BY <1>1 DEF Agreement, Sound
<1>4. ZeroAmounts(id, paid) = q
  BY DEF ZeroAmounts, Zeroed
<1>5. Writes(id, b, q)
  BY <1>2, <1>4 DEF RefundNext, Writes, TypeOK, Live
<1>6. /\ b.state \in Returning /\ b.seats = a.seats /\ b.min_seats = a.min_seats
      /\ b.share_price = a.share_price /\ b.beneficiary = a.beneficiary
      /\ a.state \in Returning
  BY <1>1 DEF Agreement, RefundNext, RefundNextPasses, Returning
<1>7. usdc' = PaidOut(Shares(id, paid), Worth(id, paid))
  BY DEF RefundNext
<1>8. paid \subseteq Owed(a, r)
  BY <1>2, <1>3 DEF Payable, Owed
<1>9. Worth(id, paid) = a.share_price * Cardinality(paid)
  BY DEF Worth
<1>10. Shares(id, paid) = [acct \in Account |-> a.share_price *
         Cardinality({s \in paid : r[s].payer = acct})]
  BY DEF Shares, Worth
<1> DEFINE to == Shares(id, paid)
<1> HIDE DEF a, r, b, q, paid
<1>11. \A acct \in Account :
         to[acct] = IF acct \in People(r, paid) THEN a.share_price ELSE 0
  <2> SUFFICES ASSUME NEW acct \in Account
               PROVE  to[acct] = IF acct \in People(r, paid) THEN a.share_price ELSE 0
    OBVIOUS
  <2> DEFINE mine == {s \in paid : r[s].payer = acct}
  <2>1. to[acct] = a.share_price * Cardinality(mine)
    BY <1>10
  <2>2. CASE acct \in People(r, paid)
    <3>1. PICK s \in paid : r[s].payer = acct
      BY <2>2 DEF People
    <3>2. mine = {s}
      BY <1>3, <1>8, <3>1 DEF Seating, Owed
    <3>3. Cardinality(mine) = 1
      BY <3>2, FS_Singleton
    <3>4. QED
      BY <1>3, <2>1, <2>2, <3>3
  <2>3. CASE acct \notin People(r, paid)
    <3>1. mine = {}
      BY <2>3 DEF People
    <3>2. Cardinality(mine) = 0
      BY <3>1, FS_EmptySet
    <3>3. QED
      BY <1>3, <2>1, <2>3, <3>2
  <2>4. QED
    BY <2>2, <2>3
<1>12. CASE paid # {}
  <2> HIDE DEF to
  <2>1. \E people \in SUBSET PromiseDeals[id].held : Promise!Return(id, people)
    BY <1>5, <1>6, <1>7, <1>8, <1>9, <1>11, <1>12, Returns DEF a, r, q, to
  <2>2. QED
    BY <2>1
<1>13. CASE paid = {}
  <2>1. Cardinality(paid) = 0 /\ People(r, paid) = {}
    BY <1>13, FS_EmptySet DEF People
  <2>2. usdc' = usdc
    <3>1. usdc \in [Account \cup {App} -> Nat]
      BY DEF IInv, TypeOK
    <3>2. Worth(id, paid) = 0 /\ \A acct \in Account : to[acct] = 0
      BY <1>3, <1>9, <1>11, <2>1
    <3> HIDE DEF to
    <3>3. QED
      BY <1>7, <3>1, <3>2 DEF PaidOut, to
  <2>3. /\ PromiseDeals[id] = DealOf(a, r) /\ agreement_count' = agreement_count
        /\ PromiseDeals' = [PromiseDeals EXCEPT ![id] = DealOf(b, q)]
    BY <1>2, <1>5, WritesDeal DEF a, r
  <2>4. HeldFor(b, q) = HeldFor(a, r)
    <3>1. q = r
      BY <1>1, <1>13 DEF Zeroed, q
    <3>2. QED
      BY <1>6, <3>1 DEF HeldFor, People, Owed
  <2>5. DealOf(b, q) = DealOf(a, r)
    <3>1. /\ DealOf(b, q) = DealAt(b, "returning", HeldFor(a, r))
          /\ DealOf(a, r) = DealAt(a, "returning", HeldFor(a, r))
      BY <1>6, <2>4 DEF DealOf, PromiseStage, Returning
    <3>2. QED
      BY <1>6, <3>1, SameTerms
  <2>6. PromiseDeals' = PromiseDeals
    BY <2>3, <2>5, Deals
  <2>7. QED
    BY <2>2, <2>3, <2>6 DEF PromiseVars
<1>14. QED
  BY <1>12, <1>13

\* claim_refund returns one share to the payer of the seat, whoever calls it.
LEMMA ClaimReturns ==
  ASSUME IInv, NEW id \in Live, NEW seat \in Nat, ClaimRefund(id, seat)
  PROVE  \E people \in SUBSET PromiseDeals[id].held : Promise!Return(id, people)
<1> DEFINE a == agreements[id]
           r == roster[id]
           amount == r[seat].amount
           b == [a EXCEPT !.total_held = a.total_held - amount,
                          !.unclaimed_seats = a.unclaimed_seats - 1]
           q == Zeroed(r, {seat})
           to == [acct \in Account |-> IF acct = r[seat].payer THEN amount ELSE 0]
<1>1. a \in Agreement /\ r \in [0..(a.max_seats - 1) -> Seat] /\ Sound(a, r)
  BY BoxOf
<1>2. seat < a.seats /\ a.state \in Returning /\ amount > 0
  BY DEF ClaimRefund, ClaimRefundPasses, Claimable, Returning
<1>3. a.seats \in Nat /\ a.share_price \in Nat
  BY <1>1 DEF Agreement
<1>4. seat \in Owed(a, r) /\ amount = a.share_price
  BY <1>1, <1>2, <1>3 DEF Owed, Sound, Seating
<1>5. ZeroAmounts(id, {seat}) = q
  BY DEF ZeroAmounts, Zeroed
<1>6. Writes(id, b, q)
  BY <1>5 DEF ClaimRefund, Writes, IInv, TypeOK, Live
<1>7. /\ b.state \in Returning /\ b.seats = a.seats /\ b.min_seats = a.min_seats
      /\ b.share_price = a.share_price /\ b.beneficiary = a.beneficiary
  BY <1>1, <1>2 DEF Agreement
<1>8. usdc' = PaidOut(to, amount)
  BY DEF ClaimRefund
<1> HIDE DEF a, r, b, q, amount
<1>9. amount = a.share_price * Cardinality({seat})
  BY <1>3, <1>4, FS_Singleton
<1>10. \A acct \in Account :
         to[acct] = IF acct \in People(r, {seat}) THEN a.share_price ELSE 0
  BY <1>4 DEF People
<1> HIDE DEF to
<1>11. QED
  BY <1>2, <1>4, <1>6, <1>7, <1>8, <1>9, <1>10, Returns DEF a, r, q

\* close forgets a deal that holds nothing.
LEMMA CloseForgets ==
  ASSUME IInv, NEW id \in Live, Close(id)
  PROVE  Promise!Forget(id)
<1> DEFINE a == agreements[id]
           r == roster[id]
<1>1. /\ a.state \in {"RELEASED", "REFUNDED"} /\ Closable(a)
      /\ agreements' = WithoutBox(agreements, id)
      /\ roster' = WithoutBox(roster, id)
      /\ UNCHANGED <<usdc, agreement_count>>
  BY DEF Close, ClosePasses, Closable
<1>2. a.state = "RELEASED" \/ HeldFor(a, r) = {}
  <2>1. a.state = "RELEASED" \/ Unpaid(id) = {}
    BY <1>1, ClosableOwesNobody
  <2>2. QED
    BY <2>1 DEF Unpaid, Occupied, HeldFor, People, Owed
<1>3. PromiseDeals[id] = DealOf(a, r)
  BY Deals
<1> DEFINE stage == PromiseStage(a.state)
<1>4. DealOf(a, r) = DealAt(a, stage, {}) /\ stage \in {"delivered", "returning"}
  <2> HIDE DEF a, r
  <2>1. QED
    BY <1>1, <1>2 DEF DealOf, PromiseStage
<1> HIDE DEF stage, a, r
<1>5. PromiseDeals[id].stage \in {"delivered", "returning"} /\ PromiseDeals[id].held = {}
  BY <1>3, <1>4, DealFields
<1>6. /\ Live' = Live \ {id} /\ DOMAIN roster = Live
      /\ \A i \in Live \ {id} : agreements'[i] = agreements[i] /\ roster'[i] = roster[i]
  BY <1>1 DEF WithoutBox, Live, IInv, TypeOK
<1>7. PromiseDeals' = [e \in DOMAIN PromiseDeals \ {id} |-> PromiseDeals[e]]
  BY <1>6, Deals
<1>8. QED
  BY <1>1, <1>5, <1>7 DEF Promise!Forget

-----------------------------------------------------------------------------
(* Every behaviour of the escrow is one of the promise.                    *)

\* The application as it is deployed has promised nothing yet.
LEMMA StartsPromise == Init => Promise!Init
<1> SUFFICES ASSUME Init PROVE Promise!Init
  OBVIOUS
<1>1. agreement_count = 0 /\ Live = {}
  BY DEF Init, Live
<1>2. usdc \in [Account \cup {App} -> Nat] /\ usdc[App] = 0
  BY NumberAssumption, AccountAssumption DEF Init
<1>3. PromiseDeals = [d \in {} |-> TRUE]
  BY <1>1, Deals
<1>4. QED
  BY <1>1, <1>2, <1>3 DEF Promise!Init

\* Every step of the escrow is a step of the promise or none.
LEMMA StepsPromise == IInv /\ [Next]_vars => [Promise!Next]_PromiseVars
<1> SUFFICES ASSUME IInv, [Next]_vars PROVE Promise!Next \/ UNCHANGED PromiseVars
  OBVIOUS
<1>1. CASE Administer
  <2>1. ASSUME NEW caller \in Account, NEW o \in Offers, NEW deposit,
               CreateAgreement(caller, o, deposit)
        PROVE  Promise!Next
    BY <2>1, CreateOffers DEF Promise!Next
  <2>2. ASSUME NEW caller \in Account,
               \/ OptInAsset(caller)
               \/ \E new_admin \in Operators \cup {ZeroAddress} :
                    SetAdmin(caller, new_admin)
               \/ \E value \in BOOLEAN : SetPaused(caller, value)
        PROVE  UNCHANGED PromiseVars
    BY <2>2, Stutters DEF OptInAsset, SetAdmin, SetPaused
  <2>3. QED
    BY <1>1, <2>1, <2>2 DEF Administer
<1>2. ASSUME NEW id \in Live, Call(id)
      PROVE  Promise!Next \/ UNCHANGED PromiseVars
  <2>1. id \in DOMAIN PromiseDeals
    BY Deals
  <2>2. ASSUME NEW caller \in Payers, NEW p \in Payments, Join(caller, id, p)
        PROVE  Promise!Next
    BY <2>1, <2>2, JoinFunds, AccountAssumption DEF Promise!Next
  <2>3. ASSUME NEW caller \in Account, NEW h, ReleaseHash(caller, id, h)
        PROVE  Promise!Next
    BY <2>1, <2>3, ReleaseDelivers DEF ReleaseHash, ReleaseHashPasses, Promise!Next
  <2>4. CASE ReleaseQuorum(id)
    BY <2>1, <2>4, ReleaseDelivers DEF ReleaseQuorum, ReleaseQuorumPasses, Promise!Next
  <2>5. ASSUME NEW caller \in Account, Expire(caller, id)
        PROVE  Promise!Next
    BY <2>1, <2>5, ExpireCallsOff DEF Promise!Next
  <2>6. ASSUME NEW count \in 0..(BatchCeiling + 1), RefundNext(id, count)
        PROVE  Promise!Next \/ UNCHANGED PromiseVars
    BY <2>1, <2>6, RefundReturns DEF Promise!Next
  <2>7. ASSUME NEW seat \in 0..SeatsCeiling, ClaimRefund(id, seat)
        PROVE  Promise!Next
    BY <2>1, <2>7, ClaimReturns DEF Promise!Next
  <2>8. CASE Close(id)
    BY <2>1, <2>8, CloseForgets DEF Promise!Next
  <2>9. QED
    BY <1>2, <2>2, <2>3, <2>4, <2>5, <2>6, <2>7, <2>8 DEF Call
<1>3. CASE Environment
  BY <1>3, Stutters DEF Environment, Tick, LoseHolding, RegainHolding, RaiseMinFee
<1>4. CASE UNCHANGED vars
  BY <1>4, Stutters DEF vars, boxVars
<1>5. QED
  BY <1>1, <1>2, <1>3, <1>4 DEF Next

\* Whatever the accounts, the offers and the order of calls, the escrow does
\* to its people only what EscrowPromise allows: all shares to the beneficiary
\* at once, or each back to its payer, once.
THEOREM KeepsPromiseAlways == Spec => KeepsPromise
<1>1. IInv /\ [Next]_vars => [Promise!Next]_(Promise!vars)
  BY StepsPromise DEF PromiseVars, Promise!vars
<1>2. QED
  BY <1>1, StartsPromise, Invariant, PTL DEF Spec, KeepsPromise, Promise!Spec

=============================================================================
