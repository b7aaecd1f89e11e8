--------------------------- MODULE PoolPageProofs ---------------------------
(***************************************************************************)
(* Proofs about PoolPage, for any pools, wallets, blocks and any number of *)
(* effects running at once.                                                *)
(*                                                                         *)
(* That the screen follows the address bar, that what it shows was read    *)
(* for it and that a spinner has its request are one invariant, kept by    *)
(* each event of the machine on its own, whatever effect ends with it and  *)
(* however late.  Its other half is about the effects running: that each   *)
(* says what it is for, since a settlement moves the page to the pool its  *)
(* effect named.                                                           *)
(***************************************************************************)
EXTENDS PoolPage, TLAPS

Fields == {"wallet", "screen", "purchase", "quote", "reading", "circumstances",
           "awaiting", "sending", "finding", "myPools"}

\* What is shown is about the pool on screen and the wallet connected, and
\* the entry screen has no spinner.
Coherent(s) ==
  /\ DOMAIN s = Fields
  /\ s.circumstances # None =>
       s.circumstances.pool = s.screen /\ s.circumstances.wallet = s.wallet
  /\ s.myPools # None => s.myPools = s.wallet
  /\ s.reading => s.screen # None

\* An effect says what it is, a payment what it pays for, a reading for whom.
Tagged(e) ==
  /\ "kind" \in DOMAIN e
  /\ e.kind = "BUILD_AND_SIGN" => "pool" \in DOMAIN e /\ e.pool # None
  /\ e.kind = "READ_POOL" => "pool" \in DOMAIN e /\ "wallet" \in DOMAIN e

\* The effects whose end stops a spinner of state s.
ReadsFor(e, s) == e.kind = "READ_POOL" /\ e.pool = s.screen /\ e.wallet = s.wallet
SeeksFor(e, s) == e.kind = "FIND_MY_POOLS" /\ e.wallet = s.wallet

\* State n spins no more than s did, for the same request.
Calmer(s, n) ==
  /\ n.reading => s.reading /\ n.screen = s.screen /\ n.wallet = s.wallet
  /\ n.finding => s.finding /\ n.wallet = s.wallet

\* A spinner of the result was asked for by it, or was turning in s.
Spins(s, result) ==
  /\ \/ \E e \in result.effects : ReadsFor(e, result.state)
     \/ result.state.reading =>
          s.reading /\ result.state.screen = s.screen /\ result.state.wallet = s.wallet
  /\ \/ \E e \in result.effects : SeeksFor(e, result.state)
     \/ result.state.finding => s.finding /\ result.state.wallet = s.wallet

\* A result of an event in state s: the page stays where it is unless the
\* result names another pool, and then it is that pool that is shown.
Follows(s, result) ==
  /\ Coherent(result.state)
  /\ result.path = None => result.state.screen = s.screen
  /\ result.path # None => result.state.screen = result.path
  /\ \A e \in result.effects : Tagged(e)
  /\ Spins(s, result)

\* A task whose end is the end of what it was asked for.
Stops(t, s, n) ==
  /\ ReadsFor(t, s) => ~n.reading
  /\ SeeksFor(t, s) => ~n.finding

\* A task is the same one with other fields changed.
SameTask(t, to) ==
  /\ DOMAIN to = DOMAIN t
  /\ \A f \in DOMAIN t \cap {"kind", "pool", "wallet"} : to[f] = t[f]

IInv ==
  /\ Coherent(state)
  /\ url = state.screen
  /\ \A t \in BagToSet(tasks) : Tagged(t)
  /\ IsABag(tasks)
  /\ state.reading => \E t \in BagToSet(tasks) : ReadsFor(t, state)
  /\ state.finding => \E t \in BagToSet(tasks) : SeeksFor(t, state)

-----------------------------------------------------------------------------
(* The events of the machine.                                              *)

\* An event that is not heard.
LEMMA OnlyFollows ==
  ASSUME NEW s, NEW n, Coherent(n), n.screen = s.screen, Calmer(s, n)
  PROVE  Follows(s, Only(n))
BY DEF Follows, Only, Result, Spins, Calmer

\* readPool changes no more than the spinner, and asks for readings.
LEMMA ReadAsks ==
  ASSUME NEW n, Coherent(n)
  PROVE  /\ Coherent(readPool(n).state)
         /\ readPool(n).path = None
         /\ DOMAIN readPool(n) = {"state", "effects", "path"}
         /\ readPool(n).state.screen = n.screen
         /\ readPool(n).state.wallet = n.wallet
         /\ readPool(n).state.finding = n.finding
         /\ \A e \in readPool(n).effects : Tagged(e)
         /\ readPool(n).state.reading =>
              \E e \in readPool(n).effects : ReadsFor(e, readPool(n).state)
<1> DEFINE m == [n EXCEPT !.reading = @ \/ n.screen # None]
           asked == {ReadEffect(n, pool) : pool \in PoolsToRead(n)}
<1>1. /\ Coherent(m) /\ m.screen = n.screen /\ m.wallet = n.wallet
      /\ m.finding = n.finding
  BY DEF Coherent, Fields
<1>2. m.reading => n.screen # None
  BY DEF Coherent, Fields
<1>3. \A e \in asked : Tagged(e)
  BY DEF ReadEffect, Tagged
<1>4. n.screen # None => n.screen \in PoolsToRead(n)
  BY DEF PoolsToRead
<1>5. ReadsFor(ReadEffect(n, n.screen), n)
  BY DEF ReadEffect, ReadsFor
<1>6. readPool(n) = Result(m, asked, None)
  BY DEF readPool
<1> HIDE DEF m
<1>7. n.screen # None => \E e \in asked : ReadsFor(e, m)
  <2>1. ReadsFor(ReadEffect(n, n.screen), m)
    BY <1>1, <1>5 DEF ReadsFor
  <2>2. QED
    BY <1>4, <2>1
<1> HIDE DEF asked
<1>8. QED
  BY <1>1, <1>2, <1>3, <1>6, <1>7 DEF Result

\* So it may end any event that leaves the page where it is.
LEMMA ReadFollows ==
  ASSUME NEW s, NEW n, Coherent(n), n.screen = s.screen,
         n.finding => s.finding /\ n.wallet = s.wallet
  PROVE  Follows(s, readPool(n))
BY ReadAsks DEF Follows, Spins

\* Moving on to another pool leaves nothing of the last one on screen.
LEMMA ShowingCoherent ==
  ASSUME NEW s, Coherent(s), NEW pool
  PROVE  /\ Coherent(showing(s, pool)) /\ showing(s, pool).screen = pool
         /\ showing(s, pool).wallet = s.wallet
         /\ showing(s, pool).finding = s.finding
<1>1. CASE s.screen = pool
  BY <1>1 DEF showing
<1>2. CASE s.screen # pool
  BY <1>2 DEF showing, withoutPool, Coherent, Fields
<1>3. QED
  BY <1>1, <1>2

\* The buyer opens a pool.
LEMMA OpenedPoolCoherent ==
  ASSUME NEW s, Coherent(s), NEW pool
  PROVE  /\ Coherent(OpenedPool(s, pool).state)
         /\ OpenedPool(s, pool).state.screen = pool
         /\ OpenedPool(s, pool).state.wallet = s.wallet
         /\ OpenedPool(s, pool).state.finding = s.finding
         /\ OpenedPool(s, pool).state.reading =>
              \E e \in OpenedPool(s, pool).effects :
                ReadsFor(e, OpenedPool(s, pool).state)
         /\ \A e \in OpenedPool(s, pool).effects : Tagged(e)
<1> DEFINE n == showing(s, pool)
<1>1. Coherent(n) /\ n.screen = pool /\ n.wallet = s.wallet /\ n.finding = s.finding
  BY ShowingCoherent
<1>2. OpenedPool(s, pool) = readPool(n)
  BY DEF OpenedPool
<1> HIDE DEF n
<1>3. QED
  BY <1>1, <1>2, ReadAsks

\* Or goes back to the entry screen.
LEMMA OpenedEntryCoherent ==
  ASSUME NEW s, Coherent(s)
  PROVE  /\ Coherent(OpenedEntry(s).state)
         /\ OpenedEntry(s).state.screen = None
         /\ OpenedEntry(s).state.wallet = s.wallet
         /\ OpenedEntry(s).state.finding = s.finding
         /\ ~OpenedEntry(s).state.reading
         /\ OpenedEntry(s).effects = {}
BY DEF OpenedEntry, withoutPool, Only, Result, Coherent, Fields

\* WALLET_CONNECTED and WALLET_DISCONNECTED drop what was read for another.
LEMMA WalletFollows ==
  ASSUME NEW s, Coherent(s), NEW wallet
  PROVE  Follows(s, WalletIs(s, wallet))
<1> DEFINE n == [s EXCEPT !.wallet = wallet, !.circumstances = None,
                          !.myPools = None, !.finding = FALSE]
<1>1. Coherent(n) /\ n.screen = s.screen /\ ~n.finding
  BY DEF Coherent, Fields
<1> HIDE DEF n
<1>2. Follows(s, readPool(n)) /\ Follows(s, Only(s))
  BY <1>1, ReadFollows, OnlyFollows DEF Calmer
<1>3. QED
  BY <1>2 DEF WalletIs, n

\* A 402 takes the page to the pool it names.
LEMMA QuoteFollows ==
  ASSUME NEW s, Coherent(s), NEW pool, pool # None
  PROVE  Follows(s, QuoteReceived(s, pool))
<1> DEFINE m == [s EXCEPT !.purchase = "CONFIRM", !.quote = pool]
           next == showing(m, pool)
<1>1. /\ Coherent(m) /\ m.screen = s.screen /\ m.wallet = s.wallet
      /\ m.finding = s.finding /\ m.reading = s.reading
  BY DEF Coherent, Fields
<1>2. /\ Coherent(next) /\ next.screen = pool /\ next.wallet = s.wallet
      /\ next.finding = s.finding
  BY <1>1, ShowingCoherent
<1>3. CASE s.purchase # "QUOTING"
  BY <1>3, OnlyFollows DEF QuoteReceived, Calmer
<1>4. CASE s.purchase = "QUOTING" /\ s.screen = pool
  <2>1. QuoteReceived(s, pool) = Result(next, {}, pool)
    BY <1>4 DEF QuoteReceived
  <2>2. next = m
    BY <1>1, <1>4 DEF showing
  <2> HIDE DEF m, next
  <2>3. QED
    BY <1>1, <1>2, <1>4, <2>1, <2>2 DEF Follows, Spins, Result
<1>5. CASE s.purchase = "QUOTING" /\ s.screen # pool
  <2> DEFINE read == readPool(next)
  <2>1. QuoteReceived(s, pool) = [read EXCEPT !.path = pool]
    BY <1>5 DEF QuoteReceived
  <2> HIDE DEF m, next
  <2>2. /\ Coherent(read.state) /\ read.state.screen = pool
        /\ read.state.wallet = s.wallet /\ read.state.finding = s.finding
        /\ DOMAIN read = {"state", "effects", "path"}
        /\ \A e \in read.effects : Tagged(e)
        /\ read.state.reading => \E e \in read.effects : ReadsFor(e, read.state)
    BY <1>2, ReadAsks
  <2> HIDE DEF read
  <2>3. QED
    BY <2>1, <2>2 DEF Follows, Spins
<1>6. QED
  BY <1>3, <1>4, <1>5

\* A settlement takes it to the pool that was paid for.
LEMMA SettledFollows ==
  ASSUME NEW s, Coherent(s), NEW pool, pool # None
  PROVE  Follows(s, Settled(s, pool))
<1> DEFINE m == showing(s, pool)
           n == [m EXCEPT !.purchase = "IDLE", !.quote = None, !.awaiting = pool]
           read == readPool(n)
<1>1. /\ Coherent(m) /\ m.screen = pool /\ m.wallet = s.wallet
      /\ m.finding = s.finding
  BY ShowingCoherent
<1> HIDE DEF m
<1>2. /\ Coherent(n) /\ n.screen = pool /\ n.wallet = s.wallet
      /\ n.finding = s.finding
  BY <1>1 DEF Coherent, Fields
<1> HIDE DEF n
<1>3. /\ Coherent(read.state) /\ read.state.screen = pool /\ read.path = None
      /\ read.state.wallet = s.wallet /\ read.state.finding = s.finding
      /\ DOMAIN read = {"state", "effects", "path"}
      /\ \A e \in read.effects : Tagged(e)
      /\ read.state.reading => \E e \in read.effects : ReadsFor(e, read.state)
  BY <1>2, ReadAsks
<1>4. Settled(s, pool) =
        IF s.screen = pool THEN read ELSE [read EXCEPT !.path = pool]
  BY DEF Settled, intoPaidPool, m, n
<1> HIDE DEF read
<1>5. QED
  BY <1>3, <1>4 DEF Follows, Spins

\* The rest of a purchase leaves the page where it is.
LEMMA BuyingFollows ==
  ASSUME NEW s, Coherent(s)
  PROVE  /\ Follows(s, QuoteRequested(s)) /\ Follows(s, QuoteRefused(s))
         /\ Follows(s, QuoteFailed(s)) /\ Follows(s, BuyRequested(s))
         /\ Follows(s, QuoteVerified(s)) /\ Follows(s, QuoteStale(s))
         /\ Follows(s, QuoteUnverifiable(s)) /\ Follows(s, SettleFailed(s))
<1> DEFINE to(purchase) == [s EXCEPT !.purchase = purchase]
           without(purchase) == [s EXCEPT !.purchase = purchase, !.quote = None]
           same(n) == Coherent(n) /\ n.screen = s.screen /\ Calmer(s, n)
<1>1. \A purchase : same(to(purchase)) /\ same(without(purchase))
  BY DEF Coherent, Fields, Calmer
<1> HIDE DEF to, without
<1>2. Follows(s, Only(s))
  BY OnlyFollows DEF Calmer
<1>3. \A purchase : Follows(s, Only(to(purchase))) /\ Follows(s, Only(without(purchase)))
  BY <1>1, OnlyFollows
<1>4. Follows(s, QuoteRequested(s))
  <2>1. Tagged([kind |-> "REQUEST_QUOTE"])
    BY DEF Tagged
  <2>2. Follows(s, Result(without("QUOTING"), {[kind |-> "REQUEST_QUOTE"]}, None))
    BY <1>1, <2>1 DEF Follows, Result, Spins, Calmer
  <2>3. QED
    BY <1>2, <2>2 DEF QuoteRequested, without
<1>5. Follows(s, BuyRequested(s))
  <2> DEFINE e == [kind |-> "VERIFY_QUOTE", pool |-> s.quote]
  <2>1. Tagged(e)
    BY DEF Tagged
  <2> HIDE DEF e
  <2>2. Follows(s, Result(to("CHECKING"), {e}, None))
    BY <1>1, <2>1 DEF Follows, Result, Spins, Calmer
  <2>3. QED
    BY <1>2, <2>2 DEF BuyRequested, to, e
<1>6. Follows(s, QuoteVerified(s))
  <2> DEFINE e == [kind |-> "BUILD_AND_SIGN", pool |-> s.quote]
  <2>1. s.quote # None => Tagged(e)
    BY DEF Tagged
  <2> HIDE DEF e
  <2>2. s.quote # None => Follows(s, Result(to("SETTLING"), {e}, None))
    BY <1>1, <2>1 DEF Follows, Result, Spins, Calmer
  <2>3. QED
    BY <1>2, <2>2 DEF QuoteVerified, to, e
<1>7. Follows(s, QuoteUnverifiable(s))
  BY <1>2, <1>3 DEF QuoteUnverifiable, to
<1>8. /\ Follows(s, QuoteRefused(s)) /\ Follows(s, QuoteFailed(s))
      /\ Follows(s, QuoteStale(s)) /\ Follows(s, SettleFailed(s))
  <2>1. Follows(s, Only(without("IDLE"))) /\ Follows(s, Only(without("UNAVAILABLE")))
    BY <1>3
  <2>2. QED
    BY <1>2, <2>1 DEF QuoteRefused, QuoteFailed, QuoteStale, SettleFailed, without
<1>9. QED
  BY <1>4, <1>5, <1>6, <1>7, <1>8

\* An answered reading is shown only where and for whom it was made.
LEMMA ReadingFollows ==
  ASSUME NEW s, Coherent(s), NEW c, NEW finalFor
  PROVE  /\ Follows(s, ReadReceived(s, c, finalFor))
         /\ c.pool = s.screen /\ c.wallet = s.wallet =>
              ~ReadReceived(s, c, finalFor).state.reading
<1> DEFINE base == Released(s, c.pool, finalFor)
           resolved == c.pool = s.awaiting /\ (HasSeat(c) \/ c.record = None)
           n == [base EXCEPT !.reading = FALSE, !.circumstances = c,
                             !.awaiting = IF resolved THEN None ELSE @]
<1>1. Coherent(base) /\ base.screen = s.screen /\ base.wallet = s.wallet /\ Calmer(s, base)
  BY DEF Released, Coherent, Fields, Calmer
<1> HIDE DEF base, resolved
<1>2. /\ ~n.reading /\ n.screen = s.screen /\ Calmer(s, n)
      /\ c.wallet = s.wallet /\ c.pool = s.screen => Coherent(n)
  BY <1>1 DEF Coherent, Fields, Calmer
<1> HIDE DEF n
<1>3. ReadReceived(s, c, finalFor) =
        IF ~forWallet(s, c.wallet) THEN Only(s)
        ELSE IF c.pool # s.screen THEN Only(base) ELSE Only(n)
  BY DEF ReadReceived, base, resolved, n
<1>4. Follows(s, Only(s)) /\ Follows(s, Only(base))
  BY <1>1, OnlyFollows DEF Calmer
<1>5. c.wallet = s.wallet /\ c.pool = s.screen => Follows(s, Only(n))
  BY <1>2, OnlyFollows
<1>6. Only(n).state = n
  BY DEF Only, Result
<1>7. QED
  BY <1>2, <1>3, <1>4, <1>5, <1>6 DEF forWallet

\* A reading that failed stops the spinner and shows nothing.
LEMMA ReadFailedFollows ==
  ASSUME NEW s, Coherent(s), NEW pool, NEW wallet
  PROVE  /\ Follows(s, ReadFailed(s, pool, wallet))
         /\ pool = s.screen /\ wallet = s.wallet =>
              ~ReadFailed(s, pool, wallet).state.reading
<1> DEFINE n == [s EXCEPT !.reading = FALSE]
<1>1. Coherent(n) /\ n.screen = s.screen /\ ~n.reading /\ Calmer(s, n)
  BY DEF Coherent, Fields, Calmer
<1> HIDE DEF n
<1>2. Follows(s, Only(s)) /\ Follows(s, Only(n)) /\ Only(n).state = n
  BY <1>1, OnlyFollows DEF Calmer, Only, Result
<1>3. QED
  BY <1>1, <1>2 DEF ReadFailed, forWallet, n

\* Calls concern only the lock.
LEMMA ActingFollows ==
  ASSUME NEW s, Coherent(s), NEW action, NEW pool, NEW call
  PROVE  /\ Follows(s, ActionRequested(s, action))
         /\ Follows(s, ActionEnded(s, action, pool))
         /\ Follows(s, ActionUnconfirmed(s, action, pool, call))
<1> DEFINE holds(lock) == [s EXCEPT !.sending = lock]
           n == [s EXCEPT !.sending.call = call]
           same(m) == Coherent(m) /\ m.screen = s.screen /\ Calmer(s, m)
<1>1. \A lock : same(holds(lock))
  BY DEF Coherent, Fields, Calmer
<1>2. same(n)
  BY DEF Coherent, Fields, Calmer
<1> HIDE DEF holds, n
<1>3. Follows(s, Only(s)) /\ \A lock : Follows(s, Only(holds(lock)))
  BY <1>1, OnlyFollows DEF Calmer
<1>4. Follows(s, readPool(n)) /\ \A lock : Follows(s, readPool(holds(lock)))
  BY <1>1, <1>2, ReadFollows DEF Calmer
<1>5. Follows(s, ActionRequested(s, action))
  <2> DEFINE e == [kind |-> "SEND_ACTION", action |-> action, pool |-> s.screen]
             lock == [action |-> action, pool |-> s.screen, call |-> None]
  <2>1. Tagged(e)
    BY DEF Tagged
  <2> HIDE DEF e, lock
  <2>2. Follows(s, Result(holds(lock), {e}, None))
    BY <1>1, <2>1 DEF Follows, Result, Spins, Calmer
  <2>3. QED
    BY <1>3, <2>2 DEF ActionRequested, holds, e, lock
<1>6. QED
  BY <1>3, <1>4, <1>5 DEF ActionEnded, ActionUnconfirmed, holds, n

\* The list of pools is kept only for the wallet it was asked for.
LEMMA FindingFollows ==
  ASSUME NEW s, Coherent(s), NEW wallet
  PROVE  /\ Follows(s, MyPoolsRequested(s))
         /\ Follows(s, MyPoolsFound(s, wallet))
         /\ Follows(s, MyPoolsUnavailable(s, wallet))
         /\ wallet = s.wallet => /\ ~MyPoolsFound(s, wallet).state.finding
                                 /\ ~MyPoolsUnavailable(s, wallet).state.finding
<1> DEFINE asking == [s EXCEPT !.finding = TRUE]
           stopped == [s EXCEPT !.finding = FALSE]
           found == [s EXCEPT !.finding = FALSE, !.myPools = wallet]
           e == [kind |-> "FIND_MY_POOLS", wallet |-> s.wallet]
<1>1. /\ Coherent(asking) /\ asking.screen = s.screen /\ asking.wallet = s.wallet
      /\ asking.reading = s.reading
  BY DEF Coherent, Fields
<1>2. /\ Coherent(stopped) /\ stopped.screen = s.screen /\ ~stopped.finding
      /\ Calmer(s, stopped)
  BY DEF Coherent, Fields, Calmer
<1>3. /\ found.screen = s.screen /\ ~found.finding /\ Calmer(s, found)
      /\ wallet = s.wallet => Coherent(found)
  BY DEF Coherent, Fields, Calmer
<1>4. Tagged(e) /\ SeeksFor(e, s)
  BY DEF Tagged, SeeksFor
<1> HIDE DEF asking, stopped, found, e
<1>5. Follows(s, Result(asking, {e}, None))
  BY <1>1, <1>4 DEF Follows, Result, Spins, SeeksFor
<1>6. /\ Follows(s, Only(s)) /\ Follows(s, Only(stopped))
      /\ wallet = s.wallet => Follows(s, Only(found))
      /\ Only(stopped).state = stopped /\ Only(found).state = found
  BY <1>2, <1>3, OnlyFollows DEF Calmer, Only, Result
<1>7. Follows(s, MyPoolsRequested(s))
  BY <1>5, <1>6 DEF MyPoolsRequested, asking, e
<1>8. QED
  BY <1>2, <1>3, <1>6, <1>7 DEF MyPoolsFound, MyPoolsUnavailable, stopped, found
-----------------------------------------------------------------------------
(* The page around the machine.                                            *)

\* An effect keeps its name, and what it is for, as it begins.
LEMMA BegunTagged ==
  ASSUME NEW e, Tagged(e)
  PROVE  /\ Tagged(Begun(e))
         /\ \A s : /\ ReadsFor(e, s) => ReadsFor(Begun(e), s)
                   /\ SeeksFor(e, s) => SeeksFor(Begun(e), s)
BY DEF Begun, Tagged, ReadsFor, SeeksFor

\* Adding to a bag brings in what is added and no more.
LEMMA Added ==
  ASSUME NEW b, IsABag(b), NEW c, IsABag(c), NEW e
  PROVE  /\ BagToSet(b (+) c) = BagToSet(b) \cup BagToSet(c)
         /\ IsABag(b (+) c)
         /\ BagToSet(BagAdd(b, e)) = BagToSet(b) \cup {e}
         /\ IsABag(BagAdd(b, e))
<1>1. /\ \A x \in DOMAIN b : b[x] \in Nat /\ b[x] > 0
      /\ \A x \in DOMAIN c : c[x] \in Nat /\ c[x] > 0
  BY DEF IsABag
<1>2. BagToSet(b (+) c) = BagToSet(b) \cup BagToSet(c)
  BY DEF BagToSet, (+)
<1>3. IsABag(b (+) c)
  BY <1>1 DEF IsABag, (+)
<1>4. BagToSet(BagAdd(b, e)) = BagToSet(b) \cup {e}
  BY DEF BagToSet, BagAdd
<1>5. IsABag(BagAdd(b, e))
  BY <1>1 DEF IsABag, BagAdd
<1>6. QED
  BY <1>2, <1>3, <1>4, <1>5

\* Taking from a bag leaves what is not taken.
LEMMA Taken ==
  ASSUME NEW b, IsABag(b), NEW c, IsABag(c), NEW e
  PROVE  /\ BagToSet(b (-) c) \subseteq BagToSet(b)
         /\ BagToSet(b) \ BagToSet(c) \subseteq BagToSet(b (-) c)
         /\ IsABag(b (-) c)
         /\ BagToSet(BagRemove(b, e)) \subseteq BagToSet(b)
         /\ BagToSet(b) \ {e} \subseteq BagToSet(BagRemove(b, e))
         /\ IsABag(BagRemove(b, e))
<1>1. /\ \A x \in DOMAIN b : b[x] \in Nat /\ b[x] > 0
      /\ \A x \in DOMAIN c : c[x] \in Nat /\ c[x] > 0
  BY DEF IsABag
<1>2. BagToSet(b (-) c) \subseteq BagToSet(b)
  BY DEF BagToSet, (-)
<1>3. BagToSet(b) \ BagToSet(c) \subseteq BagToSet(b (-) c)
  BY <1>1 DEF BagToSet, (-)
<1>4. IsABag(b (-) c)
  BY <1>1 DEF IsABag, (-)
<1>5. BagToSet(BagRemove(b, e)) \subseteq BagToSet(b)
  BY DEF BagToSet, BagRemove
<1>6. BagToSet(b) \ {e} \subseteq BagToSet(BagRemove(b, e))
  BY DEF BagToSet, BagRemove
<1>7. IsABag(BagRemove(b, e))
  BY <1>1 DEF IsABag, BagRemove
<1>8. QED
  BY <1>2, <1>3, <1>4, <1>5, <1>6, <1>7

\* A set is a bag of its members.
LEMMA OnceEach ==
  ASSUME NEW S
  PROVE  IsABag(SetToBag(S)) /\ BagToSet(SetToBag(S)) = S
BY DEF IsABag, SetToBag, BagToSet

\* Effects begun are named when what asked for them was.
LEMMA BegunAllTagged ==
  ASSUME NEW effects, \A e \in effects : Tagged(e)
  PROVE  /\ IsABag(BegunAll(effects))
         /\ \A t \in BagToSet(BegunAll(effects)) : Tagged(t)
<1>1. /\ BagToSet(BegunAll(effects)) = {Begun(e) : e \in effects}
      /\ IsABag(BegunAll(effects))
  BY OnceEach DEF BegunAll
<1>2. QED
  BY <1>1, BegunTagged

\* And they are for the same.
LEMMA BegunAllFor ==
  ASSUME NEW effects, \A e \in effects : Tagged(e), NEW s
  PROVE  /\ (\E e \in effects : ReadsFor(e, s)) =>
              \E t \in BagToSet(BegunAll(effects)) : ReadsFor(t, s)
         /\ (\E e \in effects : SeeksFor(e, s)) =>
              \E t \in BagToSet(BegunAll(effects)) : SeeksFor(t, s)
<1>1. BagToSet(BegunAll(effects)) = {Begun(e) : e \in effects}
  BY OnceEach DEF BegunAll
<1>2. QED
  BY <1>1, BegunTagged

\* Nothing asked for is forgotten by a dispatch, and the address bar and the
\* machine stay together through it.
LEMMA DispatchKeeps ==
  ASSUME IInv, NEW done, IsABag(done), NEW result, Follows(state, result),
         \A t \in BagToSet(done) : Stops(t, state, result.state),
         Dispatch(done, result)
  PROVE  IInv'
<1> DEFINE moves == result.path \notin {None, url}
           opened == IF moves THEN OpenedPool(result.state, result.path)
                              ELSE Only(result.state)
           asked == BegunAll(result.effects)
           shown == BegunAll(opened.effects)
           left == tasks (-) done
           both == left (+) asked
<1>1. /\ state' = opened.state
      /\ url' = IF moves THEN result.path ELSE url
      /\ tasks' = both (+) shown
  BY DEF Dispatch
<1>2. /\ Coherent(opened.state)
      /\ opened.state.screen = IF moves THEN result.path ELSE url
      /\ \A e \in opened.effects : Tagged(e)
      /\ \/ \E e \in opened.effects : ReadsFor(e, opened.state)
         \/ ~opened.state.reading
         \/ opened.state = result.state
      /\ opened.state.finding = result.state.finding
      /\ opened.state.wallet = result.state.wallet
  <2>1. CASE moves
    BY <2>1, OpenedPoolCoherent DEF Follows
  <2>2. CASE ~moves
    BY <2>2 DEF Follows, Only, Result, IInv
  <2>3. QED
    BY <2>1, <2>2
<1>3. /\ IsABag(asked) /\ IsABag(shown)
      /\ \A t \in BagToSet(asked) \cup BagToSet(shown) : Tagged(t)
      /\ \A s : /\ (\E e \in result.effects : ReadsFor(e, s)) =>
                     \E t \in BagToSet(asked) : ReadsFor(t, s)
                /\ (\E e \in result.effects : SeeksFor(e, s)) =>
                     \E t \in BagToSet(asked) : SeeksFor(t, s)
                /\ (\E e \in opened.effects : ReadsFor(e, s)) =>
                     \E t \in BagToSet(shown) : ReadsFor(t, s)
  <2>1. \A e \in result.effects : Tagged(e)
    BY DEF Follows
  <2> HIDE DEF opened
  <2>2. QED
    BY <1>2, <2>1, BegunAllTagged, BegunAllFor
<1>4. /\ IsABag(left)
      /\ BagToSet(left) \subseteq BagToSet(tasks)
      /\ BagToSet(tasks) \ BagToSet(done) \subseteq BagToSet(left)
  BY Taken DEF IInv
<1> HIDE DEF moves, opened, left, asked, shown
<1>5. IsABag(both) /\ BagToSet(both) = BagToSet(left) \cup BagToSet(asked)
  BY <1>3, <1>4, Added
<1> HIDE DEF both
<1>6. /\ IsABag(tasks')
      /\ BagToSet(tasks') = BagToSet(left) \cup BagToSet(asked) \cup BagToSet(shown)
  BY <1>1, <1>3, <1>5, Added
<1>7. \A t \in BagToSet(tasks') : Tagged(t)
  BY <1>3, <1>4, <1>6 DEF IInv
<1>8. ASSUME state'.reading PROVE \E t \in BagToSet(tasks') : ReadsFor(t, state')
  <2>1. CASE \E e \in opened.effects : ReadsFor(e, opened.state)
    BY <1>1, <1>3, <1>6, <2>1
  <2>2. CASE \E e \in result.effects : ReadsFor(e, result.state) /\ opened.state = result.state
    BY <1>1, <1>3, <1>6, <2>2
  <2>3. CASE /\ opened.state = result.state /\ result.state.reading /\ state.reading
             /\ result.state.screen = state.screen /\ result.state.wallet = state.wallet
    <3>1. PICK t \in BagToSet(tasks) : ReadsFor(t, state)
      BY <2>3 DEF IInv
    <3>2. t \notin BagToSet(done)
      BY <2>3, <3>1 DEF Stops
    <3>3. ReadsFor(t, state')
      BY <1>1, <2>3, <3>1 DEF ReadsFor
    <3>4. QED
      BY <1>4, <1>6, <3>1, <3>2, <3>3
  <2>4. QED
    BY <1>1, <1>2, <1>8, <2>1, <2>2, <2>3 DEF Follows, Spins
<1>9. ASSUME state'.finding PROVE \E t \in BagToSet(tasks') : SeeksFor(t, state')
  <2>1. \A t : SeeksFor(t, state') <=> SeeksFor(t, result.state)
    BY <1>1, <1>2 DEF SeeksFor
  <2>2. CASE \E e \in result.effects : SeeksFor(e, result.state)
    BY <1>3, <1>6, <2>1, <2>2
  <2>3. CASE /\ result.state.finding /\ state.finding
             /\ result.state.wallet = state.wallet
    <3>1. PICK t \in BagToSet(tasks) : SeeksFor(t, state)
      BY <2>3 DEF IInv
    <3>2. t \notin BagToSet(done)
      BY <2>3, <3>1 DEF Stops
    <3>3. SeeksFor(t, state')
      BY <2>1, <2>3, <3>1 DEF SeeksFor
    <3>4. QED
      BY <1>4, <1>6, <3>1, <3>2, <3>3
  <2>4. QED
    BY <1>1, <1>2, <1>9, <2>2, <2>3 DEF Follows, Spins
<1>10. url' = state'.screen
  BY <1>1, <1>2
<1>11. QED
  BY <1>1, <1>2, <1>6, <1>7, <1>8, <1>9, <1>10 DEF IInv

\* A task that ends.
LEMMA EndsKeeps ==
  ASSUME IInv, NEW t, NEW result, Follows(state, result),
         Stops(t, state, result.state), Ends(t, result)
  PROVE  IInv'
BY DispatchKeeps, OnceEach DEF Ends

\* An event of the user or a timer, ending none.
LEMMA IdleKeeps ==
  ASSUME IInv, NEW result, Follows(state, result), Idle(result)
  PROVE  IInv'
BY DispatchKeeps, OnceEach DEF Idle, EmptyBag

\* A task that goes on as another, or does not.
LEMMA Replaced ==
  ASSUME IInv, NEW t, NEW to, Tagged(to),
         ReadsFor(t, state) => ReadsFor(to, state), ~SeeksFor(t, state),
         tasks' = BagAdd(BagRemove(tasks, t), to), UNCHANGED <<state, url>>
  PROVE  IInv'
<1> DEFINE left == BagRemove(tasks, t)
<1>1. /\ IsABag(left) /\ BagToSet(left) \subseteq BagToSet(tasks)
      /\ BagToSet(tasks) \ {t} \subseteq BagToSet(left)
  BY Taken DEF IInv
<1> HIDE DEF left
<1>2. IsABag(tasks') /\ BagToSet(tasks') = BagToSet(left) \cup {to}
  BY <1>1, Added DEF left
<1>3. \A x \in BagToSet(tasks') : Tagged(x)
  BY <1>1, <1>2 DEF IInv
<1>4. state.reading => \E x \in BagToSet(tasks') : ReadsFor(x, state)
  BY <1>1, <1>2 DEF IInv
<1>5. state.finding => \E x \in BagToSet(tasks') : SeeksFor(x, state)
  BY <1>1, <1>2 DEF IInv
<1>6. QED
  BY <1>2, <1>3, <1>4, <1>5 DEF IInv, ReadsFor, SeeksFor

\* A step that leaves the page alone.
LEMMA PageKept ==
  ASSUME IInv, UNCHANGED pageVars
  PROVE  IInv'
BY DEF pageVars, IInv, ReadsFor, SeeksFor

\* A task that goes on under the same name, for the same pool and wallet.
LEMMA GoesOnKeeps ==
  ASSUME IInv, NEW t \in BagToSet(tasks), t.kind # "FIND_MY_POOLS", NEW to,
         Goes(t, to), SameTask(t, to)
  PROVE  IInv'
<1>1. Tagged(t)
  BY DEF IInv
<1>2. Tagged(to)
  BY <1>1 DEF Tagged, SameTask
<1>3. ReadsFor(t, state) => ReadsFor(to, state)
  BY <1>1 DEF Tagged, ReadsFor, SameTask
<1>4. QED
  BY <1>2, <1>3, Replaced DEF Goes, SeeksFor

\* The page as it is loaded.
LEMMA InitKeeps == Init => IInv
<1> SUFFICES ASSUME Init PROVE IInv
  OBVIOUS
<1>1. PICK pool \in Pool \cup {None} :
        LET mounted == IF pool = None THEN OpenedEntry(initialState)
                                      ELSE OpenedPool(initialState, pool)
        IN  url = pool /\ state = mounted.state /\ tasks = BegunAll(mounted.effects)
  BY DEF Init
<1> DEFINE mounted == IF pool = None THEN OpenedEntry(initialState)
                                     ELSE OpenedPool(initialState, pool)
<1>2. Coherent(initialState) /\ ~initialState.finding
  BY DEF Coherent, Fields, initialState
<1>3. /\ Coherent(mounted.state) /\ mounted.state.screen = pool
      /\ \A e \in mounted.effects : Tagged(e)
      /\ ~mounted.state.finding
      /\ mounted.state.reading =>
           \E e \in mounted.effects : ReadsFor(e, mounted.state)
  BY <1>2, OpenedPoolCoherent, OpenedEntryCoherent
<1>4. url = pool /\ state = mounted.state /\ tasks = BegunAll(mounted.effects)
  BY <1>1
<1> HIDE DEF mounted
<1>5. /\ IsABag(tasks) /\ \A t \in BagToSet(tasks) : Tagged(t)
      /\ state.reading => \E t \in BagToSet(tasks) : ReadsFor(t, state)
  BY <1>3, <1>4, BegunAllTagged, BegunAllFor
<1>6. QED
  BY <1>3, <1>4, <1>5 DEF IInv

\* The user, the wallet layer and the timer.
LEMMA UserKeeps ==
  ASSUME IInv, User \/ WalletSeen \/ Refresh
  PROVE  IInv'
<1>1. Coherent(state)
  BY DEF IInv
<1>2. ASSUME NEW pool \in Pool \cup {None}, Open(pool) PROVE IInv'
  <2> DEFINE result == IF pool = None THEN OpenedEntry(state) ELSE OpenedPool(state, pool)
             begun == BegunAll(result.effects)
  <2>1. url' = pool /\ state' = result.state /\ tasks' = tasks (+) begun
    BY <1>2 DEF Open
  <2>2. /\ Coherent(result.state) /\ result.state.screen = pool
        /\ result.state.wallet = state.wallet /\ result.state.finding = state.finding
        /\ \A e \in result.effects : Tagged(e)
        /\ result.state.reading =>
             \E e \in result.effects : ReadsFor(e, result.state)
    <3>1. CASE pool = None
      BY <1>1, <3>1, OpenedEntryCoherent
    <3>2. CASE pool # None
      BY <1>1, <3>2, OpenedPoolCoherent
    <3>3. QED
      BY <3>1, <3>2
  <2> HIDE DEF result
  <2>3. /\ IsABag(begun) /\ \A t \in BagToSet(begun) : Tagged(t)
        /\ result.state.reading => \E t \in BagToSet(begun) : ReadsFor(t, result.state)
    BY <2>2, BegunAllTagged, BegunAllFor
  <2> HIDE DEF begun
  <2>4. IsABag(tasks') /\ BagToSet(tasks') = BagToSet(tasks) \cup BagToSet(begun)
    BY <2>1, <2>3, Added DEF IInv
  <2>5. state'.finding => \E t \in BagToSet(tasks') : SeeksFor(t, state')
    BY <2>1, <2>2, <2>4 DEF IInv, SeeksFor
  <2>6. QED
    BY <2>1, <2>2, <2>3, <2>4, <2>5 DEF IInv
<1>3. CASE AskQuote
  BY <1>1, <1>3, IdleKeeps, BuyingFollows DEF AskQuote
<1>4. CASE Buy
  BY <1>1, <1>4, IdleKeeps, BuyingFollows DEF Buy
<1>5. CASE Act
  BY <1>1, <1>5, IdleKeeps, ActingFollows DEF Act
<1>6. CASE FindSeats
  BY <1>1, <1>6, IdleKeeps, FindingFollows DEF FindSeats
<1>7. ASSUME NEW wallet, ChangeWallet(wallet) PROVE IInv'
  BY <1>7, PageKept DEF ChangeWallet
<1>8. CASE WalletSeen
  BY <1>1, <1>8, IdleKeeps, WalletFollows DEF WalletSeen
<1>9. CASE Refresh
  BY <1>1, <1>9, IdleKeeps, ReadFollows DEF Refresh
<1>10. QED
  BY <1>2, <1>3, <1>4, <1>5, <1>6, <1>7, <1>8, <1>9 DEF User

\* Reading a pool: its two requests, and how it ends.
LEMMA ReadingKeeps ==
  ASSUME IInv, NEW t \in Running("READ_POOL"),
         ReadBoxes(t) \/ transactionFate(t) \/ ReadAnswered(t) \/ ReadFails(t)
  PROVE  IInv'
<1>1. t \in BagToSet(tasks) /\ t.kind = "READ_POOL" /\ Coherent(state)
  BY DEF Running, IInv
<1>2. CASE ReadBoxes(t)
  <2>1. PICK view \in Views(t.pool) :
          Goes(t, [t EXCEPT !.view =
                     IF t.call = None THEN [view EXCEPT !.round = None] ELSE view])
    BY <1>2, Zenon DEF ReadBoxes
  <2> DEFINE seen == IF t.call = None THEN [view EXCEPT !.round = None] ELSE view
             to == [t EXCEPT !.view = seen]
  <2>2. Goes(t, to)
    BY <2>1
  <2> HIDE DEF seen
  <2>3. SameTask(t, to)
    BY DEF SameTask
  <2> HIDE DEF to
  <2>4. QED
    BY <1>1, <2>2, <2>3, GoesOnKeeps
<1>3. CASE transactionFate(t)
  <2> DEFINE silent == [t EXCEPT !.fate = "silent"]
             dropped == [t EXCEPT !.fate = "dropped"]
             landed == [t EXCEPT !.fate = "confirmed", !.at = calls[t.call.tx].at]
  <2>1. Goes(t, silent) \/ Goes(t, dropped) \/ Goes(t, landed)
    BY <1>3, Zenon DEF transactionFate
  <2>2. SameTask(t, silent) /\ SameTask(t, dropped) /\ SameTask(t, landed)
    BY DEF SameTask
  <2> HIDE DEF silent, dropped, landed
  <2>3. QED
    BY <1>1, <2>1, <2>2, GoesOnKeeps
<1>4. CASE ReadAnswered(t)
  <2>1. PICK c, finalFor : /\ c.pool = t.pool /\ c.wallet = t.wallet
                           /\ Ends(t, ReadReceived(state, c, finalFor))
    BY <1>4 DEF ReadAnswered
  <2>2. Follows(state, ReadReceived(state, c, finalFor))
    BY <1>1, ReadingFollows
  <2>3. Stops(t, state, ReadReceived(state, c, finalFor).state)
    BY <1>1, <2>1, ReadingFollows DEF Stops, ReadsFor, SeeksFor
  <2>4. QED
    BY <2>1, <2>2, <2>3, EndsKeeps
<1>5. CASE ReadFails(t)
  <2>1. Follows(state, ReadFailed(state, t.pool, t.wallet))
    BY <1>1, ReadFailedFollows
  <2>2. Stops(t, state, ReadFailed(state, t.pool, t.wallet).state)
    BY <1>1, ReadFailedFollows DEF Stops, ReadsFor, SeeksFor
  <2>3. QED
    BY <1>5, <2>1, <2>2, EndsKeeps DEF ReadFails
<1>6. QED
  BY <1>2, <1>3, <1>4, <1>5

\* The quote, and the check of it before the wallet is asked.
LEMMA QuotingKeeps ==
  ASSUME IInv, NEW t, t.kind \in {"REQUEST_QUOTE", "VERIFY_QUOTE"},
         QuoteAnswered(t) \/ QuoteChecked(t)
  PROVE  IInv'
<1>1. Coherent(state) /\ \A n : Stops(t, state, n)
  BY DEF IInv, Stops, ReadsFor, SeeksFor
<1>2. \A pool \in Pool : Follows(state, QuoteReceived(state, pool))
  BY <1>1, QuoteFollows, PageAssumption
<1>3. /\ Follows(state, QuoteRefused(state)) /\ Follows(state, QuoteFailed(state))
      /\ Follows(state, QuoteVerified(state)) /\ Follows(state, QuoteStale(state))
      /\ Follows(state, QuoteUnverifiable(state))
  BY <1>1, BuyingFollows
<1>4. CASE QuoteAnswered(t)
  <2>1. PICK result : Follows(state, result) /\ Ends(t, result)
    BY <1>2, <1>3, <1>4 DEF QuoteAnswered
  <2>2. QED
    BY <1>1, <2>1, EndsKeeps
<1>5. CASE QuoteChecked(t)
  <2>1. PICK result : Follows(state, result) /\ Ends(t, result)
    BY <1>3, <1>5 DEF QuoteChecked
  <2>2. QED
    BY <1>1, <2>1, EndsKeeps
<1>6. QED
  BY <1>4, <1>5

\* The payment, and the group that outlives its effect.
LEMMA PayingKeeps ==
  ASSUME IInv, NEW t \in Running("BUILD_AND_SIGN"),
         SeatSettles(t) \/ SettlementAnswered(t) \/ SettlementFails(t)
  PROVE  IInv'
<1>1. /\ Coherent(state) /\ t \in BagToSet(tasks) /\ t.kind = "BUILD_AND_SIGN"
      /\ t.pool # None
  BY DEF IInv, Running, Tagged
<1>2. \A n : Stops(t, state, n)
  BY <1>1 DEF Stops, ReadsFor, SeeksFor
<1>3. CASE SeatSettles(t)
  <2> DEFINE to == [t EXCEPT !.paid = TRUE]
  <2>1. Goes(t, to)
    BY <1>3 DEF SeatSettles
  <2>2. SameTask(t, to)
    BY DEF SameTask
  <2> HIDE DEF to
  <2>3. QED
    BY <1>1, <2>1, <2>2, GoesOnKeeps
<1>4. CASE SettlementAnswered(t)
  <2>1. Follows(state, Settled(state, t.pool))
    BY <1>1, SettledFollows
  <2>2. QED
    BY <1>2, <1>4, <2>1, EndsKeeps DEF SettlementAnswered
<1>5. CASE SettlementFails(t)
  <2> DEFINE failed == SettleFailed(state)
             e == [kind |-> "IN_FLIGHT", pool |-> t.pool, sender |-> t.sender]
             flying == [failed EXCEPT !.effects = @ \cup {e}]
  <2>1. Follows(state, failed)
    BY <1>1, BuyingFollows
  <2>2. DOMAIN failed = {"state", "effects", "path"}
    BY DEF SettleFailed, Only, Result
  <2>3. Tagged(e)
    BY DEF Tagged
  <2> HIDE DEF failed, e
  <2>4. /\ flying.state = failed.state /\ flying.path = failed.path
        /\ flying.effects = failed.effects \cup {e}
    BY <2>2
  <2>5. failed.effects = {}
    BY DEF SettleFailed, failed, Only, Result
  <2>6. Follows(state, flying)
    BY <2>1, <2>3, <2>4, <2>5 DEF Follows, Spins
  <2>7. Ends(t, failed) \/ Ends(t, flying)
    BY <1>5 DEF SettlementFails, failed, e
  <2> HIDE DEF flying
  <2>8. QED
    BY <1>2, <2>1, <2>6, <2>7, EndsKeeps
<1>6. QED
  BY <1>3, <1>4, <1>5

\* A group in flight lands, or does not, and nobody hears.
LEMMA FlightKeeps ==
  ASSUME IInv, NEW t \in Running("IN_FLIGHT"), InFlightEnds(t)
  PROVE  IInv'
<1>1. tasks' = BagRemove(tasks, t) /\ state' = state /\ url' = url
  BY DEF InFlightEnds
<1>2. /\ IsABag(tasks') /\ BagToSet(tasks') \subseteq BagToSet(tasks)
      /\ BagToSet(tasks) \ {t} \subseteq BagToSet(tasks')
  BY <1>1, Taken DEF IInv
<1>3. ~ReadsFor(t, state) /\ ~SeeksFor(t, state)
  BY DEF Running, ReadsFor, SeeksFor
<1>4. QED
  BY <1>1, <1>2, <1>3 DEF IInv, ReadsFor, SeeksFor

\* A refund-path call, from the reading it is built on to its answer.
LEMMA SendingKeeps ==
  ASSUME IInv, NEW t \in Running("SEND_ACTION"),
         Compose(t) \/ Submit(t) \/ SendFails(t) \/ WaitEnds(t)
  PROVE  IInv'
<1>1. /\ Coherent(state) /\ t \in BagToSet(tasks) /\ t.kind = "SEND_ACTION"
      /\ \A n : Stops(t, state, n)
  BY DEF IInv, Running, Stops, ReadsFor, SeeksFor
<1>2. \A action, pool, call : /\ Follows(state, ActionEnded(state, action, pool))
                              /\ Follows(state, ActionUnconfirmed(state, action, pool, call))
  BY <1>1, ActingFollows
<1>3. CASE Compose(t)
  <2>1. PICK view \in Views(t.pool) :
          Goes(t, [t EXCEPT !.built =
            [action |-> t.action, pool |-> t.pool, count |-> RefundBatchSize(view.record),
             seats |-> Named(t.action, view.record, view.roster, t.sender),
             lastValid |-> view.round + Validity, fate |-> "unsent", at |-> 0]])
    BY <1>3, Zenon DEF Compose
  <2> DEFINE call == [action |-> t.action, pool |-> t.pool,
                      count |-> RefundBatchSize(view.record),
                      seats |-> Named(t.action, view.record, view.roster, t.sender),
                      lastValid |-> view.round + Validity, fate |-> "unsent", at |-> 0]
             to == [t EXCEPT !.built = call]
  <2>2. Goes(t, to)
    BY <2>1
  <2> HIDE DEF call
  <2>3. SameTask(t, to)
    BY DEF SameTask
  <2> HIDE DEF to
  <2>4. QED
    BY <1>1, <2>2, <2>3, GoesOnKeeps
<1>4. ASSUME NEW tx, NEW lastValid, EndsUnconfirmed(t, tx, lastValid) PROVE IInv'
  BY <1>1, <1>2, <1>4, EndsKeeps DEF EndsUnconfirmed
<1>5. CASE Submit(t)
  <2> DEFINE tx == Len(calls) + 1
             to == [t EXCEPT !.built = None, !.tx = tx]
  <2>1. Goes(t, to) \/ EndsUnconfirmed(t, tx, t.built.lastValid)
    BY <1>5, Zenon DEF Submit
  <2> HIDE DEF tx
  <2>2. SameTask(t, to)
    BY DEF SameTask
  <2> HIDE DEF to
  <2>3. QED
    BY <1>1, <1>4, <2>1, <2>2, GoesOnKeeps
<1>6. CASE SendFails(t)
  BY <1>1, <1>2, <1>6, EndsKeeps DEF SendFails
<1>7. CASE WaitEnds(t)
  <2>1. \/ Ends(t, ActionEnded(state, t.action, t.pool))
        \/ EndsUnconfirmed(t, t.tx, calls[t.tx].lastValid)
    BY <1>7 DEF WaitEnds
  <2>2. QED
    BY <1>1, <1>2, <1>4, <2>1, EndsKeeps
<1>8. QED
  BY <1>3, <1>5, <1>6, <1>7

\* The answer to a search for pools.
LEMMA FindingKeeps ==
  ASSUME IInv, NEW t \in Running("FIND_MY_POOLS"), FindAnswered(t)
  PROVE  IInv'
<1>1. Coherent(state) /\ t.kind = "FIND_MY_POOLS"
  BY DEF IInv, Running
<1>2. PICK result : /\ result \in {MyPoolsFound(state, t.wallet),
                                   MyPoolsUnavailable(state, t.wallet)}
                    /\ Ends(t, result)
  BY DEF FindAnswered
<1>3. Follows(state, result)
  BY <1>1, <1>2, FindingFollows
<1>4. Stops(t, state, result.state)
  BY <1>1, <1>2, FindingFollows DEF Stops, ReadsFor, SeeksFor
<1>5. QED
  BY <1>2, <1>3, <1>4, EndsKeeps

\* What the page has no hand in.
LEMMA WorldLeavesPage ==
  ASSUME Others \/ \E tx \in DOMAIN calls : Commit(tx) \/ Drop(tx)
  PROVE  UNCHANGED pageVars
<1>1. ASSUME NEW pool, OthersCallLands(pool) \/ OtherJoins(pool)
                       \/ DeadlinePasses(pool) \/ ReleaseLands(pool)
      PROVE  UNCHANGED pageVars
  BY <1>1, Zenon DEF OthersCallLands, OtherJoins, DeadlinePasses, ReleaseLands
<1>2. ASSUME EmptyBlock PROVE UNCHANGED pageVars
  BY <1>2, Zenon DEF EmptyBlock
<1>3. ASSUME NEW tx, Commit(tx) \/ Drop(tx) PROVE UNCHANGED pageVars
  BY <1>3, Zenon DEF Commit, Drop
<1>4. QED
  BY <1>1, <1>2, <1>3 DEF Others

LEMMA WorldKeeps ==
  ASSUME IInv, Others \/ \E tx \in DOMAIN calls : Commit(tx) \/ Drop(tx)
  PROVE  IInv'
BY WorldLeavesPage, PageKept

\* The invariant, over every behaviour of the page.
LEMMA Invariant == Spec => []IInv
<1>1. IInv /\ [Next]_vars => IInv'
  <2> SUFFICES ASSUME IInv, [Next]_vars PROVE IInv'
    OBVIOUS
  <2>1. CASE UNCHANGED vars
    BY <2>1, PageKept DEF vars, pageVars
  <2>2. CASE Effects
    BY <2>2, ReadingKeeps, QuotingKeeps, PayingKeeps, FlightKeeps, SendingKeeps,
       FindingKeeps DEF Effects, Running
  <2>3. CASE User \/ WalletSeen \/ Refresh
    BY <2>3, UserKeeps
  <2>4. CASE Others \/ \E tx \in DOMAIN calls : Commit(tx) \/ Drop(tx)
    BY <2>4, WorldKeeps
  <2>5. QED
    BY <2>1, <2>2, <2>3, <2>4 DEF Next
<1>2. QED
  BY <1>1, InitKeeps, PTL DEF Spec

-----------------------------------------------------------------------------

\* The address bar and the machine always name the same pool: whichever of the
\* buyer, a 402 and a settlement moves the page, and in whatever order their
\* answers come, both move together (machine.ts `navigate` through the layout
\* effect of App.tsx).
THEOREM ScreenFollowsUrlAlways == Spec => []ScreenFollowsUrl
<1>1. IInv => ScreenFollowsUrl
  BY DEF IInv, ScreenFollowsUrl
<1>2. QED
  BY <1>1, Invariant, PTL

\* What is shown was always read for the pool on screen and the wallet
\* connected, however late the answer: machine.ts drops a reading of another
\* wallet or pool, and forgets what it showed when either changes.
THEOREM ReadingIsOfScreenAlways == Spec => []ReadingIsOfScreen
<1>1. IInv => ReadingIsOfScreen
  BY DEF IInv, Coherent, ReadingIsOfScreen
<1>2. QED
  BY <1>1, Invariant, PTL

\* No spinner turns on after its answer: when one turns, a request is running
\* whose end stops it, though answers for another pool or wallet are dropped
\* and several reads of one pool may run at once (machine.ts READ_RECEIVED,
\* READ_FAILED, MY_POOLS_FOUND).
THEOREM SpinnerHasReaderAlways == Spec => []SpinnerHasReader
<1>1. IInv => SpinnerHasReader
  BY DEF IInv, SpinnerHasReader, Running, ReadsFor, SeeksFor
<1>2. QED
  BY <1>1, Invariant, PTL
=============================================================================
