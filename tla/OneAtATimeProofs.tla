------------------------- MODULE OneAtATimeProofs --------------------------
(***************************************************************************)
(* What the pool page never does twice: one purchase at a time             *)
(* (OneQuestionAtATime) and one refund-path call at a time (LockHolds),    *)
(* and that it forgets a call that landed only once a reading shows it     *)
(* (ReleaseShowsCall), for any pools, wallets and bounds of PoolPage.      *)
(*                                                                         *)
(* For the purchase, QuestionInv: the questions out are the one the        *)
(* purchase of the machine waits for, if it waits, about its quote; an     *)
(* event that does not end it leaves it alone, and one that does asks the  *)
(* next when no other is out.                                              *)
(*                                                                         *)
(* For the call, LockInv: the lock, the effects that send and the calls a  *)
(* block may still take are at most one and the same, before it has an id, *)
(* while it is sent, and after its effect gave up on it. A lock held for a *)
(* call nobody saw confirm goes only with a reading that is final for it,  *)
(* so what a reading in flight knows must be true of its call (Told,       *)
(* Seen), and what is true must stay so as blocks come (ChainInv: a box    *)
(* that is gone stays gone, no later round is an earlier one).             *)
(*                                                                         *)
(* For what a reading shows, HistoryInv: what a call did stays in every    *)
(* block from the one that took it, and no block is taken back. ShownInv   *)
(* carries that from a block to the reading made of it, so that one recent *)
(* enough to let go of the lock shows what the call did.                   *)
(***************************************************************************)
EXTENDS PoolPageProofs

\* The tasks of some kinds in a bag, and that each of them is there once.
OfKinds(b, K) == {t \in BagToSet(b) : t.kind \in K}
Single(b, K) == \A t \in OfKinds(b, K) : b[t] = 1

\* The tasks of some kinds that effects begin as.
BegunOf(E, K) == {t \in {Begun(e) : e \in E} : t.kind \in K}

\* Two states of the machine with the same purchase and the same lock.
Alike(n, s) ==
  n.purchase = s.purchase /\ n.quote = s.quote /\ n.sending = s.sending

-----------------------------------------------------------------------------
(* Bags of tasks.                                                          *)

\* Tasks that end, each once.
LEMMA SingleTaken ==
  ASSUME NEW b, IsABag(b), NEW K, Single(b, K), NEW D
  PROVE  /\ OfKinds(b (-) SetToBag(D), K) = OfKinds(b, K) \ D
         /\ Single(b (-) SetToBag(D), K)
<1> DEFINE c == b (-) SetToBag(D)
<1>1. \A x \in DOMAIN b : b[x] \in Nat /\ b[x] > 0
  BY DEF IsABag
<1>2. ASSUME NEW x \in BagToSet(c)
      PROVE  x \in DOMAIN b /\ c[x] = IF x \in D THEN b[x] - 1 ELSE b[x]
  BY <1>2 DEF BagToSet, SetToBag, (-)
<1>3. ASSUME NEW x \in BagToSet(c), x.kind \in K
      PROVE  x \in OfKinds(b, K) /\ x \notin D /\ c[x] = 1
  <2>1. x \in OfKinds(b, K)
    BY <1>2, <1>3 DEF OfKinds, BagToSet
  <2>2. b[x] = 1
    BY <2>1 DEF Single
  <2>3. c[x] > 0
    BY <1>3 DEF BagToSet, SetToBag, (-)
  <2>4. QED
    BY <1>2, <1>3, <2>1, <2>2, <2>3
<1>4. ASSUME NEW x \in OfKinds(b, K), x \notin D PROVE x \in BagToSet(c)
  <2>1. x \in DOMAIN b /\ b[x] > 0
    BY <1>1 DEF OfKinds, BagToSet
  <2>2. QED
    BY <1>4, <2>1 DEF BagToSet, SetToBag, (-)
<1>5. OfKinds(c, K) = OfKinds(b, K) \ D
  BY <1>3, <1>4 DEF OfKinds
<1>6. Single(c, K)
  BY <1>3 DEF OfKinds, Single
<1>7. QED
  BY <1>5, <1>6

\* Tasks that begin beside others.
LEMMA SingleAdded ==
  ASSUME NEW b, IsABag(b), NEW c, IsABag(c), NEW K, Single(b, K), Single(c, K),
         OfKinds(b, K) \cap OfKinds(c, K) = {}
  PROVE  /\ OfKinds(b (+) c, K) = OfKinds(b, K) \cup OfKinds(c, K)
         /\ Single(b (+) c, K)
<1>1. BagToSet(b (+) c) = BagToSet(b) \cup BagToSet(c)
  BY Added
<1>2. OfKinds(b (+) c, K) = OfKinds(b, K) \cup OfKinds(c, K)
  BY <1>1 DEF OfKinds
<1>3. ASSUME NEW x \in OfKinds(b (+) c, K) PROVE (b (+) c)[x] = 1
  <2>1. CASE x \in OfKinds(b, K)
    <3>1. x \notin BagToSet(c) /\ x \in BagToSet(b)
      BY <2>1 DEF OfKinds
    <3>2. b[x] = 1
      BY <2>1 DEF Single
    <3>3. QED
      BY <3>1, <3>2 DEF BagToSet, (+)
  <2>2. CASE x \in OfKinds(c, K)
    <3>1. x \notin BagToSet(b) /\ x \in BagToSet(c)
      BY <2>2 DEF OfKinds
    <3>2. c[x] = 1
      BY <2>2 DEF Single
    <3>3. QED
      BY <3>1, <3>2 DEF BagToSet, (+)
  <2>3. QED
    BY <1>2, <2>1, <2>2
<1>4. QED
  BY <1>2, <1>3 DEF Single

\* A task that goes on as another.
LEMMA SingleReplaced ==
  ASSUME NEW b, IsABag(b), NEW K, Single(b, K), NEW t \in BagToSet(b), NEW to,
         to.kind = t.kind, to \notin OfKinds(b, K) \ {t},
         NEW c, c = BagAdd(BagRemove(b, t), to)
  PROVE  /\ OfKinds(c, K) =
              IF t.kind \in K THEN (OfKinds(b, K) \ {t}) \cup {to} ELSE OfKinds(b, K)
         /\ Single(c, K)
<1> DEFINE left == BagRemove(b, t)
<1>0. c = BagAdd(left, to)
  OBVIOUS
<1>1. CASE t.kind \in K
  <2>1. t \in OfKinds(b, K) /\ b[t] = 1
    BY <1>1 DEF OfKinds, Single
  <2>2. left = [e \in DOMAIN b \ {t} |-> b[e]]
    BY <2>1 DEF OfKinds, BagToSet, BagRemove
  <2>3. DOMAIN left = DOMAIN b \ {t} /\ \A x \in DOMAIN left : left[x] = b[x]
    BY <2>2
  <2>4. to \notin DOMAIN left
    BY <1>1, <2>3 DEF OfKinds, BagToSet
  <2> HIDE DEF left
  <2>5. c = [e \in DOMAIN left \cup {to} |-> IF e = to THEN 1 ELSE left[e]]
    BY <1>0, <2>4 DEF BagAdd
  <2>6. OfKinds(c, K) = (OfKinds(b, K) \ {t}) \cup {to}
    BY <1>1, <2>3, <2>5 DEF OfKinds, BagToSet
  <2>7. Single(c, K)
    BY <2>3, <2>4, <2>5 DEF OfKinds, BagToSet, Single
  <2>8. QED
    BY <1>1, <2>6, <2>7
<1>2. CASE t.kind \notin K
  <2>1. /\ BagToSet(left) \subseteq BagToSet(b) /\ BagToSet(b) \ {t} \subseteq BagToSet(left)
        /\ IsABag(left)
    BY Taken
  <2>2. \A x \in DOMAIN left : x # t => left[x] = b[x]
    BY DEF BagRemove
  <2> HIDE DEF left
  <2>3. BagToSet(c) = BagToSet(left) \cup {to}
    BY <1>0, <2>1, Added
  <2>4. \A x \in DOMAIN c : x # to => c[x] = left[x] /\ x \in DOMAIN left
    BY <1>0 DEF BagAdd
  <2>5. OfKinds(c, K) = OfKinds(b, K)
    BY <1>2, <2>1, <2>3 DEF OfKinds
  <2>6. ASSUME NEW x \in OfKinds(c, K) PROVE c[x] = 1
    <3>1. x \in OfKinds(b, K) /\ x # t /\ x # to /\ x \in DOMAIN c
      BY <1>2, <2>5, <2>6 DEF OfKinds, BagToSet
    <3>2. c[x] = b[x]
      BY <2>2, <2>4, <3>1
    <3>3. QED
      BY <3>1, <3>2 DEF Single
  <2>7. QED
    BY <1>2, <2>5, <2>6 DEF Single
<1>3. QED
  BY <1>1, <1>2

\* A task that is gone with nothing in its place.
LEMMA SingleRemoved ==
  ASSUME NEW b, IsABag(b), NEW K, Single(b, K), NEW t \in BagToSet(b), t.kind \notin K
  PROVE  OfKinds(BagRemove(b, t), K) = OfKinds(b, K) /\ Single(BagRemove(b, t), K)
<1>1. /\ BagToSet(BagRemove(b, t)) \subseteq BagToSet(b)
      /\ BagToSet(b) \ {t} \subseteq BagToSet(BagRemove(b, t))
  BY Taken
<1>2. \A x \in DOMAIN BagRemove(b, t) : x # t => BagRemove(b, t)[x] = b[x]
  BY DEF BagRemove
<1>3. QED
  BY <1>1, <1>2 DEF OfKinds, Single, BagToSet

\* The effects of a result that begin as tasks of those kinds.
LEMMA BegunOfKinds ==
  ASSUME NEW E, NEW K
  PROVE  /\ OfKinds(BegunAll(E), K) = BegunOf(E, K)
         /\ Single(BegunAll(E), K)
         /\ IsABag(BegunAll(E))
BY OnceEach DEF OfKinds, Single, BegunAll, BegunOf, SetToBag, BagToSet

-----------------------------------------------------------------------------
(* Readings ask nothing of the buyer.                                      *)

\* A refresh leaves the purchase and the lock alone, and only reads.
LEMMA ReadLeaves ==
  ASSUME NEW n, Coherent(n)
  PROVE  /\ Alike(readPool(n).state, n)
         /\ \A e \in readPool(n).effects : e.kind = "READ_POOL"
<1>1. /\ readPool(n).state = [n EXCEPT !.reading = @ \/ n.screen # None]
      /\ readPool(n).effects = {ReadEffect(n, pool) : pool \in PoolsToRead(n)}
  BY DEF readPool, Result
<1>2. \A pool : ReadEffect(n, pool).kind = "READ_POOL"
  BY DEF ReadEffect
<1>3. QED
  BY <1>1, <1>2 DEF Alike, Coherent, Fields

\* So does a move to another pool.
LEMMA ShowingLeaves ==
  ASSUME NEW s, Coherent(s), NEW pool
  PROVE  Alike(showing(s, pool), s)
<1>1. CASE s.screen = pool
  BY <1>1 DEF showing, Alike
<1>2. CASE s.screen # pool
  BY <1>2 DEF showing, withoutPool, Alike, Coherent, Fields
<1>3. QED
  BY <1>1, <1>2

LEMMA OpenedLeaves ==
  ASSUME NEW s, Coherent(s), NEW pool
  PROVE  /\ Alike(OpenedPool(s, pool).state, s)
         /\ \A e \in OpenedPool(s, pool).effects : e.kind = "READ_POOL"
<1>1. Coherent(showing(s, pool)) /\ Alike(showing(s, pool), s)
  BY ShowingCoherent, ShowingLeaves
<1>2. QED
  BY <1>1, ReadLeaves DEF OpenedPool, Alike

\* A task has the kind of its effect.
LEMMA BegunKind ==
  ASSUME NEW e
  PROVE  Begun(e).kind = e.kind
BY DEF Begun

\* What a dispatch makes of the tasks of the kinds K, readings left aside.
LEMMA Dispatched ==
  ASSUME IsABag(tasks), NEW K, "READ_POOL" \notin K, Single(tasks, K),
         NEW D, NEW result, Coherent(result.state),
         Dispatch(SetToBag(D), result),
         (OfKinds(tasks, K) \ D) \cap BegunOf(result.effects, K) = {}
  PROVE  /\ OfKinds(tasks', K) = (OfKinds(tasks, K) \ D) \cup BegunOf(result.effects, K)
         /\ Single(tasks', K)
         /\ Alike(state', result.state)
<1> DEFINE moves == result.path \notin {None, url}
           opened == IF moves THEN OpenedPool(result.state, result.path)
                              ELSE Only(result.state)
           asked == BegunAll(result.effects)
           shown == BegunAll(opened.effects)
           left == tasks (-) SetToBag(D)
           both == left (+) asked
<1>1. state' = opened.state /\ tasks' = both (+) shown
  BY DEF Dispatch
<1>2. /\ Alike(opened.state, result.state)
      /\ \A e \in opened.effects : e.kind = "READ_POOL"
  <2>1. CASE moves
    BY <2>1, OpenedLeaves
  <2>2. CASE ~moves
    BY <2>2 DEF Only, Result, Alike
  <2>3. QED
    BY <2>1, <2>2
<1>3. OfKinds(left, K) = OfKinds(tasks, K) \ D /\ Single(left, K) /\ IsABag(left)
  BY SingleTaken, OnceEach, Taken
<1>4. OfKinds(asked, K) = BegunOf(result.effects, K) /\ Single(asked, K) /\ IsABag(asked)
  BY BegunOfKinds
<1>5. OfKinds(shown, K) = BegunOf(opened.effects, K) /\ Single(shown, K) /\ IsABag(shown)
  BY BegunOfKinds
<1> HIDE DEF opened, asked, shown, left
<1>6. BegunOf(opened.effects, K) = {}
  BY <1>2, BegunKind DEF BegunOf
<1>7. /\ OfKinds(both, K) = (OfKinds(tasks, K) \ D) \cup BegunOf(result.effects, K)
      /\ Single(both, K)
  BY <1>3, <1>4, SingleAdded
<1>8. IsABag(both)
  BY <1>3, <1>4, Added
<1> HIDE DEF both
<1>9. OfKinds(both, K) \cap OfKinds(shown, K) = {}
  BY <1>5, <1>6
<1>10. /\ OfKinds(tasks', K) = OfKinds(both, K) \cup OfKinds(shown, K)
       /\ Single(tasks', K)
  BY <1>1, <1>5, <1>7, <1>8, <1>9, SingleAdded
<1>11. QED
  BY <1>1, <1>2, <1>5, <1>6, <1>7, <1>10

-----------------------------------------------------------------------------
(* The purchase.                                                           *)

Questions == {"REQUEST_QUOTE", "VERIFY_QUOTE", "BUILD_AND_SIGN"}

\* The purchase that waits for a task of this kind.
Phase(kind) ==
  CASE kind = "REQUEST_QUOTE" -> "QUOTING"
    [] kind = "VERIFY_QUOTE" -> "CHECKING"
    [] kind = "BUILD_AND_SIGN" -> "SETTLING"

\* Task t is what the purchase of state s waits for.
AskedFor(t, s) ==
  /\ s.purchase = Phase(t.kind)
  /\ t.kind # "REQUEST_QUOTE" => t.pool = s.quote /\ s.quote \in Pool

\* The questions out, Q, are the one that the purchase waits for, if it does.
Question(s, Q) ==
  /\ \A t \in Q : Q = {t} /\ AskedFor(t, s)
  /\ s.purchase \in {"QUOTING", "CHECKING", "SETTLING"} => Q # {}
  /\ s.quote \in Pool \cup {None}

QuestionInv ==
  /\ Single(tasks, Questions)
  /\ Question(state, OfKinds(tasks, Questions))
  /\ url \in Pool \cup {None}

SamePurchase(n, s) == n.purchase = s.purchase /\ n.quote = s.quote

\* A result that has nothing to do with the purchase.
Aside(s, result) ==
  /\ SamePurchase(result.state, s)
  /\ \A e \in result.effects : e.kind \notin Questions
  /\ result.path = None

\* A result of the purchase when no question is left out.
Asks(result) ==
  /\ Question(result.state, BegunOf(result.effects, Questions))
  /\ result.path \in Pool \cup {None}

LEMMA AsideBegins ==
  ASSUME NEW s, NEW result, Aside(s, result)
  PROVE  BegunOf(result.effects, Questions) = {}
BY BegunKind DEF Aside, BegunOf

LEMMA OnlyAside ==
  ASSUME NEW s, NEW n, SamePurchase(n, s)
  PROVE  Aside(s, Only(n))
BY DEF Aside, Only, Result

LEMMA ReadAside ==
  ASSUME NEW s, NEW n, Coherent(n), SamePurchase(n, s)
  PROVE  Aside(s, readPool(n))
<1>1. /\ Alike(readPool(n).state, n) /\ readPool(n).path = None
      /\ \A e \in readPool(n).effects : e.kind = "READ_POOL"
  BY ReadLeaves, ReadAsks
<1>2. QED
  BY <1>1 DEF Aside, Alike, SamePurchase, Questions

\* The wallet, readings, calls and searches for pools.
LEMMA EventsAside ==
  ASSUME NEW s, Coherent(s), NEW action, NEW pool, NEW call, NEW wallet,
         NEW c, NEW finalFor
  PROVE  /\ Aside(s, OpenedEntry(s)) /\ Aside(s, OpenedPool(s, pool))
         /\ Aside(s, WalletIs(s, wallet))
         /\ Aside(s, ReadReceived(s, c, finalFor)) /\ Aside(s, ReadFailed(s, pool, wallet))
         /\ Aside(s, ActionRequested(s, action)) /\ Aside(s, ActionEnded(s, action, pool))
         /\ Aside(s, ActionUnconfirmed(s, action, pool, call))
         /\ Aside(s, MyPoolsRequested(s)) /\ Aside(s, MyPoolsFound(s, wallet))
         /\ Aside(s, MyPoolsUnavailable(s, wallet))
<1>1. Aside(s, Only(s)) /\ Aside(s, readPool(s))
  BY OnlyAside, ReadAside DEF SamePurchase
<1>2. Aside(s, OpenedEntry(s))
  BY OnlyAside DEF OpenedEntry, withoutPool, SamePurchase, Coherent, Fields
<1>3. Aside(s, OpenedPool(s, pool))
  <2>1. Coherent(showing(s, pool)) /\ SamePurchase(showing(s, pool), s)
    BY ShowingCoherent, ShowingLeaves DEF Alike, SamePurchase
  <2>2. QED
    BY <2>1, ReadAside DEF OpenedPool
<1>4. Aside(s, WalletIs(s, wallet))
  <2> DEFINE n == [s EXCEPT !.wallet = wallet, !.circumstances = None,
                            !.myPools = None, !.finding = FALSE]
  <2>1. Coherent(n) /\ SamePurchase(n, s)
    BY DEF Coherent, Fields, SamePurchase
  <2> HIDE DEF n
  <2>2. Aside(s, readPool(n))
    BY <2>1, ReadAside
  <2>3. QED
    BY <1>1, <2>2 DEF WalletIs, n
<1>5. Aside(s, ReadReceived(s, c, finalFor))
  <2> DEFINE base == Released(s, c.pool, finalFor)
             n(awaiting) == [base EXCEPT !.reading = FALSE, !.circumstances = c,
                                         !.awaiting = awaiting]
  <2>1. SamePurchase(base, s) /\ DOMAIN base = Fields
    BY DEF Released, Coherent, Fields, SamePurchase
  <2> HIDE DEF base
  <2>2. \A awaiting : SamePurchase(n(awaiting), s)
    BY <2>1 DEF Fields, SamePurchase
  <2>3. Aside(s, Only(base)) /\ \A awaiting : Aside(s, Only(n(awaiting)))
    BY <2>1, <2>2, OnlyAside
  <2>4. PICK awaiting :
          ReadReceived(s, c, finalFor) =
            IF ~forWallet(s, c.wallet) THEN Only(s)
            ELSE IF c.pool # s.screen THEN Only(base) ELSE Only(n(awaiting))
    BY DEF ReadReceived, base
  <2>5. QED
    BY <1>1, <2>3, <2>4
<1>6. Aside(s, ReadFailed(s, pool, wallet))
  <2>1. Aside(s, Only([s EXCEPT !.reading = FALSE]))
    BY OnlyAside DEF SamePurchase, Coherent, Fields
  <2>2. QED
    BY <1>1, <2>1 DEF ReadFailed
<1>7. \A lock : LET n == [s EXCEPT !.sending = lock] IN
                Aside(s, Only(n)) /\ Aside(s, readPool(n))
  <2> SUFFICES ASSUME NEW lock PROVE LET n == [s EXCEPT !.sending = lock] IN
                                     Aside(s, Only(n)) /\ Aside(s, readPool(n))
    OBVIOUS
  <2> DEFINE n == [s EXCEPT !.sending = lock]
  <2>1. Coherent(n) /\ SamePurchase(n, s)
    BY DEF Coherent, Fields, SamePurchase
  <2> HIDE DEF n
  <2>2. Aside(s, Only(n)) /\ Aside(s, readPool(n))
    BY <2>1, ReadAside, OnlyAside
  <2>3. QED
    BY <2>2 DEF n
<1>8. Aside(s, ActionRequested(s, action))
  <2> DEFINE e == [kind |-> "SEND_ACTION", action |-> action, pool |-> s.screen]
             n == [s EXCEPT !.sending = [action |-> action, pool |-> s.screen, call |-> None]]
  <2>1. SamePurchase(n, s) /\ e.kind = "SEND_ACTION"
    BY DEF Coherent, Fields, SamePurchase
  <2> HIDE DEF n, e
  <2>2. Aside(s, Result(n, {e}, None))
    BY <2>1 DEF Aside, Result, Questions
  <2>3. QED
    BY <1>1, <2>2 DEF ActionRequested, n, e
<1>9. Aside(s, ActionEnded(s, action, pool))
  BY <1>1, <1>7 DEF ActionEnded
<1>10. Aside(s, ActionUnconfirmed(s, action, pool, call))
  <2> DEFINE n == [s EXCEPT !.sending.call = call]
  <2>1. Coherent(n) /\ SamePurchase(n, s)
    BY DEF Coherent, Fields, SamePurchase
  <2> HIDE DEF n
  <2>2. Aside(s, readPool(n))
    BY <2>1, ReadAside
  <2>3. QED
    BY <1>1, <2>2 DEF ActionUnconfirmed, n
<1>11. Aside(s, MyPoolsRequested(s))
  <2> DEFINE e == [kind |-> "FIND_MY_POOLS", wallet |-> s.wallet]
             n == [s EXCEPT !.finding = TRUE]
  <2>1. SamePurchase(n, s) /\ e.kind = "FIND_MY_POOLS"
    BY DEF Coherent, Fields, SamePurchase
  <2> HIDE DEF n, e
  <2>2. Aside(s, Result(n, {e}, None))
    BY <2>1 DEF Aside, Result, Questions
  <2>3. QED
    BY <1>1, <2>2 DEF MyPoolsRequested, n, e
<1>12. Aside(s, MyPoolsFound(s, wallet)) /\ Aside(s, MyPoolsUnavailable(s, wallet))
  <2>1. /\ Aside(s, Only([s EXCEPT !.finding = FALSE, !.myPools = wallet]))
        /\ Aside(s, Only([s EXCEPT !.finding = FALSE]))
    BY OnlyAside DEF SamePurchase, Coherent, Fields
  <2>2. QED
    BY <1>1, <2>1 DEF MyPoolsFound, MyPoolsUnavailable
<1>13. QED
  BY <1>2, <1>3, <1>4, <1>5, <1>6, <1>8, <1>9, <1>10, <1>11, <1>12

\* A purchase at rest, and one that asks.
LEMMA AtRest ==
  ASSUME NEW n, n.purchase \notin {"QUOTING", "CHECKING", "SETTLING"},
         n.quote \in Pool \cup {None}
  PROVE  Asks(Only(n))
BY DEF Asks, Question, Only, Result, BegunOf

LEMMA Asking ==
  ASSUME NEW n, NEW e, AskedFor(Begun(e), n), e.kind \in Questions,
         n.quote \in Pool \cup {None}
  PROVE  Asks(Result(n, {e}, None))
<1>1. BegunOf({e}, Questions) = {Begun(e)}
  BY BegunKind DEF BegunOf
<1>2. QED
  BY <1>1 DEF Asks, Question, Result

\* What ends a question, or asks the first.
LEMMA EventsAsk ==
  ASSUME NEW s, Coherent(s), s.quote \in Pool \cup {None}
  PROVE  /\ s.purchase \in MayQuote => Asks(QuoteRequested(s))
         /\ s.purchase = "CONFIRM" => Asks(BuyRequested(s))
         /\ s.purchase = "QUOTING" => /\ \A pool \in Pool : Asks(QuoteReceived(s, pool))
                                      /\ Asks(QuoteRefused(s)) /\ Asks(QuoteFailed(s))
         /\ s.purchase = "CHECKING" /\ s.quote \in Pool =>
              Asks(QuoteVerified(s)) /\ Asks(QuoteStale(s)) /\ Asks(QuoteUnverifiable(s))
         /\ s.purchase = "SETTLING" => /\ \A pool \in Pool : Asks(Settled(s, pool))
                                       /\ Asks(SettleFailed(s))
<1> DEFINE to(purchase) == [s EXCEPT !.purchase = purchase]
           without(purchase) == [s EXCEPT !.purchase = purchase, !.quote = None]
<1>1. \A purchase : /\ to(purchase).purchase = purchase /\ to(purchase).quote = s.quote
                    /\ without(purchase).purchase = purchase
                    /\ without(purchase).quote = None
  BY DEF Coherent, Fields
<1> HIDE DEF to, without
<1>2. /\ Asks(Only(to("CONFIRM"))) /\ Asks(Only(without("IDLE")))
      /\ Asks(Only(without("UNAVAILABLE")))
  BY <1>1, AtRest
<1>3. s.purchase \in MayQuote => Asks(QuoteRequested(s))
  <2> DEFINE e == [kind |-> "REQUEST_QUOTE"]
  <2>1. e.kind = "REQUEST_QUOTE"
    OBVIOUS
  <2> HIDE DEF e
  <2>2. AskedFor(Begun(e), without("QUOTING"))
    BY <1>1, <2>1, BegunKind DEF AskedFor, Phase
  <2>3. Asks(Result(without("QUOTING"), {e}, None))
    BY <1>1, <2>1, <2>2, Asking DEF Questions
  <2>4. QED
    BY <2>3 DEF QuoteRequested, e, without
<1>4. s.purchase = "CONFIRM" => Asks(BuyRequested(s))
  <2> DEFINE e == [kind |-> "VERIFY_QUOTE", pool |-> s.quote]
  <2>1. e.kind = "VERIFY_QUOTE" /\ Begun(e).kind = "VERIFY_QUOTE" /\ Begun(e).pool = s.quote
    BY DEF Begun
  <2> HIDE DEF e
  <2>2. s.quote # None => AskedFor(Begun(e), to("CHECKING"))
    BY <1>1, <2>1 DEF AskedFor, Phase
  <2>3. s.quote # None => Asks(Result(to("CHECKING"), {e}, None))
    BY <1>1, <2>1, <2>2, Asking DEF Questions
  <2>4. s.purchase = "CONFIRM" => Asks(Only(s))
    BY AtRest
  <2>5. QED
    BY <2>3, <2>4 DEF BuyRequested, e, to
<1>5. ASSUME NEW pool \in Pool
      PROVE  s.purchase = "QUOTING" => Asks(QuoteReceived(s, pool))
  <2> DEFINE m == [s EXCEPT !.purchase = "CONFIRM", !.quote = pool]
             next == showing(m, pool)
  <2>1. Coherent(m) /\ m.purchase = "CONFIRM" /\ m.quote = pool
    BY DEF Coherent, Fields
  <2>2. Coherent(next) /\ next.purchase = "CONFIRM" /\ next.quote = pool
    BY <2>1, ShowingCoherent, ShowingLeaves DEF Alike
  <2>3. s.purchase = "QUOTING" =>
          QuoteReceived(s, pool) = IF s.screen = pool THEN Result(next, {}, pool)
                                   ELSE [readPool(next) EXCEPT !.path = pool]
    BY DEF QuoteReceived
  <2> HIDE DEF m, next
  <2>4. Asks(Result(next, {}, pool))
    BY <2>2 DEF Asks, Question, Result, BegunOf
  <2> DEFINE read == readPool(next)
  <2>5. Asks([read EXCEPT !.path = pool])
    <3>1. Alike(read.state, next) /\ DOMAIN read = {"state", "effects", "path"}
      BY <2>2, ReadLeaves, ReadAsks
    <3>2. BegunOf(read.effects, Questions) = {}
      BY <2>2, ReadAside, AsideBegins DEF SamePurchase
    <3> HIDE DEF read
    <3>3. QED
      BY <2>2, <3>1, <3>2 DEF Asks, Question, Alike
  <2>6. QED
    BY <2>3, <2>4, <2>5
<1>6. s.purchase = "QUOTING" => Asks(QuoteRefused(s)) /\ Asks(QuoteFailed(s))
  BY <1>2 DEF QuoteRefused, QuoteFailed, without
<1>7. s.purchase = "CHECKING" /\ s.quote \in Pool => Asks(QuoteVerified(s))
  <2> DEFINE e == [kind |-> "BUILD_AND_SIGN", pool |-> s.quote]
  <2>1. /\ e.kind = "BUILD_AND_SIGN" /\ Begun(e).kind = "BUILD_AND_SIGN"
        /\ Begun(e).pool = s.quote
    BY DEF Begun
  <2> HIDE DEF e
  <2>2. s.quote \in Pool => AskedFor(Begun(e), to("SETTLING"))
    BY <1>1, <2>1 DEF AskedFor, Phase
  <2>3. s.quote \in Pool => Asks(Result(to("SETTLING"), {e}, None))
    BY <1>1, <2>1, <2>2, Asking DEF Questions
  <2>4. s.quote \in Pool => s.quote # None
    BY PageAssumption
  <2>5. QED
    BY <2>3, <2>4 DEF QuoteVerified, e, to
<1>8. s.purchase = "CHECKING" => Asks(QuoteStale(s)) /\ Asks(QuoteUnverifiable(s))
  BY <1>2 DEF QuoteStale, QuoteUnverifiable, to, without
<1>9. ASSUME NEW pool \in Pool PROVE Asks(Settled(s, pool))
  <2> DEFINE m == showing(s, pool)
             n == [m EXCEPT !.purchase = "IDLE", !.quote = None, !.awaiting = pool]
             read == readPool(n)
  <2>1. Coherent(m)
    BY ShowingCoherent
  <2> HIDE DEF m
  <2>2. Coherent(n) /\ n.purchase = "IDLE" /\ n.quote = None
    BY <2>1 DEF Coherent, Fields
  <2>3. Settled(s, pool) = IF s.screen = pool THEN read ELSE [read EXCEPT !.path = pool]
    BY DEF Settled, intoPaidPool, m
  <2> HIDE DEF n
  <2>4. Alike(read.state, n) /\ DOMAIN read = {"state", "effects", "path"} /\ read.path = None
    BY <2>2, ReadLeaves, ReadAsks
  <2>5. BegunOf(read.effects, Questions) = {}
    BY <2>2, ReadAside, AsideBegins DEF SamePurchase
  <2> HIDE DEF read
  <2>6. Asks(read) /\ Asks([read EXCEPT !.path = pool])
    BY <2>2, <2>4, <2>5 DEF Asks, Question, Alike
  <2>7. QED
    BY <2>3, <2>6
<1>10. s.purchase = "SETTLING" => Asks(SettleFailed(s))
  BY <1>2 DEF SettleFailed, without
<1>11. QED
  BY <1>3, <1>4, <1>5, <1>6, <1>7, <1>8, <1>9, <1>10

-----------------------------------------------------------------------------
(* The purchase on the page.                                               *)

\* The address bar of a dispatch is the path it names, or the one it had.
LEMMA UrlDispatched ==
  ASSUME NEW done, NEW result, Dispatch(done, result), url \in Pool \cup {None},
         result.path \in Pool \cup {None}
  PROVE  url' \in Pool \cup {None}
BY DEF Dispatch

\* An event that has nothing to do with the purchase.
LEMMA AsideKeeps ==
  ASSUME IInv, QuestionInv, NEW result, Follows(state, result), Aside(state, result),
         NEW D, D \cap OfKinds(tasks, Questions) = {}, Dispatch(SetToBag(D), result)
  PROVE  QuestionInv'
<1> DEFINE Q == OfKinds(tasks, Questions)
<1>1. BegunOf(result.effects, Questions) = {} /\ Coherent(result.state) /\ IsABag(tasks)
  BY AsideBegins DEF Follows, IInv
<1>2. /\ OfKinds(tasks', Questions) = (Q \ D) \cup {}
      /\ Single(tasks', Questions)
      /\ Alike(state', result.state)
  BY <1>1, Dispatched DEF QuestionInv, Questions
<1>3. OfKinds(tasks', Questions) = Q
  BY <1>2
<1>4. SamePurchase(state', state)
  BY <1>2 DEF Aside, SamePurchase, Alike
<1>5. Question(state', OfKinds(tasks', Questions))
  BY <1>3, <1>4 DEF QuestionInv, Question, AskedFor, SamePurchase
<1>6. url' \in Pool \cup {None}
  BY UrlDispatched DEF Aside, QuestionInv
<1>7. QED
  BY <1>2, <1>5, <1>6 DEF QuestionInv

\* An event that asks the next question when the last, if any, is answered.
LEMMA AskKeeps ==
  ASSUME IInv, QuestionInv, NEW result, Follows(state, result), Asks(result),
         NEW D, OfKinds(tasks, Questions) \subseteq D, Dispatch(SetToBag(D), result)
  PROVE  QuestionInv'
<1>1. Coherent(result.state) /\ IsABag(tasks) /\ OfKinds(tasks, Questions) \ D = {}
  BY DEF Follows, IInv
<1>2. /\ OfKinds(tasks', Questions) = {} \cup BegunOf(result.effects, Questions)
      /\ Single(tasks', Questions)
      /\ Alike(state', result.state)
  BY <1>1, Dispatched DEF QuestionInv, Questions
<1>3. OfKinds(tasks', Questions) = BegunOf(result.effects, Questions)
  BY <1>2
<1>4. Question(state', OfKinds(tasks', Questions))
  BY <1>2, <1>3 DEF Asks, Question, AskedFor, Alike
<1>5. url' \in Pool \cup {None}
  BY UrlDispatched DEF Asks, QuestionInv
<1>6. QED
  BY <1>2, <1>4, <1>5 DEF QuestionInv

\* A task of another kind that goes on, or is gone.
LEMMA GoesOnAside ==
  ASSUME IInv, QuestionInv, NEW t \in BagToSet(tasks), t.kind \notin Questions, NEW to,
         to.kind = t.kind, Goes(t, to)
  PROVE  QuestionInv'
<1>1. /\ OfKinds(tasks', Questions) = OfKinds(tasks, Questions)
      /\ Single(tasks', Questions)
  BY SingleReplaced DEF Goes, IInv, QuestionInv, OfKinds
<1>2. QED
  BY <1>1 DEF Goes, QuestionInv, Question, AskedFor

\* A step that leaves the page alone.
LEMMA PurchaseKept ==
  ASSUME QuestionInv, UNCHANGED pageVars
  PROVE  QuestionInv'
BY DEF pageVars, QuestionInv, Question, AskedFor, Single, OfKinds

\* The user, the wallet layer and the timer.
LEMMA UserAsks ==
  ASSUME IInv, QuestionInv, User \/ WalletSeen \/ Refresh
  PROVE  QuestionInv'
<1> DEFINE Q == OfKinds(tasks, Questions)
<1>1. /\ Coherent(state) /\ state.quote \in Pool \cup {None} /\ EmptyBag = SetToBag({})
      /\ IsABag(tasks)
  BY DEF IInv, QuestionInv, Question, EmptyBag
<1>2. ASSUME NEW pool \in Pool \cup {None}, Open(pool) PROVE QuestionInv'
  <2> DEFINE result == IF pool = None THEN OpenedEntry(state) ELSE OpenedPool(state, pool)
             begun == BegunAll(result.effects)
  <2>1. url' = pool /\ state' = result.state /\ tasks' = tasks (+) begun
    BY <1>2 DEF Open
  <2>2. Aside(state, result)
    BY <1>1, EventsAside
  <2> HIDE DEF result
  <2>3. OfKinds(begun, Questions) = {} /\ Single(begun, Questions) /\ IsABag(begun)
    BY <2>2, AsideBegins, BegunOfKinds
  <2> HIDE DEF begun
  <2>4. OfKinds(tasks', Questions) = Q \cup {} /\ Single(tasks', Questions)
    BY <1>1, <2>1, <2>3, SingleAdded DEF QuestionInv
  <2>5. OfKinds(tasks', Questions) = Q
    BY <2>4
  <2>6. SamePurchase(state', state)
    BY <2>1, <2>2 DEF Aside
  <2>7. Question(state', OfKinds(tasks', Questions))
    BY <2>5, <2>6 DEF QuestionInv, Question, AskedFor, SamePurchase
  <2>8. QED
    BY <2>1, <2>4, <2>7 DEF QuestionInv
<1>3. ASSUME NEW result, Follows(state, result), Aside(state, result), Idle(result)
      PROVE  QuestionInv'
  BY <1>1, <1>3, AsideKeeps DEF Idle
<1>4. ASSUME NEW result, Follows(state, result), Asks(result), Idle(result),
             state.purchase \notin {"QUOTING", "CHECKING", "SETTLING"}
      PROVE  QuestionInv'
  <2>1. Q = {}
    BY <1>4 DEF QuestionInv, Question, AskedFor, Phase, OfKinds, Questions
  <2>2. QED
    BY <1>1, <1>4, <2>1, AskKeeps DEF Idle
<1>5. CASE AskQuote
  <2>1. Asks(QuoteRequested(state)) /\ Follows(state, QuoteRequested(state))
    BY <1>1, <1>5, EventsAsk, BuyingFollows DEF AskQuote
  <2>2. QED
    BY <1>4, <1>5, <2>1 DEF AskQuote, MayQuote
<1>6. CASE Buy
  <2>1. Asks(BuyRequested(state)) /\ Follows(state, BuyRequested(state))
    BY <1>1, <1>6, EventsAsk, BuyingFollows DEF Buy
  <2>2. QED
    BY <1>4, <1>6, <2>1 DEF Buy
<1>7. CASE Act
  BY <1>1, <1>3, <1>7, EventsAside, ActingFollows DEF Act
<1>8. CASE FindSeats
  BY <1>1, <1>3, <1>8, EventsAside, FindingFollows DEF FindSeats
<1>9. ASSUME NEW wallet, ChangeWallet(wallet) PROVE QuestionInv'
  BY <1>9, PurchaseKept DEF ChangeWallet
<1>10. CASE WalletSeen
  BY <1>1, <1>3, <1>10, EventsAside, WalletFollows DEF WalletSeen
<1>11. CASE Refresh
  BY <1>1, <1>3, <1>11, ReadAside, ReadFollows DEF Refresh, SamePurchase
<1>12. QED
  BY <1>2, <1>5, <1>6, <1>7, <1>8, <1>9, <1>10, <1>11 DEF User

\* The effects that are no question.
LEMMA OtherEffectsAside ==
  ASSUME IInv, QuestionInv,
         \/ \E t \in Running("READ_POOL") :
              ReadBoxes(t) \/ transactionFate(t) \/ ReadAnswered(t) \/ ReadFails(t)
         \/ \E t \in Running("SEND_ACTION") :
              Compose(t) \/ Submit(t) \/ SendFails(t) \/ WaitEnds(t)
         \/ \E t \in Running("FIND_MY_POOLS") : FindAnswered(t)
         \/ \E t \in Running("IN_FLIGHT") : InFlightEnds(t)
  PROVE  QuestionInv'
<1>1. Coherent(state)
  BY DEF IInv
<1>2. ASSUME NEW t \in BagToSet(tasks), t.kind \notin Questions,
             NEW result, Follows(state, result), Aside(state, result), Ends(t, result)
      PROVE  QuestionInv'
  <2>1. {t} \cap OfKinds(tasks, Questions) = {}
    BY <1>2 DEF OfKinds
  <2>2. QED
    BY <1>2, <2>1, AsideKeeps DEF Ends
<1>3. ASSUME NEW t \in Running("READ_POOL"),
             ReadBoxes(t) \/ transactionFate(t) \/ ReadAnswered(t) \/ ReadFails(t)
      PROVE  QuestionInv'
  <2>1. t \in BagToSet(tasks) /\ t.kind = "READ_POOL" /\ t.kind \notin Questions
    BY DEF Running, Questions
  <2>2. CASE ReadBoxes(t)
    <3>1. PICK view \in Views(t.pool) :
            Goes(t, [t EXCEPT !.view =
                       IF t.call = None THEN [view EXCEPT !.round = None] ELSE view])
      BY <2>2, Zenon DEF ReadBoxes
    <3> DEFINE seen == IF t.call = None THEN [view EXCEPT !.round = None] ELSE view
               to == [t EXCEPT !.view = seen]
    <3>2. Goes(t, to)
      BY <3>1
    <3> HIDE DEF seen
    <3>3. to.kind = t.kind
      OBVIOUS
    <3> HIDE DEF to
    <3>4. QED
      BY <2>1, <3>2, <3>3, GoesOnAside
  <2>3. CASE transactionFate(t)
    <3> DEFINE silent == [t EXCEPT !.fate = "silent"]
               dropped == [t EXCEPT !.fate = "dropped"]
               landed == [t EXCEPT !.fate = "confirmed", !.at = calls[t.call.tx].at]
    <3>1. Goes(t, silent) \/ Goes(t, dropped) \/ Goes(t, landed)
      BY <2>3, Zenon DEF transactionFate
    <3>2. silent.kind = t.kind /\ dropped.kind = t.kind /\ landed.kind = t.kind
      OBVIOUS
    <3> HIDE DEF silent, dropped, landed
    <3>3. QED
      BY <2>1, <3>1, <3>2, GoesOnAside
  <2>4. CASE ReadAnswered(t)
    <3>1. PICK c, finalFor : Ends(t, ReadReceived(state, c, finalFor))
      BY <2>4 DEF ReadAnswered
    <3>2. QED
      BY <1>1, <1>2, <2>1, <3>1, ReadingFollows, EventsAside
  <2>5. CASE ReadFails(t)
    BY <1>1, <1>2, <2>1, <2>5, ReadFailedFollows, EventsAside DEF ReadFails
  <2>6. QED
    BY <1>3, <2>2, <2>3, <2>4, <2>5
<1>4. ASSUME NEW t \in Running("SEND_ACTION"),
             Compose(t) \/ Submit(t) \/ SendFails(t) \/ WaitEnds(t)
      PROVE  QuestionInv'
  <2>1. t \in BagToSet(tasks) /\ t.kind = "SEND_ACTION" /\ t.kind \notin Questions
    BY DEF Running, Questions
  <2>2. ASSUME NEW tx, NEW lastValid, EndsUnconfirmed(t, tx, lastValid) PROVE QuestionInv'
    BY <1>1, <1>2, <2>1, <2>2, ActingFollows, EventsAside DEF EndsUnconfirmed
  <2>3. ASSUME NEW to, Goes(t, to), to.kind = t.kind PROVE QuestionInv'
    BY <2>1, <2>3, GoesOnAside
  <2>4. \A x, y : /\ [t EXCEPT !.built = x].kind = t.kind
                  /\ [t EXCEPT !.built = x, !.tx = y].kind = t.kind
    OBVIOUS
  <2>5. CASE Compose(t)
    BY <2>3, <2>4, <2>5 DEF Compose
  <2>6. CASE Submit(t)
    BY <2>2, <2>3, <2>4, <2>6 DEF Submit
  <2>7. ASSUME Ends(t, ActionEnded(state, t.action, t.pool)) PROVE QuestionInv'
    BY <1>1, <1>2, <2>1, <2>7, ActingFollows, EventsAside
  <2>8. CASE SendFails(t)
    BY <2>7, <2>8 DEF SendFails
  <2>9. CASE WaitEnds(t)
    BY <2>2, <2>7, <2>9 DEF WaitEnds
  <2>10. QED
    BY <1>4, <2>5, <2>6, <2>8, <2>9
<1>5. ASSUME NEW t \in Running("FIND_MY_POOLS"), FindAnswered(t) PROVE QuestionInv'
  BY <1>1, <1>2, <1>5, FindingFollows, EventsAside DEF FindAnswered, Running, Questions
<1>6. ASSUME NEW t \in Running("IN_FLIGHT"), InFlightEnds(t) PROVE QuestionInv'
  <2>1. t \in BagToSet(tasks) /\ t.kind \notin Questions /\ IsABag(tasks)
    BY DEF Running, Questions, IInv
  <2>2. /\ OfKinds(tasks', Questions) = OfKinds(tasks, Questions)
        /\ Single(tasks', Questions)
    BY <1>6, <2>1, SingleRemoved DEF InFlightEnds, QuestionInv
  <2>3. QED
    BY <1>6, <2>2 DEF InFlightEnds, QuestionInv, Question, AskedFor
<1>7. QED
  BY <1>3, <1>4, <1>5, <1>6

\* The questions and their answers.
LEMMA QuestionsAsk ==
  ASSUME IInv, QuestionInv,
         \/ \E t \in Running("REQUEST_QUOTE") : QuoteAnswered(t)
         \/ \E t \in Running("VERIFY_QUOTE") : QuoteChecked(t)
         \/ \E t \in Running("BUILD_AND_SIGN") :
              SeatSettles(t) \/ SettlementAnswered(t) \/ SettlementFails(t)
  PROVE  QuestionInv'
<1> DEFINE Q == OfKinds(tasks, Questions)
<1>1. Coherent(state) /\ state.quote \in Pool \cup {None} /\ IsABag(tasks)
  BY DEF IInv, QuestionInv, Question
<1>2. ASSUME NEW kind \in Questions, NEW t \in Running(kind)
      PROVE  /\ t \in BagToSet(tasks) /\ t.kind = kind /\ Q = {t}
             /\ state.purchase = Phase(kind)
             /\ kind # "REQUEST_QUOTE" => t.pool = state.quote /\ state.quote \in Pool
  BY DEF QuestionInv, Question, AskedFor, OfKinds, Running
<1>3. ASSUME NEW t, Q = {t}, NEW result, Follows(state, result), Asks(result), Ends(t, result)
      PROVE  QuestionInv'
  BY <1>3, AskKeeps DEF Ends
<1>4. ASSUME NEW t \in Running("REQUEST_QUOTE"), QuoteAnswered(t) PROVE QuestionInv'
  <2>1. Q = {t} /\ state.purchase = "QUOTING"
    BY <1>2 DEF Questions, Phase
  <2>2. /\ \A pool \in Pool : Asks(QuoteReceived(state, pool)) /\ Follows(state, QuoteReceived(state, pool))
        /\ Follows(state, QuoteRefused(state)) /\ Follows(state, QuoteFailed(state))
    BY <1>1, <2>1, EventsAsk, QuoteFollows, BuyingFollows, PageAssumption
  <2>3. PICK result : Follows(state, result) /\ Asks(result) /\ Ends(t, result)
    BY <1>1, <1>4, <2>1, <2>2, EventsAsk DEF QuoteAnswered
  <2>4. QED
    BY <1>3, <2>1, <2>3
<1>5. ASSUME NEW t \in Running("VERIFY_QUOTE"), QuoteChecked(t) PROVE QuestionInv'
  <2>1. Q = {t} /\ state.purchase = "CHECKING" /\ state.quote \in Pool
    BY <1>2 DEF Questions, Phase
  <2>2. /\ Asks(QuoteVerified(state)) /\ Asks(QuoteStale(state)) /\ Asks(QuoteUnverifiable(state))
        /\ Follows(state, QuoteVerified(state)) /\ Follows(state, QuoteStale(state))
        /\ Follows(state, QuoteUnverifiable(state))
    BY <1>1, <2>1, EventsAsk, BuyingFollows
  <2>3. PICK result : Follows(state, result) /\ Asks(result) /\ Ends(t, result)
    BY <1>5, <2>2 DEF QuoteChecked
  <2>4. QED
    BY <1>3, <2>1, <2>3
<1>6. ASSUME NEW t \in Running("BUILD_AND_SIGN"),
             SeatSettles(t) \/ SettlementAnswered(t) \/ SettlementFails(t)
      PROVE  QuestionInv'
  <2>1. /\ t \in BagToSet(tasks) /\ t.kind = "BUILD_AND_SIGN" /\ Q = {t}
        /\ state.purchase = "SETTLING" /\ t.pool = state.quote /\ state.quote \in Pool
    BY <1>2 DEF Questions, Phase
  <2>2. state.quote # None
    BY <2>1, PageAssumption
  <2>3. CASE SeatSettles(t)
    <3> DEFINE to == [t EXCEPT !.paid = TRUE]
    <3>1. Goes(t, to)
      BY <2>3 DEF SeatSettles
    <3>2. to.kind = t.kind /\ to.pool = t.pool
      OBVIOUS
    <3> HIDE DEF to
    <3>3. to \notin Q \ {t}
      BY <2>1
    <3>4. OfKinds(tasks', Questions) = (Q \ {t}) \cup {to} /\ Single(tasks', Questions)
      BY <1>1, <2>1, <3>1, <3>2, <3>3, SingleReplaced DEF Goes, QuestionInv, Questions
    <3>5. OfKinds(tasks', Questions) = {to}
      BY <2>1, <3>4
    <3>6. Question(state', OfKinds(tasks', Questions))
      BY <2>1, <3>1, <3>2, <3>5 DEF Goes, QuestionInv, Question, AskedFor, Phase
    <3>7. QED
      BY <3>1, <3>4, <3>6 DEF Goes, QuestionInv
  <2>4. CASE SettlementAnswered(t)
    <3>1. Asks(Settled(state, t.pool)) /\ Follows(state, Settled(state, t.pool))
      BY <1>1, <2>1, <2>2, EventsAsk, SettledFollows
    <3>2. QED
      BY <1>3, <2>1, <2>4, <3>1 DEF SettlementAnswered
  <2>5. CASE SettlementFails(t)
    <3> DEFINE failed == SettleFailed(state)
               e == [kind |-> "IN_FLIGHT", pool |-> t.pool, sender |-> t.sender]
               flying == [failed EXCEPT !.effects = @ \cup {e}]
    <3>1. Follows(state, failed) /\ Asks(failed)
      BY <1>1, <2>1, EventsAsk, BuyingFollows
    <3>2. DOMAIN failed = {"state", "effects", "path"} /\ failed.effects = {}
      BY DEF SettleFailed, Only, Result
    <3>3. Tagged(e) /\ e.kind \notin Questions
      BY DEF Tagged, Questions
    <3> HIDE DEF failed, e
    <3>4. /\ flying.state = failed.state /\ flying.path = failed.path
          /\ flying.effects = {e}
      BY <3>2
    <3>5. Follows(state, flying)
      BY <3>1, <3>2, <3>3, <3>4 DEF Follows, Spins
    <3>6. BegunOf(flying.effects, Questions) = {} /\ BegunOf(failed.effects, Questions) = {}
      BY <3>2, <3>3, <3>4, BegunKind DEF BegunOf
    <3>7. Asks(flying)
      BY <3>1, <3>4, <3>6 DEF Asks
    <3>8. Ends(t, failed) \/ Ends(t, flying)
      BY <2>5 DEF SettlementFails, failed, e
    <3> HIDE DEF flying
    <3>9. QED
      BY <1>3, <2>1, <3>1, <3>5, <3>7, <3>8
  <2>6. QED
    BY <1>6, <2>3, <2>4, <2>5
<1>7. QED
  BY <1>4, <1>5, <1>6

\* The page as it is loaded has asked nothing.
LEMMA NothingAsked == Init => QuestionInv
<1> SUFFICES ASSUME Init PROVE QuestionInv
  OBVIOUS
<1>1. PICK pool \in Pool \cup {None} :
        LET mounted == IF pool = None THEN OpenedEntry(initialState)
                                      ELSE OpenedPool(initialState, pool)
        IN  url = pool /\ state = mounted.state /\ tasks = BegunAll(mounted.effects)
  BY DEF Init
<1> DEFINE mounted == IF pool = None THEN OpenedEntry(initialState)
                                     ELSE OpenedPool(initialState, pool)
<1>2. /\ Coherent(initialState) /\ initialState.purchase = "IDLE"
      /\ initialState.quote = None
  BY DEF Coherent, Fields, initialState
<1>3. Aside(initialState, mounted)
  BY <1>2, EventsAside
<1>4. url = pool /\ state = mounted.state /\ tasks = BegunAll(mounted.effects)
  BY <1>1
<1> HIDE DEF mounted
<1>5. OfKinds(tasks, Questions) = {} /\ Single(tasks, Questions)
  BY <1>3, <1>4, AsideBegins, BegunOfKinds
<1>6. QED
  BY <1>2, <1>3, <1>4, <1>5 DEF QuestionInv, Question, Aside, SamePurchase

LEMMA PurchaseInvariant == Spec => []QuestionInv
<1>1. IInv /\ QuestionInv /\ [Next]_vars => QuestionInv'
  <2> SUFFICES ASSUME IInv, QuestionInv, [Next]_vars PROVE QuestionInv'
    OBVIOUS
  <2>1. CASE UNCHANGED vars
    BY <2>1, PurchaseKept DEF vars, pageVars
  <2>2. CASE Effects
    BY <2>2, OtherEffectsAside, QuestionsAsk DEF Effects
  <2>3. CASE User \/ WalletSeen \/ Refresh
    BY <2>3, UserAsks
  <2>4. CASE Others \/ \E tx \in DOMAIN calls : Commit(tx) \/ Drop(tx)
    <3>1. UNCHANGED pageVars
      BY <2>4, WorldLeavesPage
    <3>2. QED
      BY <3>1, PurchaseKept
  <2>5. QED
    BY <2>1, <2>2, <2>3, <2>4 DEF Next
<1>2. QED
  BY <1>1, NothingAsked, Invariant, PTL DEF Spec

\* The purchase on screen is always the one in flight: a quote, a check or a
\* payment runs exactly when the page waits for it, alone, for the quote the
\* buyer confirmed, however the buyer moves between pools and wallets meanwhile
\* (machine.ts QUOTE_REQUESTED to SETTLED, each guarded by its own phase).
THEOREM OneQuestionAtATimeAlways == Spec => []OneQuestionAtATime
<1>1. QuestionInv => OneQuestionAtATime
  <2> SUFFICES ASSUME QuestionInv PROVE OneQuestionAtATime
    OBVIOUS
  <2> DEFINE Q == OfKinds(tasks, Questions)
  <2>1. ASSUME NEW kind \in Questions, NEW t \in Running(kind)
        PROVE  t \in Q /\ Q = {t} /\ tasks[t] = 1 /\ AskedFor(t, state) /\ t.kind = kind
    BY DEF QuestionInv, Question, OfKinds, Running, Single
  <2>2. ASSUME NEW kind \in Questions, state.purchase = Phase(kind)
        PROVE  \E t \in Running(kind) :
                 /\ Running(kind) = {t} /\ tasks[t] = 1
                 /\ kind = "REQUEST_QUOTE" \/ t.pool = state.quote
    <3>1. PICK t \in Q : AskedFor(t, state)
      BY <2>2 DEF QuestionInv, Question, Phase, Questions
    <3>2. t.kind = kind
      BY <2>2, <3>1 DEF AskedFor, Phase, Questions, OfKinds
    <3>3. t \in Running(kind)
      BY <3>1, <3>2 DEF OfKinds, Running
    <3>4. Running(kind) = {t}
      BY <2>1, <3>3
    <3>5. QED
      BY <2>1, <3>1, <3>3, <3>4 DEF AskedFor
  <2>3. ASSUME NEW kind \in Questions, state.purchase # Phase(kind)
        PROVE  Running(kind) = {}
    BY <2>1, <2>3 DEF AskedFor
  <2>4. QED
    BY <2>2, <2>3 DEF OneQuestionAtATime, Questions, Phase
<1>2. QED
  BY <1>1, PurchaseInvariant, PTL

-----------------------------------------------------------------------------
(* Time, for the calls the page has submitted.                             *)

\* The calls a block may still take.
Landing == {tx \in DOMAIN calls : CanLand(calls[tx])}

\* Once a pool's box is gone it stays so, and every block has every pool.
Lasting(q) ==
  \A i, j \in DOMAIN q : i <= j =>
    \A pool \in Pool : q[i][pool].gone => q[j][pool].gone

ChainInv ==
  /\ round \in Int
  /\ blocks \in Seq(Range(blocks)) /\ Len(blocks) > 0
  /\ \A i \in DOMAIN blocks : DOMAIN blocks[i] = Pool
  /\ Lasting(blocks)
  /\ calls \in Seq(Range(calls))
  /\ \A tx \in DOMAIN calls : calls[tx].pool \in Pool /\ calls[tx].lastValid \in Int

\* A step of the chain and of the calls, none of them new.
Grown(before, after) ==
  \A tx \in DOMAIN before :
    /\ tx \in DOMAIN after
    /\ after[tx].action = before[tx].action
    /\ after[tx].pool = before[tx].pool
    /\ after[tx].lastValid = before[tx].lastValid
    /\ before[tx].fate # "travelling" => after[tx].fate = before[tx].fate

Later == round' >= round /\ \A pool \in Pool : Pools[pool].gone => Pools'[pool].gone

-----------------------------------------------------------------------------
(* The chain.                                                              *)

LEMMA OwnRange ==
  ASSUME NEW S, NEW q \in Seq(S)
  PROVE  q \in Seq(Range(q))
<1>1. q \in [1..Len(q) -> S] /\ Len(q) \in Nat
  OBVIOUS
<1>2. q \in [1..Len(q) -> Range(q)]
  BY <1>1 DEF Range
<1>3. QED
  BY <1>1, <1>2

\* The last block is later than those before it.
LEMMA BlockLater ==
  ASSUME ChainInv, NEW pool, NEW record, Pools[pool].gone => record.gone,
         Block(pool, record)
  PROVE  /\ Later /\ round' \in Int
         /\ blocks' \in Seq(Range(blocks')) /\ Len(blocks') > 0
         /\ \A i \in DOMAIN blocks' : DOMAIN blocks'[i] = Pool
         /\ Lasting(blocks')
<1> DEFINE n == Len(blocks)
           next == [Pools EXCEPT ![pool] = record]
           longer == Append(blocks, next)
           S == Range(blocks) \cup {next}
<1>1. /\ blocks \in Seq(S) /\ n \in Nat /\ n > 0 /\ DOMAIN blocks = 1..n
      /\ next \in S
  BY DEF ChainInv
<1>2. /\ round' = round + 1
      /\ blocks' = longer \/ blocks' = Tail(longer)
  BY DEF Block
<1>3. DOMAIN Pools = Pool
  BY <1>1 DEF ChainInv, Pools
<1>4. DOMAIN next = Pool /\ \A p \in Pool : Pools[p].gone => next[p].gone
  BY <1>3
<1> HIDE DEF next
<1>5. /\ longer \in Seq(S) /\ Len(longer) = n + 1
      /\ \A i \in 1..n : longer[i] = blocks[i]
      /\ longer[n + 1] = next
  BY <1>1
<1>6. \A i \in 1..(n + 1) : DOMAIN longer[i] = Pool
  BY <1>1, <1>4, <1>5 DEF ChainInv
<1>7. \A i, j \in 1..(n + 1) : i <= j =>
        \A p \in Pool : longer[i][p].gone => longer[j][p].gone
  <2> SUFFICES ASSUME NEW i \in 1..(n + 1), NEW j \in 1..(n + 1), i <= j,
                      NEW p \in Pool, longer[i][p].gone
               PROVE  longer[j][p].gone
    OBVIOUS
  <2>1. CASE j <= n
    <3>1. i \in 1..n /\ j \in 1..n
      BY <1>1, <2>1
    <3>2. QED
      BY <1>1, <1>5, <3>1 DEF ChainInv, Lasting
  <2>2. CASE j = n + 1 /\ i <= n
    <3>1. i \in 1..n /\ n \in 1..n
      BY <1>1, <2>2
    <3>2. blocks[i][p].gone
      BY <1>5, <3>1
    <3>3. Pools[p].gone
      BY <1>1, <3>1, <3>2 DEF ChainInv, Lasting, Pools
    <3>4. QED
      BY <1>4, <1>5, <2>2, <3>3
  <2>3. CASE i = n + 1
    BY <1>1, <2>3
  <2>4. QED
    BY <1>1, <2>1, <2>2, <2>3
<1> HIDE DEF longer
<1>8. CASE blocks' = longer
  <2>1. blocks' \in Seq(S) /\ DOMAIN blocks' = 1..(n + 1) /\ Len(blocks') = n + 1
    BY <1>1, <1>5, <1>8
  <2>2. Pools' = next
    BY <1>5, <1>8, <2>1 DEF Pools
  <2>3. QED
    BY <1>1, <1>2, <1>4, <1>6, <1>7, <1>8, <2>1, <2>2, OwnRange DEF ChainInv, Later, Lasting
<1>9. CASE blocks' = Tail(longer)
  <2>1. /\ blocks' \in Seq(S) /\ DOMAIN blocks' = 1..n /\ Len(blocks') = n
        /\ \A i \in 1..n : blocks'[i] = longer[i + 1]
    BY <1>1, <1>5, <1>9
  <2>2. Pools' = next
    BY <1>1, <1>5, <2>1 DEF Pools
  <2>3. \A i \in 1..n : i + 1 \in 1..(n + 1)
    BY <1>1
  <2>4. \A i \in DOMAIN blocks' : DOMAIN blocks'[i] = Pool
    BY <1>6, <2>1, <2>3
  <2>5. Lasting(blocks')
    <3> SUFFICES ASSUME NEW i \in 1..n, NEW j \in 1..n, i <= j, NEW p \in Pool,
                        blocks'[i][p].gone
                 PROVE  blocks'[j][p].gone
      BY <2>1 DEF Lasting
    <3>1. i + 1 <= j + 1
      BY <1>1
    <3>2. QED
      BY <1>7, <2>1, <2>3, <3>1
  <2>6. QED
    BY <1>1, <1>2, <1>4, <2>1, <2>2, <2>4, <2>5, OwnRange DEF ChainInv, Later
<1>10. QED
  BY <1>2, <1>8, <1>9

\* A call that could not land before cannot later.
LEMMA LandingShrinks ==
  ASSUME ChainInv, Later, round' \in Int, Grown(calls, calls')
  PROVE  Landing' \subseteq Landing \cup (DOMAIN calls' \ DOMAIN calls)
<1> SUFFICES ASSUME NEW tx \in Landing', tx \in DOMAIN calls PROVE tx \in Landing
  BY DEF Landing
<1>1. /\ calls'[tx].fate = "travelling" /\ round' < calls'[tx].lastValid
      /\ ~Pools'[calls'[tx].pool].gone
  BY DEF Landing, CanLand
<1>2. /\ calls[tx].fate = "travelling" /\ calls'[tx].lastValid = calls[tx].lastValid
      /\ calls'[tx].pool = calls[tx].pool /\ calls[tx].pool \in Pool
      /\ calls[tx].lastValid \in Int /\ round \in Int
  BY <1>1 DEF Grown, ChainInv
<1>3. round < calls[tx].lastValid
  BY <1>1, <1>2 DEF Later
<1>4. ~Pools[calls[tx].pool].gone
  BY <1>1, <1>2 DEF Later
<1>5. QED
  BY <1>2, <1>3, <1>4 DEF Landing, CanLand

\* Time passes for the calls.
Passes ==
  /\ ChainInv' /\ Later /\ Grown(calls, calls')
  /\ Landing' \subseteq Landing

LEMMA StillPasses ==
  ASSUME ChainInv, UNCHANGED <<round, blocks, calls>>
  PROVE  Passes
<1>1. /\ ChainInv' /\ Later /\ Grown(calls, calls') /\ round' \in Int
      /\ DOMAIN calls' = DOMAIN calls
  BY DEF ChainInv, Lasting, Later, Grown, Pools
<1>2. QED
  BY <1>1, LandingShrinks DEF Passes

LEMMA BlockPasses ==
  ASSUME ChainInv, NEW pool, NEW record, Pools[pool].gone => record.gone,
         Block(pool, record), Grown(calls, calls'), DOMAIN calls' = DOMAIN calls,
         calls' \in Seq(Range(calls'))
  PROVE  Passes
<1>1. /\ Later /\ round' \in Int
      /\ blocks' \in Seq(Range(blocks')) /\ Len(blocks') > 0
      /\ \A i \in DOMAIN blocks' : DOMAIN blocks'[i] = Pool
      /\ Lasting(blocks')
  BY BlockLater
<1>2. \A tx \in DOMAIN calls' : calls'[tx].pool \in Pool /\ calls'[tx].lastValid \in Int
  BY DEF ChainInv, Grown
<1>3. Landing' \subseteq Landing
  BY <1>1, LandingShrinks
<1>4. QED
  BY <1>1, <1>2, <1>3 DEF ChainInv, Passes

\* A call does nothing to a box that is gone.
LEMMA GoneStays ==
  ASSUME NEW r, NEW call, NEW s \in Outcomes(r, call)
  PROVE  ~r.gone
BY DEF Outcomes

\* Blocks with none of the page's calls.
LEMMA UncalledPasses ==
  ASSUME ChainInv, NEW pool, NEW record, Pools[pool].gone => record.gone,
         Block(pool, record), calls' = calls
  PROVE  Passes
<1>1. Grown(calls, calls') /\ calls' \in Seq(Range(calls'))
  BY DEF Grown, ChainInv
<1>2. QED
  BY <1>1, BlockPasses

LEMMA JoinPasses ==
  ASSUME ChainInv, NEW pool, NEW who, JoinLands(pool, who), calls' = calls
  PROVE  Passes
BY UncalledPasses DEF JoinLands

\* A call of the page's taken by a block, or dropped by every node.
LEMMA CallsPass ==
  ASSUME ChainInv, NEW tx \in DOMAIN calls, Commit(tx) \/ Drop(tx)
  PROVE  Passes
<1>1. /\ calls[tx].fate = "travelling" /\ calls[tx].pool \in Pool
      /\ calls \in Seq(Range(calls))
  BY DEF Commit, Drop, ChainInv
<1>2. CASE Commit(tx)
  <2> DEFINE call == [calls[tx] EXCEPT !.fate = "committed", !.at = round']
  <2>1. PICK r \in Outcomes(Pools[calls[tx].pool], calls[tx]) : Block(calls[tx].pool, r)
    BY <1>2 DEF Commit
  <2>2. calls' = [calls EXCEPT ![tx] = call]
    BY <1>2 DEF Commit
  <2>3. /\ call.action = calls[tx].action /\ call.pool = calls[tx].pool
        /\ call.lastValid = calls[tx].lastValid
    OBVIOUS
  <2> HIDE DEF call
  <2>4. DOMAIN calls' = DOMAIN calls /\ Grown(calls, calls')
    BY <1>1, <2>2, <2>3 DEF Grown
  <2>5. calls' \in Seq(Range(calls) \cup {call})
    BY <1>1, <2>2
  <2>6. calls' \in Seq(Range(calls'))
    BY <2>5, OwnRange
  <2>7. ~Pools[calls[tx].pool].gone
    BY <2>1, GoneStays
  <2>8. QED
    BY <1>1, <2>1, <2>4, <2>6, <2>7, BlockPasses
<1>3. CASE Drop(tx)
  <2> DEFINE call == [calls[tx] EXCEPT !.fate = "dropped"]
  <2>1. calls' = [calls EXCEPT ![tx] = call] /\ round' = round /\ blocks' = blocks
    BY <1>3 DEF Drop, chainVars
  <2>2. /\ call.action = calls[tx].action /\ call.pool = calls[tx].pool
        /\ call.lastValid = calls[tx].lastValid
    OBVIOUS
  <2> HIDE DEF call
  <2>3. DOMAIN calls' = DOMAIN calls /\ Grown(calls, calls')
    BY <1>1, <2>1, <2>2 DEF Grown
  <2>4. calls' \in Seq(Range(calls) \cup {call})
    BY <1>1, <2>1
  <2>5. calls' \in Seq(Range(calls'))
    BY <2>4, OwnRange
  <2>6. Later /\ round' \in Int
    BY <2>1 DEF ChainInv, Later, Pools
  <2>7. ChainInv'
    BY <2>1, <2>3, <2>5 DEF ChainInv, Grown, Lasting
  <2>8. Landing' \subseteq Landing
    BY <2>3, <2>6, LandingShrinks
  <2>9. QED
    BY <2>3, <2>6, <2>7, <2>8 DEF Passes
<1>4. QED
  BY <1>2, <1>3

\* All that happens without the page.
LEMMA WorldPasses ==
  ASSUME ChainInv, Others \/ \E tx \in DOMAIN calls : Commit(tx) \/ Drop(tx)
  PROVE  Passes
<1>1. ASSUME NEW pool \in Pool, OthersCallLands(pool) PROVE Passes
  <2>1. PICK call \in OthersCall(Pools[pool]) : \E r \in Outcomes(Pools[pool], call) :
          Block(pool, r)
    BY <1>1, Zenon DEF OthersCallLands
  <2>2. PICK r \in Outcomes(Pools[pool], call) : Block(pool, r)
    BY <2>1
  <2>3. calls' = calls
    BY <1>1, Zenon DEF OthersCallLands
  <2>4. QED
    BY <2>2, <2>3, GoneStays, UncalledPasses
<1>2. ASSUME NEW pool \in Pool, OtherJoins(pool) PROVE Passes
  BY <1>2, UncalledPasses DEF OtherJoins
<1>3. ASSUME NEW pool \in Pool, DeadlinePasses(pool) PROVE Passes
  BY <1>3, UncalledPasses DEF DeadlinePasses
<1>4. ASSUME NEW pool \in Pool, ReleaseLands(pool) PROVE Passes
  BY <1>4, UncalledPasses DEF ReleaseLands
<1>5. CASE EmptyBlock
  BY <1>5, UncalledPasses DEF EmptyBlock
<1>6. QED
  BY <1>1, <1>2, <1>3, <1>4, <1>5, CallsPass DEF Others

-----------------------------------------------------------------------------
(* The answers of the node.                                                *)

\* A reading is no newer than the chain, and of no round only once the box of
\* its pool is gone.
LEMMA ViewsSound ==
  ASSUME ChainInv, NEW pool \in Pool, NEW view \in Views(pool)
  PROVE  /\ view.round = None => Pools[pool].gone /\ view.record = None
         /\ view.round # None => view.round \in Int /\ view.round <= round
<1> DEFINE n == Len(blocks)
<1>1. PICK i \in 1..n, j \in 1..n :
        view = [record |-> IF blocks[i][pool].gone THEN None
                           ELSE [blocks[i][pool] EXCEPT !.late = blocks[j][pool].late],
                roster |-> RosterOf(blocks[j][pool]),
                round |-> RoundOfPair(pool, i, j)]
  BY DEF Views
<1> DEFINE there == {k \in {i, j} : ~blocks[k][pool].gone}
<1>2. /\ view.round = IF there = {} THEN None ELSE RoundOf(Min(there))
      /\ view.record = IF blocks[i][pool].gone THEN None
                       ELSE [blocks[i][pool] EXCEPT !.late = blocks[j][pool].late]
  BY <1>1 DEF RoundOfPair
<1>3. DOMAIN blocks = 1..n /\ n \in Nat /\ n > 0 /\ round \in Int
  BY DEF ChainInv
<1>4. CASE there = {}
  <2>1. blocks[i][pool].gone /\ i <= n /\ i \in 1..n /\ n \in 1..n
    BY <1>3, <1>4
  <2>2. Pools[pool].gone
    BY <1>3, <2>1 DEF ChainInv, Lasting, Pools
  <2>3. QED
    BY <1>2, <1>4, <2>1, <2>2
<1>5. CASE there # {}
  <2>1. there = {i} \/ there = {j} \/ there = {i, j}
    BY <1>5
  <2>2. \E x \in there : \A y \in there : x <= y
    BY <1>3, <2>1
  <2>3. Min(there) \in there
    BY <2>2 DEF Min
  <2>4. Min(there) \in 1..n
    BY <2>3
  <2>5. RoundOf(Min(there)) \in Int /\ RoundOf(Min(there)) <= round
    BY <1>3, <2>4 DEF RoundOf
  <2>6. QED
    BY <1>2, <1>5, <2>5, PageAssumption
<1>6. QED
  BY <1>4, <1>5

-----------------------------------------------------------------------------
(* The lock.                                                               *)

Senders == {"SEND_ACTION"}

\* A call the page knows is one it submitted to that pool.
Known(cs, call, pool) ==
  /\ call.tx \in DOMAIN cs
  /\ cs[call.tx].lastValid = call.lastValid
  /\ cs[call.tx].pool = pool

Locked(lock, action, pool) == lock # None /\ lock.action = action /\ lock.pool = pool

\* The lock outlives its effect: nobody saw the call confirm.
Waits(lock) == lock # None /\ lock.call # None

IsLock(lock) ==
  lock # None => lock \in [action : Action, pool : Pool,
                           call : {None} \cup [tx : Nat, lastValid : Int]]

\* A call being composed, signed or sent, for these calls.
Sends(t, cs) ==
  /\ DOMAIN t = {"kind", "pool", "action", "sender", "built", "tx"}
  /\ \/ /\ t.tx = 0
        /\ t.built # None =>
             /\ DOMAIN t.built = {"action", "pool", "count", "seats", "lastValid", "fate", "at"}
             /\ t.built.action = t.action /\ t.built.pool = t.pool /\ t.built.lastValid \in Int
     \/ /\ t.tx \in DOMAIN cs /\ t.built = None
        /\ cs[t.tx].action = t.action /\ cs[t.tx].pool = t.pool

\* The lock, the effects S that send, and the calls L that may land: at most
\* one, whoever holds it.
LockFor(lock, S, cs, L) ==
  /\ IsLock(lock)
  /\ Waits(lock) => Known(cs, lock.call, lock.pool)
  /\ \A t \in S :
       /\ S = {t} /\ Locked(lock, t.action, t.pool) /\ lock.call = None
       /\ Sends(t, cs) /\ L \subseteq {t.tx}
  /\ \A tx \in L :
       /\ Locked(lock, cs[tx].action, cs[tx].pool)
       /\ Waits(lock) => lock.call.tx = tx

\* What a reading asked about a call has been told of it.
Told(t, cs) ==
  t.call # None =>
    /\ Known(cs, t.call, t.pool)
    /\ t.fate = "dropped" => cs[t.call.tx].fate = "dropped"
    /\ t.fate = "confirmed" => cs[t.call.tx].fate = "committed"

Seen(t) ==
  t.call # None /\ t.view # None =>
    \/ t.view.round = None /\ Pools[t.pool].gone
    \/ t.view.round \in Int /\ t.view.round <= round

Reads(t) ==
  t.kind = "READ_POOL" =>
    /\ DOMAIN t = {"kind", "pool", "wallet", "call", "view", "fate", "at"}
    /\ Told(t, calls) /\ Seen(t)

LockInv ==
  /\ ChainInv
  /\ Single(tasks, Senders)
  /\ LockFor(state.sending, OfKinds(tasks, Senders), calls, Landing)
  /\ \A t \in BagToSet(tasks) : Reads(t)

\* Time takes nothing from the lock.
LEMMA LockStays ==
  ASSUME NEW lock, NEW S, NEW cs, NEW L, LockFor(lock, S, cs, L), L \subseteq DOMAIN cs,
         NEW after, Grown(cs, after), NEW M, M \subseteq L
  PROVE  LockFor(lock, S, after, M)
<1>1. Waits(lock) => Known(after, lock.call, lock.pool)
  BY DEF LockFor, Known, Grown
<1>2. \A t \in S : Sends(t, after) /\ M \subseteq {t.tx}
  BY DEF LockFor, Sends, Grown
<1>3. \A tx \in M : Locked(lock, after[tx].action, after[tx].pool)
  BY DEF LockFor, Locked, Grown
<1>4. QED
  BY <1>1, <1>2, <1>3 DEF LockFor

\* Nor from what a reading knows.
LEMMA ReadsStays ==
  ASSUME ChainInv, Later, round' \in Int, Grown(calls, calls'), NEW t, Reads(t)
  PROVE  Reads(t)'
<1> SUFFICES ASSUME t.kind = "READ_POOL", t.call # None
             PROVE  Told(t, calls') /\ Seen(t)'
  BY DEF Reads, Told, Seen
<1>1. Told(t, calls) /\ Seen(t) /\ t.pool \in Pool
  BY DEF Reads, Told, Known, ChainInv
<1>2. Told(t, calls')
  BY <1>1 DEF Told, Known, Grown
<1>3. Seen(t)'
  BY <1>1 DEF Seen, Later, ChainInv
<1>4. QED
  BY <1>2, <1>3

-----------------------------------------------------------------------------
(* The events of the machine, for the lock.                                *)

\* A reading asks about no call but the one the lock is held for.
AsksAbout(e, lock) ==
  e.kind = "READ_POOL" /\ e.call # None =>
    Waits(lock) /\ e.call = lock.call /\ e.pool = lock.pool

About(result) == \A e \in result.effects : AsksAbout(e, result.state.sending)

Sendless(result) == \A e \in result.effects : e.kind # "SEND_ACTION"

\* A result that leaves the lock as it is.
LockAside(s, result) ==
  result.state.sending = s.sending /\ Sendless(result) /\ About(result)

LEMMA ReadAbout ==
  ASSUME NEW n, Coherent(n)
  PROVE  /\ About(readPool(n)) /\ Sendless(readPool(n))
         /\ readPool(n).state.sending = n.sending
<1>1. /\ readPool(n).effects = {ReadEffect(n, pool) : pool \in PoolsToRead(n)}
      /\ readPool(n).state.sending = n.sending
      /\ \A e \in readPool(n).effects : e.kind = "READ_POOL"
  BY ReadLeaves DEF readPool, Result, Alike
<1>2. \A pool : ReadEffect(n, pool).call # None =>
        /\ Waits(n.sending) /\ ReadEffect(n, pool).call = n.sending.call
        /\ ReadEffect(n, pool).pool = n.sending.pool
  BY DEF ReadEffect, Unconfirmed, Waits
<1>3. QED
  BY <1>1, <1>2 DEF About, AsksAbout, Sendless

LEMMA OnlyLockAside ==
  ASSUME NEW s, NEW n, n.sending = s.sending
  PROVE  LockAside(s, Only(n))
BY DEF LockAside, Only, Result, About, AsksAbout, Sendless

LEMMA ReadLockAside ==
  ASSUME NEW s, NEW n, Coherent(n), n.sending = s.sending
  PROVE  LockAside(s, readPool(n))
BY ReadAbout DEF LockAside

LEMMA EffectLockAside ==
  ASSUME NEW s, NEW n, n.sending = s.sending, NEW e, e.kind # "SEND_ACTION",
         e.kind # "READ_POOL"
  PROVE  LockAside(s, Result(n, {e}, None))
BY DEF LockAside, Result, About, AsksAbout, Sendless

\* Opening a pool, and what follows a quote and a settlement there.
LEMMA MovesLockAside ==
  ASSUME NEW s, Coherent(s), NEW pool
  PROVE  /\ LockAside(s, OpenedPool(s, pool)) /\ LockAside(s, OpenedEntry(s))
         /\ LockAside(s, QuoteReceived(s, pool)) /\ LockAside(s, Settled(s, pool))
<1>1. LockAside(s, OpenedPool(s, pool))
  <2>1. Coherent(showing(s, pool)) /\ showing(s, pool).sending = s.sending
    BY ShowingCoherent, ShowingLeaves DEF Alike
  <2>2. QED
    BY <2>1, ReadLockAside DEF OpenedPool
<1>2. LockAside(s, OpenedEntry(s))
  BY OnlyLockAside DEF OpenedEntry, withoutPool, Coherent, Fields
<1>3. LockAside(s, QuoteReceived(s, pool))
  <2> DEFINE m == [s EXCEPT !.purchase = "CONFIRM", !.quote = pool]
             next == showing(m, pool)
             read == readPool(next)
  <2>1. Coherent(m) /\ m.sending = s.sending
    BY DEF Coherent, Fields
  <2>2. Coherent(next) /\ next.sending = s.sending
    BY <2>1, ShowingCoherent, ShowingLeaves DEF Alike
  <2>3. QuoteReceived(s, pool) =
          IF s.purchase # "QUOTING" THEN Only(s)
          ELSE IF s.screen = pool THEN Result(next, {}, pool)
          ELSE [read EXCEPT !.path = pool]
    BY DEF QuoteReceived
  <2> HIDE DEF m, next
  <2>4. LockAside(s, read) /\ DOMAIN read = {"state", "effects", "path"}
    BY <2>2, ReadLockAside, ReadAsks
  <2>5. LockAside(s, Result(next, {}, pool)) /\ LockAside(s, Only(s))
    BY <2>2, OnlyLockAside DEF LockAside, Result, About, AsksAbout, Sendless
  <2> HIDE DEF read
  <2>6. LockAside(s, [read EXCEPT !.path = pool])
    BY <2>4 DEF LockAside, About, AsksAbout, Sendless
  <2>7. QED
    BY <2>3, <2>5, <2>6
<1>4. LockAside(s, Settled(s, pool))
  <2> DEFINE m == showing(s, pool)
             n == [m EXCEPT !.purchase = "IDLE", !.quote = None, !.awaiting = pool]
             read == readPool(n)
  <2>1. Coherent(m) /\ m.sending = s.sending
    BY ShowingCoherent, ShowingLeaves DEF Alike
  <2> HIDE DEF m
  <2>2. Coherent(n) /\ n.sending = s.sending
    BY <2>1 DEF Coherent, Fields
  <2>3. Settled(s, pool) = IF s.screen = pool THEN read ELSE [read EXCEPT !.path = pool]
    BY DEF Settled, intoPaidPool, m
  <2> HIDE DEF n
  <2>4. LockAside(s, read) /\ DOMAIN read = {"state", "effects", "path"}
    BY <2>2, ReadLockAside, ReadAsks
  <2> HIDE DEF read
  <2>5. LockAside(s, [read EXCEPT !.path = pool])
    BY <2>4 DEF LockAside, About, AsksAbout, Sendless
  <2>6. QED
    BY <2>3, <2>4, <2>5
<1>5. QED
  BY <1>1, <1>2, <1>3, <1>4

\* The rest of buying, of reading and of searching.
LEMMA EventsLockAside ==
  ASSUME NEW s, Coherent(s), NEW pool, NEW wallet
  PROVE  /\ LockAside(s, WalletIs(s, wallet)) /\ LockAside(s, ReadFailed(s, pool, wallet))
         /\ LockAside(s, QuoteRequested(s)) /\ LockAside(s, QuoteRefused(s))
         /\ LockAside(s, QuoteFailed(s)) /\ LockAside(s, BuyRequested(s))
         /\ LockAside(s, QuoteVerified(s)) /\ LockAside(s, QuoteStale(s))
         /\ LockAside(s, QuoteUnverifiable(s)) /\ LockAside(s, SettleFailed(s))
         /\ LockAside(s, MyPoolsRequested(s)) /\ LockAside(s, MyPoolsFound(s, wallet))
         /\ LockAside(s, MyPoolsUnavailable(s, wallet))
<1>1. LockAside(s, Only(s))
  BY OnlyLockAside
<1>2. LockAside(s, WalletIs(s, wallet))
  <2> DEFINE n == [s EXCEPT !.wallet = wallet, !.circumstances = None,
                            !.myPools = None, !.finding = FALSE]
  <2>1. Coherent(n) /\ n.sending = s.sending
    BY DEF Coherent, Fields
  <2> HIDE DEF n
  <2>2. LockAside(s, readPool(n))
    BY <2>1, ReadLockAside
  <2>3. QED
    BY <1>1, <2>2 DEF WalletIs, n
<1> DEFINE to(purchase) == [s EXCEPT !.purchase = purchase]
           without(purchase) == [s EXCEPT !.purchase = purchase, !.quote = None]
<1>3. \A purchase : to(purchase).sending = s.sending /\ without(purchase).sending = s.sending
  BY DEF Coherent, Fields
<1> HIDE DEF to, without
<1>4. \A purchase : LockAside(s, Only(to(purchase))) /\ LockAside(s, Only(without(purchase)))
  BY <1>3, OnlyLockAside
<1>5. \A purchase, e : e.kind # "SEND_ACTION" /\ e.kind # "READ_POOL" =>
        LockAside(s, Result(to(purchase), {e}, None)) /\ LockAside(s, Result(without(purchase), {e}, None))
  BY <1>3, EffectLockAside
<1>6. /\ LockAside(s, QuoteRefused(s)) /\ LockAside(s, QuoteFailed(s))
      /\ LockAside(s, QuoteStale(s)) /\ LockAside(s, SettleFailed(s))
  <2>1. LockAside(s, Only(without("IDLE"))) /\ LockAside(s, Only(without("UNAVAILABLE")))
    BY <1>4
  <2>2. QED
    BY <1>1, <2>1 DEF QuoteRefused, QuoteFailed, QuoteStale, SettleFailed, without
<1>7. LockAside(s, QuoteUnverifiable(s))
  BY <1>1, <1>4 DEF QuoteUnverifiable, to
<1>8. LockAside(s, QuoteRequested(s))
  <2>1. LockAside(s, Result(without("QUOTING"), {[kind |-> "REQUEST_QUOTE"]}, None))
    BY <1>5
  <2>2. QED
    BY <1>1, <2>1 DEF QuoteRequested, without
<1>9. LockAside(s, BuyRequested(s))
  <2>1. LockAside(s, Result(to("CHECKING"), {[kind |-> "VERIFY_QUOTE", pool |-> s.quote]}, None))
    BY <1>5
  <2>2. QED
    BY <1>1, <2>1 DEF BuyRequested, to
<1>10. LockAside(s, QuoteVerified(s))
  <2>1. LockAside(s, Result(to("SETTLING"), {[kind |-> "BUILD_AND_SIGN", pool |-> s.quote]}, None))
    BY <1>5
  <2>2. QED
    BY <1>1, <2>1 DEF QuoteVerified, to
<1>11. LockAside(s, ReadFailed(s, pool, wallet))
  <2>1. LockAside(s, Only([s EXCEPT !.reading = FALSE]))
    BY OnlyLockAside DEF Coherent, Fields
  <2>2. QED
    BY <1>1, <2>1 DEF ReadFailed
<1>12. LockAside(s, MyPoolsRequested(s))
  <2>1. LockAside(s, Result([s EXCEPT !.finding = TRUE],
                            {[kind |-> "FIND_MY_POOLS", wallet |-> s.wallet]}, None))
    BY EffectLockAside DEF Coherent, Fields
  <2>2. QED
    BY <1>1, <2>1 DEF MyPoolsRequested
<1>13. LockAside(s, MyPoolsFound(s, wallet)) /\ LockAside(s, MyPoolsUnavailable(s, wallet))
  <2>1. /\ LockAside(s, Only([s EXCEPT !.finding = FALSE, !.myPools = wallet]))
        /\ LockAside(s, Only([s EXCEPT !.finding = FALSE]))
    BY OnlyLockAside DEF Coherent, Fields
  <2>2. QED
    BY <1>1, <2>1 DEF MyPoolsFound, MyPoolsUnavailable
<1>14. QED
  BY <1>2, <1>6, <1>7, <1>8, <1>9, <1>10, <1>11, <1>12, <1>13

\* The end of a call lets the lock go.
LEMMA EndedLocks ==
  ASSUME NEW s, Coherent(s), NEW action, NEW pool
  PROVE  /\ About(ActionEnded(s, action, pool)) /\ Sendless(ActionEnded(s, action, pool))
         /\ Locked(s.sending, action, pool) =>
              ActionEnded(s, action, pool).state.sending = None
<1> DEFINE free == [s EXCEPT !.sending = None]
<1>1. Coherent(free) /\ free.sending = None
  BY DEF Coherent, Fields
<1> HIDE DEF free
<1>2. ActionEnded(s, action, pool) =
        IF ~Locked(s.sending, action, pool) THEN Only(s)
        ELSE IF pool # s.screen THEN Only(free) ELSE readPool(free)
  BY DEF ActionEnded, Completes, Locked, free
<1>3. /\ About(Only(s)) /\ Sendless(Only(s)) /\ About(Only(free)) /\ Sendless(Only(free))
      /\ Only(free).state = free
  BY DEF About, AsksAbout, Sendless, Only, Result
<1>4. /\ About(readPool(free)) /\ Sendless(readPool(free))
      /\ readPool(free).state.sending = None
  BY <1>1, ReadAbout
<1>5. QED
  BY <1>1, <1>2, <1>3, <1>4

\* A call nobody saw confirm keeps it.
LEMMA UnconfirmedLocks ==
  ASSUME NEW s, Coherent(s), NEW action, NEW pool, NEW call
  PROVE  /\ About(ActionUnconfirmed(s, action, pool, call))
         /\ Sendless(ActionUnconfirmed(s, action, pool, call))
         /\ Locked(s.sending, action, pool) =>
              ActionUnconfirmed(s, action, pool, call).state.sending =
                [s.sending EXCEPT !.call = call]
<1> DEFINE kept == [s EXCEPT !.sending.call = call]
<1>1. Coherent(kept) /\ kept.sending = [s.sending EXCEPT !.call = call]
  BY DEF Coherent, Fields
<1> HIDE DEF kept
<1>2. ActionUnconfirmed(s, action, pool, call) =
        IF ~Locked(s.sending, action, pool) THEN Only(s) ELSE readPool(kept)
  BY DEF ActionUnconfirmed, Completes, Locked, kept
<1>3. About(Only(s)) /\ Sendless(Only(s))
  BY DEF About, AsksAbout, Sendless, Only, Result
<1>4. /\ About(readPool(kept)) /\ Sendless(readPool(kept))
      /\ readPool(kept).state.sending = [s.sending EXCEPT !.call = call]
  BY <1>1, ReadAbout
<1>5. QED
  BY <1>2, <1>3, <1>4

\* A reading lets it go when it is final for the call it is held for.
LEMMA ReadingLocks ==
  ASSUME NEW s, Coherent(s), NEW c, NEW finalFor
  PROVE  LET result == ReadReceived(s, c, finalFor) IN
         /\ About(result) /\ Sendless(result)
         /\ \/ result.state.sending = s.sending
            \/ /\ result.state.sending = None
               /\ Waits(s.sending) /\ s.sending.pool = c.pool /\ finalFor = s.sending.call.tx
<1> DEFINE base == Released(s, c.pool, finalFor)
           n(awaiting) == [base EXCEPT !.reading = FALSE, !.circumstances = c,
                                       !.awaiting = awaiting]
<1>1. /\ DOMAIN base = Fields
      /\ \/ base.sending = s.sending
         \/ /\ base.sending = None
            /\ Waits(s.sending) /\ s.sending.pool = c.pool /\ finalFor = s.sending.call.tx
  BY DEF Released, Coherent, Fields, Unconfirmed, Waits
<1>2. PICK awaiting :
        ReadReceived(s, c, finalFor) =
          IF ~forWallet(s, c.wallet) THEN Only(s)
          ELSE IF c.pool # s.screen THEN Only(base) ELSE Only(n(awaiting))
  BY DEF ReadReceived
<1> HIDE DEF base
<1>3. n(awaiting).sending = base.sending
  BY <1>1 DEF Fields
<1> HIDE DEF n
<1>4. \A m : About(Only(m)) /\ Sendless(Only(m)) /\ Only(m).state = m
  BY DEF About, AsksAbout, Sendless, Only, Result
<1>5. QED
  BY <1>1, <1>2, <1>3, <1>4

\* A button takes the lock, and sends one call.
LEMMA RequestLocks ==
  ASSUME NEW s, Coherent(s), NEW action
  PROVE  \/ LockAside(s, ActionRequested(s, action))
         \/ /\ s.sending = None /\ s.screen # None /\ action \in Offered(s.circumstances)
            /\ ActionRequested(s, action).state.sending =
                 [action |-> action, pool |-> s.screen, call |-> None]
            /\ ActionRequested(s, action).effects =
                 {[kind |-> "SEND_ACTION", action |-> action, pool |-> s.screen]}
            /\ About(ActionRequested(s, action))
<1> DEFINE lock == [action |-> action, pool |-> s.screen, call |-> None]
           e == [kind |-> "SEND_ACTION", action |-> action, pool |-> s.screen]
           n == [s EXCEPT !.sending = lock]
<1>1. LockAside(s, Only(s))
  BY OnlyLockAside
<1>2. n.sending = lock /\ e.kind = "SEND_ACTION"
  BY DEF Coherent, Fields
<1>3. /\ ActionRequested(s, action).state = n
      /\ ActionRequested(s, action).effects = {e}
      \/ ActionRequested(s, action) = Only(s)
  BY DEF ActionRequested, Result
<1>4. CASE ActionRequested(s, action) = Only(s)
  BY <1>1, <1>4
<1>5. CASE ActionRequested(s, action) # Only(s)
  <2>1. s.sending = None /\ s.screen # None /\ action \in Offered(s.circumstances)
    BY <1>5 DEF ActionRequested
  <2>2. ActionRequested(s, action).state = n /\ ActionRequested(s, action).effects = {e}
    BY <1>3, <1>5
  <2> HIDE DEF n, e, lock
  <2>3. About(ActionRequested(s, action))
    BY <1>2, <2>2 DEF About, AsksAbout
  <2>4. QED
    BY <1>2, <2>1, <2>2, <2>3 DEF lock, e
<1>6. QED
  BY <1>4, <1>5

-----------------------------------------------------------------------------
(* The lock on the page.                                                   *)

\* Where the tasks of a dispatch come from.
LEMMA DispatchedTasks ==
  ASSUME IsABag(tasks), NEW D, NEW result, Coherent(result.state), About(result),
         Dispatch(SetToBag(D), result)
  PROVE  \A t \in BagToSet(tasks') :
           \/ t \in BagToSet(tasks)
           \/ \E e : t = Begun(e) /\ AsksAbout(e, result.state.sending)
<1> DEFINE moves == result.path \notin {None, url}
           opened == IF moves THEN OpenedPool(result.state, result.path)
                              ELSE Only(result.state)
           asked == BegunAll(result.effects)
           shown == BegunAll(opened.effects)
           left == tasks (-) SetToBag(D)
           both == left (+) asked
<1>1. tasks' = both (+) shown
  BY DEF Dispatch
<1>2. opened.state.sending = result.state.sending /\ About(opened)
  <2>1. CASE moves
    BY <2>1, MovesLockAside DEF LockAside
  <2>2. CASE ~moves
    BY <2>2 DEF Only, Result, About, AsksAbout
  <2>3. QED
    BY <2>1, <2>2
<1>3. BagToSet(left) \subseteq BagToSet(tasks) /\ IsABag(left)
  BY Taken, OnceEach
<1>4. /\ BagToSet(asked) = {Begun(e) : e \in result.effects} /\ IsABag(asked)
      /\ BagToSet(shown) = {Begun(e) : e \in opened.effects} /\ IsABag(shown)
  BY OnceEach DEF BegunAll
<1> HIDE DEF opened, asked, shown, left
<1>5. BagToSet(both) = BagToSet(left) \cup BagToSet(asked) /\ IsABag(both)
  BY <1>3, <1>4, Added
<1> HIDE DEF both
<1>6. BagToSet(tasks') = BagToSet(left) \cup BagToSet(asked) \cup BagToSet(shown)
  BY <1>1, <1>4, <1>5, Added
<1>7. ASSUME NEW t \in BagToSet(tasks'), t \notin BagToSet(tasks)
      PROVE  \E r, e : r.state.sending = result.state.sending /\ About(r) /\ e \in r.effects /\ t = Begun(e)
  BY <1>2, <1>3, <1>4, <1>6, <1>7
<1>8. QED
  BY <1>7 DEF About, AsksAbout

\* A reading that has just begun knows the call it asks about.
LEMMA BegunReads ==
  ASSUME NEW e, NEW lock, AsksAbout(e, lock), NEW S, NEW cs, NEW L, LockFor(lock, S, cs, L),
         NEW t, t = Begun(e)
  PROVE  t.kind = "READ_POOL" =>
           /\ DOMAIN t = {"kind", "pool", "wallet", "call", "view", "fate", "at"}
           /\ Told(t, cs) /\ t.view = None
<1> SUFFICES ASSUME e.kind = "READ_POOL"
             PROVE  /\ DOMAIN t = {"kind", "pool", "wallet", "call", "view", "fate", "at"}
                    /\ Told(t, cs) /\ t.view = None
  BY BegunKind
<1>1. t = [kind |-> "READ_POOL", pool |-> e.pool, wallet |-> e.wallet,
           call |-> e.call, view |-> None, fate |-> "unasked", at |-> 0]
  BY DEF Begun
<1>2. /\ t.call = e.call /\ t.pool = e.pool /\ t.view = None /\ t.fate = "unasked"
      /\ DOMAIN t = {"kind", "pool", "wallet", "call", "view", "fate", "at"}
  BY <1>1
<1>3. t.call # None => Known(cs, t.call, t.pool)
  BY <1>2 DEF LockFor, AsksAbout
<1>4. QED
  BY <1>2, <1>3 DEF Told

\* A dispatch keeps the lock, once its result does.
LEMMA LockDispatched ==
  ASSUME IInv, LockInv, NEW D, NEW result, Follows(state, result), About(result),
         Dispatch(SetToBag(D), result),
         ChainInv', Later, Grown(calls, calls'),
         NEW S, S = (OfKinds(tasks, Senders) \ D) \cup BegunOf(result.effects, Senders),
         (OfKinds(tasks, Senders) \ D) \cap BegunOf(result.effects, Senders) = {},
         LockFor(result.state.sending, S, calls', Landing')
  PROVE  LockInv'
<1>1. Coherent(result.state) /\ IsABag(tasks)
  BY DEF Follows, IInv
<1>2. OfKinds(tasks', Senders) = S /\ Single(tasks', Senders) /\ state'.sending = result.state.sending
  BY <1>1, Dispatched DEF LockInv, Senders, Alike
<1>3. ASSUME NEW t \in BagToSet(tasks') PROVE Reads(t)'
  <2>1. CASE t \in BagToSet(tasks)
    BY <2>1, ReadsStays DEF LockInv, ChainInv
  <2>2. CASE t \notin BagToSet(tasks)
    <3>1. PICK e : t = Begun(e) /\ AsksAbout(e, result.state.sending)
      BY <1>1, <2>2, DispatchedTasks
    <3>2. QED
      BY <3>1, BegunReads DEF Reads, Seen
  <2>3. QED
    BY <2>1, <2>2
<1>4. QED
  BY <1>2, <1>3 DEF LockInv

\* An event that leaves the lock as it is.
LEMMA LockAsideKeeps ==
  ASSUME IInv, LockInv, NEW D, D \cap OfKinds(tasks, Senders) = {},
         NEW result, Follows(state, result), LockAside(state, result),
         Dispatch(SetToBag(D), result), Passes
  PROVE  LockInv'
<1>1. BegunOf(result.effects, Senders) = {}
  BY BegunKind DEF LockAside, Sendless, BegunOf, Senders
<1>2. OfKinds(tasks, Senders) = (OfKinds(tasks, Senders) \ D) \cup BegunOf(result.effects, Senders)
  BY <1>1
<1>3. LockFor(result.state.sending, OfKinds(tasks, Senders), calls', Landing')
  BY LockStays DEF LockInv, LockAside, Passes, Landing
<1>4. QED
  BY <1>1, <1>2, <1>3, LockDispatched DEF Passes, LockAside

\* A task of another kind that goes on.
LEMMA LockGoesOn ==
  ASSUME IInv, LockInv, NEW t \in BagToSet(tasks), t.kind \notin Senders, NEW to,
         to.kind = t.kind, Goes(t, to), Reads(to), Passes
  PROVE  LockInv'
<1>1. /\ OfKinds(tasks', Senders) = OfKinds(tasks, Senders)
      /\ Single(tasks', Senders)
  BY SingleReplaced DEF Goes, IInv, LockInv, OfKinds
<1>2. LockFor(state'.sending, OfKinds(tasks', Senders), calls', Landing')
  BY <1>1, LockStays DEF LockInv, Goes, Passes, Landing
<1>3. BagToSet(tasks') \subseteq BagToSet(tasks) \cup {to}
  <2>1. IsABag(BagRemove(tasks, t)) /\ BagToSet(BagRemove(tasks, t)) \subseteq BagToSet(tasks)
    BY Taken DEF IInv
  <2>2. QED
    BY <2>1, Added DEF Goes
<1>4. ASSUME NEW x \in BagToSet(tasks') PROVE Reads(x)'
  <2>1. Reads(x)
    BY <1>3 DEF LockInv
  <2>2. QED
    BY <2>1, ReadsStays DEF LockInv, Passes, ChainInv
<1>5. QED
  BY <1>1, <1>2, <1>4 DEF LockInv, Passes

\* A step that leaves the page alone.
LEMMA LockKept ==
  ASSUME LockInv, UNCHANGED pageVars, Passes
  PROVE  LockInv'
<1>1. LockFor(state.sending, OfKinds(tasks, Senders), calls', Landing')
  BY LockStays DEF LockInv, Passes, Landing
<1>2. \A t \in BagToSet(tasks) : Reads(t)'
  BY ReadsStays DEF LockInv, Passes, ChainInv
<1>3. QED
  BY <1>1, <1>2 DEF LockInv, Passes, pageVars, Single, OfKinds

-----------------------------------------------------------------------------
(* The steps.                                                              *)

\* Reading a pool.
LEMMA ReadingKeepsLock ==
  ASSUME IInv, LockInv, NEW t \in Running("READ_POOL"),
         ReadBoxes(t) \/ transactionFate(t) \/ ReadAnswered(t) \/ ReadFails(t)
  PROVE  LockInv'
<1>1. /\ t \in BagToSet(tasks) /\ t.kind = "READ_POOL" /\ t.kind \notin Senders
      /\ Coherent(state) /\ Reads(t) /\ ChainInv
      /\ {t} \cap OfKinds(tasks, Senders) = {}
  BY DEF Running, IInv, Senders, LockInv, OfKinds
<1>2. /\ DOMAIN t = {"kind", "pool", "wallet", "call", "view", "fate", "at"}
      /\ Told(t, calls) /\ Seen(t)
  BY <1>1 DEF Reads
<1>3. Passes
  BY <1>1, StillPasses DEF ReadBoxes, transactionFate, ReadAnswered, ReadFails, chainVars
<1>4. CASE ReadBoxes(t)
  <2>1. PICK view \in Views(t.pool) :
          Goes(t, [t EXCEPT !.view =
                     IF t.call = None THEN [view EXCEPT !.round = None] ELSE view])
    BY <1>4, Zenon DEF ReadBoxes
  <2> DEFINE seen == IF t.call = None THEN [view EXCEPT !.round = None] ELSE view
             to == [t EXCEPT !.view = seen]
  <2>2. Goes(t, to)
    BY <2>1
  <2>3. t.call # None => seen = view
    OBVIOUS
  <2> HIDE DEF seen
  <2>4. /\ to.kind = t.kind /\ to.pool = t.pool /\ to.call = t.call /\ to.fate = t.fate
        /\ to.view = seen /\ DOMAIN to = DOMAIN t
    BY <1>2
  <2> HIDE DEF to
  <2>5. ASSUME t.call # None PROVE Seen(to)
    <3>1. t.pool \in Pool
      BY <1>1, <1>2, <2>5 DEF Told, Known, ChainInv
    <3>2. QED
      BY <1>1, <2>3, <2>4, <2>5, <3>1, ViewsSound DEF Seen
  <2>6. Reads(to)
    BY <1>2, <2>4, <2>5 DEF Reads, Told, Seen
  <2>7. QED
    BY <1>1, <1>3, <2>2, <2>4, <2>6, LockGoesOn
<1>5. CASE transactionFate(t)
  <2> DEFINE silent == [t EXCEPT !.fate = "silent"]
             dropped == [t EXCEPT !.fate = "dropped"]
             landed == [t EXCEPT !.fate = "confirmed", !.at = calls[t.call.tx].at]
  <2>1. \/ Goes(t, silent)
        \/ Goes(t, dropped) /\ calls[t.call.tx].fate = "dropped"
        \/ Goes(t, landed) /\ calls[t.call.tx].fate = "committed"
    BY <1>5, Zenon DEF transactionFate
  <2>2. ASSUME NEW to \in {silent, dropped, landed}
        PROVE  /\ to.kind = t.kind /\ to.pool = t.pool /\ to.call = t.call
               /\ to.view = t.view /\ DOMAIN to = DOMAIN t
    BY <1>2, <2>2
  <2>3. silent.fate = "silent" /\ dropped.fate = "dropped" /\ landed.fate = "confirmed"
    BY <1>2
  <2> HIDE DEF silent, dropped, landed
  <2>4. /\ Reads(silent)
        /\ calls[t.call.tx].fate = "dropped" => Reads(dropped)
        /\ calls[t.call.tx].fate = "committed" => Reads(landed)
    BY <1>2, <2>2, <2>3 DEF Reads, Told, Seen
  <2>5. QED
    BY <1>1, <1>3, <2>1, <2>2, <2>4, LockGoesOn
<1>6. CASE ReadAnswered(t)
  <2>1. PICK c : /\ c.pool = t.pool
                 /\ Ends(t, ReadReceived(state, c, IF t.call = None THEN None
                                         ELSE IF showsOutcome(t) THEN t.call.tx ELSE None))
    BY <1>6, Zenon DEF ReadAnswered
  <2>2. PICK finalFor : /\ Ends(t, ReadReceived(state, c, finalFor))
                        /\ \/ finalFor = None
                           \/ t.call # None /\ showsOutcome(t) /\ finalFor = t.call.tx
    BY <2>1
  <2> DEFINE result == ReadReceived(state, c, finalFor)
             S == OfKinds(tasks, Senders)
             lock == state.sending
  <2>3. Follows(state, result) /\ Dispatch(SetToBag({t}), result)
    BY <1>1, <2>2, ReadingFollows DEF Ends
  <2>4. /\ About(result) /\ Sendless(result)
        /\ \/ result.state.sending = lock
           \/ /\ result.state.sending = None
              /\ Waits(lock) /\ lock.pool = t.pool /\ finalFor = lock.call.tx
    BY <1>1, <2>1, ReadingLocks
  <2> HIDE DEF result
  <2>5. CASE result.state.sending = lock
    BY <1>1, <1>3, <2>3, <2>4, <2>5, LockAsideKeeps DEF LockAside
  <2>6. CASE /\ result.state.sending = None
             /\ Waits(lock) /\ lock.pool = t.pool /\ finalFor = lock.call.tx
    <3>1. S = {} /\ Landing \subseteq {lock.call.tx} /\ lock.call.tx \in DOMAIN calls
      BY <2>6 DEF LockInv, LockFor, Waits, Known
    <3>2. lock.call.tx # None
      BY <1>1, <3>1, PageAssumption DEF ChainInv
    <3>3. t.call # None /\ showsOutcome(t) /\ finalFor = t.call.tx
      BY <2>2, <2>6, <3>2
    <3>4. t.view # None
      BY <1>6 DEF ReadAnswered
    <3>5. t.call.tx \notin Landing
      <4>1. /\ Known(calls, t.call, t.pool) /\ calls[t.call.tx].lastValid \in Int
            /\ round \in Int
        BY <1>1, <1>2, <3>3 DEF Told, Known, ChainInv
      <4>2. CASE t.view.round = None
        BY <1>2, <3>3, <3>4, <4>1, <4>2, PageAssumption DEF Seen, Landing, CanLand, Known
      <4>3. CASE t.view.round # None /\ t.view.round >= t.call.lastValid
        <5>1. t.view.round \in Int /\ t.view.round <= round
          BY <1>2, <3>3, <3>4, <4>3 DEF Seen
        <5>2. ~(round < calls[t.call.tx].lastValid)
          BY <4>1, <4>3, <5>1 DEF Known
        <5>3. QED
          BY <5>2 DEF Landing, CanLand
      <4>4. CASE t.fate = "dropped" \/ t.fate = "confirmed"
        BY <1>2, <3>3, <4>4 DEF Told, Landing, CanLand
      <4>5. QED
        BY <3>3, <4>2, <4>3, <4>4 DEF showsOutcome
    <3>6. Landing' = {}
      BY <1>3, <2>6, <3>1, <3>3, <3>5 DEF Passes
    <3>7. LockFor(result.state.sending, S, calls', Landing')
      BY <2>6, <3>1, <3>6 DEF LockFor, IsLock, Waits
    <3>8. BegunOf(result.effects, Senders) = {}
      BY <2>4, BegunKind DEF Sendless, BegunOf, Senders
    <3>9. S = (S \ {t}) \cup BegunOf(result.effects, Senders)
      BY <3>1, <3>8
    <3>10. QED
      BY <1>3, <2>3, <2>4, <3>7, <3>8, <3>9, LockDispatched DEF Passes
  <2>7. QED
    BY <2>4, <2>5, <2>6
<1>7. CASE ReadFails(t)
  <2>1. /\ Follows(state, ReadFailed(state, t.pool, t.wallet))
        /\ LockAside(state, ReadFailed(state, t.pool, t.wallet))
    BY <1>1, ReadFailedFollows, EventsLockAside
  <2>2. QED
    BY <1>1, <1>3, <1>7, <2>1, LockAsideKeeps DEF ReadFails, Ends
<1>8. QED
  BY <1>4, <1>5, <1>6, <1>7

\* What is known of the one call being sent.
LEMMA SenderAlone ==
  ASSUME LockInv, NEW t \in Running("SEND_ACTION")
  PROVE  /\ OfKinds(tasks, Senders) = {t} /\ t \in BagToSet(tasks) /\ t.kind = "SEND_ACTION"
         /\ Locked(state.sending, t.action, t.pool) /\ state.sending.call = None
         /\ IsLock(state.sending) /\ ~Waits(state.sending)
         /\ Sends(t, calls) /\ Landing \subseteq {t.tx}
         /\ t.tx = 0 => Landing = {}
<1>1. t \in OfKinds(tasks, Senders)
  BY DEF Running, OfKinds, Senders
<1>2. /\ OfKinds(tasks, Senders) = {t}
      /\ Locked(state.sending, t.action, t.pool) /\ state.sending.call = None
      /\ IsLock(state.sending) /\ Sends(t, calls) /\ Landing \subseteq {t.tx}
  BY <1>1 DEF LockInv, LockFor
<1>3. t.tx = 0 => Landing = {}
  <2>1. 0 \notin DOMAIN calls
    BY DEF LockInv, ChainInv
  <2>2. QED
    BY <1>2, <2>1 DEF Landing
<1>4. QED
  BY <1>2, <1>3 DEF Running, Waits

\* It ends with nothing that may still land, and the lock is let go.
LEMMA EndedKeepsLock ==
  ASSUME IInv, LockInv, NEW t \in Running("SEND_ACTION"), Landing = {}, Passes,
         Ends(t, ActionEnded(state, t.action, t.pool))
  PROVE  LockInv'
<1> DEFINE result == ActionEnded(state, t.action, t.pool)
           S == OfKinds(tasks, Senders)
<1>1. S = {t} /\ Locked(state.sending, t.action, t.pool) /\ Coherent(state)
  BY SenderAlone DEF IInv
<1>2. /\ About(result) /\ Sendless(result) /\ result.state.sending = None
  BY <1>1, EndedLocks
<1>3. Follows(state, result)
  BY <1>1, ActingFollows
<1>4. Dispatch(SetToBag({t}), result)
  BY DEF Ends
<1> HIDE DEF result
<1>5. BegunOf(result.effects, Senders) = {}
  BY <1>2, BegunKind DEF Sendless, BegunOf, Senders
<1>6. {} = (S \ {t}) \cup BegunOf(result.effects, Senders)
  BY <1>1, <1>5
<1>7. LockFor(result.state.sending, {}, calls', Landing')
  BY <1>2 DEF LockFor, IsLock, Waits, Passes
<1>8. QED
  BY <1>2, <1>4, <1>5, <1>6, <1>7, <1>3, LockDispatched DEF Passes

\* It ends with nobody knowing whether it landed, and the lock is kept for it.
LEMMA UnconfirmedKeepsLock ==
  ASSUME IInv, LockInv, NEW t \in Running("SEND_ACTION"),
         ChainInv', Later, Grown(calls, calls'),
         NEW tx \in DOMAIN calls', tx \in Nat, Landing' \subseteq {tx},
         calls'[tx].action = t.action, calls'[tx].pool = t.pool,
         EndsUnconfirmed(t, tx, calls'[tx].lastValid)
  PROVE  LockInv'
<1> DEFINE call == [tx |-> tx, lastValid |-> calls'[tx].lastValid]
           result == ActionUnconfirmed(state, t.action, t.pool, call)
           S == OfKinds(tasks, Senders)
           lock == [state.sending EXCEPT !.call = call]
<1>1. /\ S = {t} /\ Locked(state.sending, t.action, t.pool) /\ IsLock(state.sending)
      /\ Coherent(state)
  BY SenderAlone DEF IInv
<1>2. /\ About(result) /\ Sendless(result) /\ result.state.sending = lock
      /\ Follows(state, result)
  BY <1>1, UnconfirmedLocks, ActingFollows
<1>3. Dispatch(SetToBag({t}), result)
  BY DEF EndsUnconfirmed, Ends
<1> HIDE DEF result
<1>4. BegunOf(result.effects, Senders) = {}
  BY <1>2, BegunKind DEF Sendless, BegunOf, Senders
<1>5. {} = (S \ {t}) \cup BegunOf(result.effects, Senders)
  BY <1>1, <1>4
<1>6. /\ lock.call = call /\ lock.action = t.action /\ lock.pool = t.pool
      /\ lock \in [action : Action, pool : Pool,
                  call : {None} \cup [tx : Nat, lastValid : Int]]
      /\ lock # None
  <2>1. calls'[tx].lastValid \in Int
    BY DEF ChainInv
  <2>2. call \in [tx : Nat, lastValid : Int]
    BY <2>1
  <2>3. state.sending \in [action : Action, pool : Pool,
                           call : {None} \cup [tx : Nat, lastValid : Int]]
    BY <1>1 DEF Locked, IsLock
  <2> HIDE DEF call
  <2>4. /\ lock.call = call /\ lock.action = t.action /\ lock.pool = t.pool
        /\ lock \in [action : Action, pool : Pool,
                    call : {None} \cup [tx : Nat, lastValid : Int]]
    BY <1>1, <2>2, <2>3 DEF Locked
  <2>5. QED
    BY <2>4, PageAssumption
<1>7. call.tx = tx /\ call.lastValid = calls'[tx].lastValid
  OBVIOUS
<1> HIDE DEF lock, call
<1>8. LockFor(lock, {}, calls', Landing')
  BY <1>6, <1>7 DEF LockFor, IsLock, Waits, Known, Locked
<1>9. QED
  BY <1>2, <1>3, <1>4, <1>5, <1>8, LockDispatched

\* It goes on.
LEMMA SenderGoesOn ==
  ASSUME IInv, LockInv, NEW t \in Running("SEND_ACTION"), NEW to,
         to.kind = t.kind, to.action = t.action, to.pool = t.pool, Sends(to, calls'),
         Goes(t, to), ChainInv', Later, Grown(calls, calls'), Landing' \subseteq {to.tx},
         \A tx \in Landing' : calls'[tx].action = t.action /\ calls'[tx].pool = t.pool
  PROVE  LockInv'
<1> DEFINE S == OfKinds(tasks, Senders)
<1>1. /\ S = {t} /\ t \in BagToSet(tasks) /\ t.kind = "SEND_ACTION"
      /\ Locked(state.sending, t.action, t.pool) /\ state.sending.call = None
      /\ IsLock(state.sending) /\ ~Waits(state.sending)
  BY SenderAlone
<1>2. to \notin S \ {t}
  BY <1>1
<1>3. OfKinds(tasks', Senders) = (S \ {t}) \cup {to} /\ Single(tasks', Senders)
  BY <1>1, <1>2, SingleReplaced DEF Goes, IInv, LockInv, Senders
<1>4. OfKinds(tasks', Senders) = {to}
  BY <1>1, <1>3
<1>5. state' = state
  BY DEF Goes
<1>6. LockFor(state'.sending, {to}, calls', Landing')
  BY <1>1, <1>5 DEF LockFor, Locked
<1>7. BagToSet(tasks') \subseteq BagToSet(tasks) \cup {to}
  <2>1. IsABag(BagRemove(tasks, t)) /\ BagToSet(BagRemove(tasks, t)) \subseteq BagToSet(tasks)
    BY Taken DEF IInv
  <2>2. QED
    BY <2>1, Added DEF Goes
<1>8. ASSUME NEW x \in BagToSet(tasks') PROVE Reads(x)'
  <2>1. Reads(x)
    BY <1>1, <1>7 DEF LockInv, Reads
  <2>2. QED
    BY <2>1, ReadsStays DEF LockInv, ChainInv
<1>9. QED
  BY <1>3, <1>4, <1>6, <1>8 DEF LockInv

\* Sending a call.
LEMMA SendingKeepsLock ==
  ASSUME IInv, LockInv, NEW t \in Running("SEND_ACTION"),
         Compose(t) \/ Submit(t) \/ SendFails(t) \/ WaitEnds(t)
  PROVE  LockInv'
<1>1. /\ Locked(state.sending, t.action, t.pool) /\ IsLock(state.sending)
      /\ Sends(t, calls) /\ Landing \subseteq {t.tx} /\ (t.tx = 0 => Landing = {})
      /\ DOMAIN t = {"kind", "pool", "action", "sender", "built", "tx"}
      /\ ChainInv
  BY SenderAlone DEF Sends, LockInv
<1>2. t.pool \in Pool
  BY <1>1 DEF Locked, IsLock
<1>3. CASE Compose(t)
  <2>1. Passes
    BY <1>1, <1>3, StillPasses DEF Compose, chainVars
  <2>2. PICK view \in Views(t.pool) :
          /\ view.record # None
          /\ Goes(t, [t EXCEPT !.built =
               [action |-> t.action, pool |-> t.pool, count |-> RefundBatchSize(view.record),
                seats |-> Named(t.action, view.record, view.roster, t.sender),
                lastValid |-> view.round + Validity, fate |-> "unsent", at |-> 0]])
    BY <1>3, Zenon DEF Compose
  <2> DEFINE call(count, seats) ==
               [action |-> t.action, pool |-> t.pool, count |-> count, seats |-> seats,
                lastValid |-> view.round + Validity, fate |-> "unsent", at |-> 0]
  <2>3. PICK count, seats : Goes(t, [t EXCEPT !.built = call(count, seats)])
    BY <2>2, Zenon
  <2>4. view.round + Validity \in Int
    <3>1. view.round \in Int
      BY <1>1, <1>2, <2>2, ViewsSound
    <3>2. QED
      BY <3>1, PageAssumption
  <2> DEFINE built == call(count, seats)
             to == [t EXCEPT !.built = built]
  <2>5. /\ DOMAIN built = {"action", "pool", "count", "seats", "lastValid", "fate", "at"}
        /\ built.action = t.action /\ built.pool = t.pool /\ built.lastValid \in Int
    BY <2>4
  <2>6. Goes(t, to)
    BY <2>3
  <2> HIDE DEF built
  <2>7. /\ to.kind = t.kind /\ to.action = t.action /\ to.pool = t.pool /\ to.tx = t.tx
        /\ to.built = built /\ DOMAIN to = DOMAIN t
    BY <1>1
  <2> HIDE DEF to
  <2>8. t.tx = 0 /\ Landing' = {}
    BY <1>1, <1>3, <2>1 DEF Compose, Passes
  <2>9. Sends(to, calls')
    BY <1>1, <2>5, <2>7, <2>8 DEF Sends
  <2>10. QED
    BY <2>1, <2>6, <2>7, <2>8, <2>9, SenderGoesOn DEF Passes
<1>4. CASE Submit(t)
  <2> DEFINE tx == Len(calls) + 1
             call(fate) == [t.built EXCEPT !.fate = fate]
  <2>1. /\ t.built # None /\ round' = round /\ blocks' = blocks
        /\ calls' = Append(calls, call("travelling")) \/ calls' = Append(calls, call("never"))
    BY <1>4, Zenon DEF Submit, chainVars
  <2>2. PICK fate : calls' = Append(calls, call(fate))
    BY <2>1
  <2>3. /\ DOMAIN t.built = {"action", "pool", "count", "seats", "lastValid", "fate", "at"}
        /\ t.built.action = t.action /\ t.built.pool = t.pool /\ t.built.lastValid \in Int
        /\ t.tx = 0 /\ Landing = {}
    BY <1>1, <2>1 DEF Sends
  <2>4. /\ call(fate).action = t.action /\ call(fate).pool = t.pool
        /\ call(fate).lastValid = t.built.lastValid
    BY <2>3
  <2> HIDE DEF call
  <2>5. /\ calls' \in Seq(Range(calls) \cup {call(fate)})
        /\ DOMAIN calls' = DOMAIN calls \cup {tx}
        /\ tx \in Nat /\ tx # 0 /\ tx \notin DOMAIN calls /\ calls'[tx] = call(fate)
        /\ \A x \in DOMAIN calls : calls'[x] = calls[x]
    BY <1>1, <2>2 DEF ChainInv
  <2>6. calls' \in Seq(Range(calls'))
    BY <2>5, OwnRange
  <2>7. Grown(calls, calls') /\ Later /\ round' \in Int
    BY <1>1, <2>1, <2>5 DEF Grown, Later, ChainInv, Pools
  <2>8. \A x \in DOMAIN calls' : calls'[x].pool \in Pool /\ calls'[x].lastValid \in Int
    BY <1>1, <1>2, <2>3, <2>4, <2>5 DEF ChainInv
  <2>9. ChainInv'
    BY <1>1, <2>1, <2>6, <2>8 DEF ChainInv, Lasting
  <2>10. Landing' \subseteq {tx}
    BY <1>1, <2>3, <2>5, <2>7, LandingShrinks
  <2> HIDE DEF tx
  <2>11. CASE Goes(t, [t EXCEPT !.built = None, !.tx = tx])
    <3> DEFINE to == [t EXCEPT !.built = None, !.tx = tx]
    <3>1. /\ to.kind = t.kind /\ to.action = t.action /\ to.pool = t.pool /\ to.tx = tx
          /\ to.built = None /\ DOMAIN to = DOMAIN t
      BY <1>1
    <3>2. Goes(t, to)
      BY <2>11
    <3> HIDE DEF to
    <3>3. Sends(to, calls')
      BY <1>1, <2>4, <2>5, <3>1 DEF Sends
    <3>4. QED
      BY <2>4, <2>5, <2>7, <2>9, <2>10, <3>1, <3>2, <3>3, SenderGoesOn
  <2>12. CASE EndsUnconfirmed(t, tx, t.built.lastValid)
    BY <2>4, <2>5, <2>7, <2>9, <2>10, <2>12, UnconfirmedKeepsLock
  <2>13. Goes(t, [t EXCEPT !.built = None, !.tx = tx]) \/ EndsUnconfirmed(t, tx, t.built.lastValid)
    BY <1>4, Zenon DEF Submit, tx
  <2>14. QED
    BY <2>11, <2>12, <2>13
<1>5. CASE SendFails(t)
  <2>1. Passes /\ Landing = {}
    BY <1>1, <1>5, StillPasses DEF SendFails, chainVars
  <2>2. QED
    BY <1>5, <2>1, EndedKeepsLock DEF SendFails
<1>6. CASE WaitEnds(t)
  <2>1. Passes /\ calls' = calls
    BY <1>1, <1>6, StillPasses DEF WaitEnds, chainVars
  <2>2. /\ t.tx \in DOMAIN calls /\ t.tx \in Nat
        /\ calls[t.tx].action = t.action /\ calls[t.tx].pool = t.pool
    BY <1>1, <1>6 DEF WaitEnds, Sends, ChainInv
  <2>3. CASE /\ calls[t.tx].fate \in {"committed", "dropped"}
             /\ Ends(t, ActionEnded(state, t.action, t.pool))
    <3>1. Landing = {}
      BY <1>1, <2>3 DEF Landing, CanLand
    <3>2. QED
      BY <2>1, <2>3, <3>1, EndedKeepsLock
  <2>4. CASE EndsUnconfirmed(t, t.tx, calls[t.tx].lastValid)
    BY <1>1, <2>1, <2>2, <2>4, UnconfirmedKeepsLock DEF Passes
  <2>5. QED
    BY <1>6, <2>3, <2>4 DEF WaitEnds
<1>7. QED
  BY <1>3, <1>4, <1>5, <1>6

\* What a new task adds to the lock, and what others leave.
LEMMA IdleKeepsLock ==
  ASSUME IInv, LockInv, NEW result, Follows(state, result), LockAside(state, result),
         Idle(result), UNCHANGED <<round, blocks, calls>>
  PROVE  LockInv'
<1>1. Passes
  BY StillPasses DEF LockInv
<1>2. Dispatch(SetToBag({}), result)
  BY DEF Idle, EmptyBag
<1>3. QED
  BY <1>1, <1>2, LockAsideKeeps

LEMMA EndKeepsLock ==
  ASSUME IInv, LockInv, NEW t \in BagToSet(tasks), t.kind \notin Senders,
         NEW result, Follows(state, result), LockAside(state, result),
         Ends(t, result), UNCHANGED <<round, blocks, calls>>
  PROVE  LockInv'
<1>1. Passes
  BY StillPasses DEF LockInv
<1>2. {t} \cap OfKinds(tasks, Senders) = {}
  BY DEF OfKinds
<1>3. QED
  BY <1>1, <1>2, LockAsideKeeps DEF Ends

\* The router.
LEMMA OpeningKeepsLock ==
  ASSUME IInv, LockInv, NEW pool, Open(pool)
  PROVE  LockInv'
<1> DEFINE result == IF pool = None THEN OpenedEntry(state) ELSE OpenedPool(state, pool)
           begun == BegunAll(result.effects)
<1>1. /\ state' = result.state /\ tasks' = tasks (+) begun
      /\ UNCHANGED <<round, blocks, calls>>
  BY DEF Open, chainVars
<1>2. Passes
  BY <1>1, StillPasses DEF LockInv
<1>3. LockAside(state, result) /\ IsABag(tasks)
  BY MovesLockAside DEF IInv
<1> HIDE DEF result
<1>4. BegunOf(result.effects, Senders) = {}
  BY <1>3, BegunKind DEF LockAside, Sendless, BegunOf, Senders
<1>5. /\ OfKinds(begun, Senders) = {} /\ Single(begun, Senders) /\ IsABag(begun)
      /\ BagToSet(begun) = {Begun(e) : e \in result.effects}
  BY <1>4, BegunOfKinds, OnceEach DEF BegunAll
<1> HIDE DEF begun
<1>6. /\ OfKinds(tasks', Senders) = OfKinds(tasks, Senders) \cup {}
      /\ Single(tasks', Senders)
  BY <1>1, <1>3, <1>5, SingleAdded DEF LockInv
<1>7. OfKinds(tasks', Senders) = OfKinds(tasks, Senders)
  BY <1>6
<1>8. LockFor(state'.sending, OfKinds(tasks', Senders), calls', Landing')
  BY <1>1, <1>2, <1>3, <1>7, LockStays DEF LockInv, LockAside, Passes, Landing
<1>9. ASSUME NEW t \in BagToSet(tasks') PROVE Reads(t)'
  <2>1. CASE t \in BagToSet(tasks)
    BY <1>2, <2>1, ReadsStays DEF LockInv, Passes, ChainInv
  <2>2. CASE t \notin BagToSet(tasks)
    <3>1. PICK e \in result.effects : t = Begun(e)
      BY <1>1, <1>3, <1>5, <2>2, Added
    <3>2. AsksAbout(e, state'.sending)
      BY <1>1, <1>3, <3>1 DEF LockAside, About
    <3>3. QED
      BY <1>8, <3>1, <3>2, BegunReads DEF Reads, Seen
  <2>3. QED
    BY <2>1, <2>2
<1>10. QED
  BY <1>2, <1>6, <1>8, <1>9 DEF LockInv, Passes

\* A button.
LEMMA ActKeepsLock ==
  ASSUME IInv, QuestionInv, LockInv, Act
  PROVE  LockInv'
<1>1. Coherent(state) /\ url = state.screen /\ url \in Pool \cup {None}
  BY DEF IInv, QuestionInv
<1>2. PICK action \in Offered(state.circumstances) : Idle(ActionRequested(state, action))
  BY DEF Act
<1> DEFINE result == ActionRequested(state, action)
           lock == [action |-> action, pool |-> state.screen, call |-> None]
           e == [kind |-> "SEND_ACTION", action |-> action, pool |-> state.screen]
<1>3. Idle(result) /\ Follows(state, result) /\ UNCHANGED <<round, blocks, calls>>
  BY <1>1, <1>2, ActingFollows DEF Act, chainVars
<1>4. CASE LockAside(state, result)
  BY <1>3, <1>4, IdleKeepsLock
<1>5. CASE /\ state.sending = None /\ state.screen # None
           /\ result.state.sending = lock /\ result.effects = {e} /\ About(result)
  <2> DEFINE t == Begun(e)
  <2>1. /\ t.kind = "SEND_ACTION" /\ t.action = action /\ t.pool = state.screen
        /\ t.built = None /\ t.tx = 0
        /\ DOMAIN t = {"kind", "pool", "action", "sender", "built", "tx"}
    BY DEF Begun
  <2>2. lock \in [action : Action, pool : Pool, call : {None} \cup [tx : Nat, lastValid : Int]]
    <3>1. action \in Action
      BY DEF Offered
    <3>2. QED
      BY <1>1, <1>5, <3>1
  <2>3. lock # None /\ lock.action = action /\ lock.pool = state.screen /\ lock.call = None
    BY <2>2, PageAssumption
  <2> HIDE DEF result, lock, e
  <2>4. BegunOf(result.effects, Senders) = {t}
    BY <1>5, <2>1 DEF BegunOf, Senders
  <2> HIDE DEF t
  <2>5. OfKinds(tasks, Senders) = {} /\ Landing = {}
    BY <1>5 DEF LockInv, LockFor, Locked
  <2>6. Passes
    BY <1>3, StillPasses DEF LockInv
  <2>7. LockFor(lock, {t}, calls', Landing')
    BY <2>1, <2>2, <2>3, <2>5, <2>6 DEF LockFor, IsLock, Waits, Locked, Sends, Passes
  <2>8. Dispatch(SetToBag({}), result)
    BY <1>3 DEF Idle, EmptyBag
  <2>9. {t} = (OfKinds(tasks, Senders) \ {}) \cup BegunOf(result.effects, Senders)
    BY <2>4, <2>5
  <2>10. QED
    BY <1>3, <1>5, <2>5, <2>6, <2>7, <2>8, <2>9, LockDispatched DEF Passes
<1>6. QED
  BY <1>1, <1>4, <1>5, RequestLocks

\* The user, the wallet layer and the timer.
LEMMA UserKeepsLock ==
  ASSUME IInv, QuestionInv, LockInv, User \/ WalletSeen \/ Refresh
  PROVE  LockInv'
<1>1. Coherent(state)
  BY DEF IInv
<1>2. CASE AskQuote
  BY <1>1, <1>2, IdleKeepsLock, EventsLockAside, BuyingFollows DEF AskQuote, chainVars
<1>3. CASE Buy
  BY <1>1, <1>3, IdleKeepsLock, EventsLockAside, BuyingFollows DEF Buy, chainVars
<1>4. CASE FindSeats
  BY <1>1, <1>4, IdleKeepsLock, EventsLockAside, FindingFollows DEF FindSeats, chainVars
<1>5. CASE WalletSeen
  BY <1>1, <1>5, IdleKeepsLock, EventsLockAside, WalletFollows DEF WalletSeen, chainVars
<1>6. CASE Refresh
  BY <1>1, <1>6, IdleKeepsLock, ReadLockAside, ReadFollows DEF Refresh, chainVars
<1>7. ASSUME NEW wallet, ChangeWallet(wallet) PROVE LockInv'
  <2>1. Passes /\ UNCHANGED pageVars
    BY <1>7, StillPasses DEF ChangeWallet, chainVars, LockInv
  <2>2. QED
    BY <2>1, LockKept
<1>8. QED
  BY <1>2, <1>3, <1>4, <1>5, <1>6, <1>7, OpeningKeepsLock, ActKeepsLock DEF User

\* Buying, and looking for seats.
LEMMA BuyingKeepsLock ==
  ASSUME IInv, QuestionInv, LockInv,
         \/ \E t \in Running("REQUEST_QUOTE") : QuoteAnswered(t)
         \/ \E t \in Running("VERIFY_QUOTE") : QuoteChecked(t)
         \/ \E t \in Running("BUILD_AND_SIGN") :
              SeatSettles(t) \/ SettlementAnswered(t) \/ SettlementFails(t)
         \/ \E t \in Running("FIND_MY_POOLS") : FindAnswered(t)
         \/ \E t \in Running("IN_FLIGHT") : InFlightEnds(t)
  PROVE  LockInv'
<1>1. Coherent(state) /\ ChainInv
  BY DEF IInv, LockInv
<1>2. ASSUME NEW kind, kind # "SEND_ACTION", NEW t \in Running(kind)
      PROVE  t \in BagToSet(tasks) /\ t.kind = kind /\ t.kind \notin Senders
  BY <1>2 DEF Running, Senders
<1>3. ASSUME NEW t \in Running("REQUEST_QUOTE"), QuoteAnswered(t) PROVE LockInv'
  <2>1. UNCHANGED <<round, blocks, calls>>
    BY <1>3 DEF QuoteAnswered, chainVars
  <2>2. \A pool \in Pool : /\ Follows(state, QuoteReceived(state, pool))
                           /\ LockAside(state, QuoteReceived(state, pool))
    BY <1>1, QuoteFollows, MovesLockAside, PageAssumption
  <2>3. /\ Follows(state, QuoteRefused(state)) /\ LockAside(state, QuoteRefused(state))
        /\ Follows(state, QuoteFailed(state)) /\ LockAside(state, QuoteFailed(state))
    BY <1>1, BuyingFollows, EventsLockAside
  <2>4. PICK result : Follows(state, result) /\ LockAside(state, result) /\ Ends(t, result)
    BY <1>3, <2>2, <2>3 DEF QuoteAnswered
  <2>5. QED
    BY <1>2, <2>1, <2>4, EndKeepsLock
<1>4. ASSUME NEW t \in Running("VERIFY_QUOTE"), QuoteChecked(t) PROVE LockInv'
  <2>1. UNCHANGED <<round, blocks, calls>>
    BY <1>4 DEF QuoteChecked, chainVars
  <2>2. /\ Follows(state, QuoteVerified(state)) /\ LockAside(state, QuoteVerified(state))
        /\ Follows(state, QuoteStale(state)) /\ LockAside(state, QuoteStale(state))
        /\ Follows(state, QuoteUnverifiable(state))
        /\ LockAside(state, QuoteUnverifiable(state))
    BY <1>1, BuyingFollows, EventsLockAside
  <2>3. PICK result : Follows(state, result) /\ LockAside(state, result) /\ Ends(t, result)
    BY <1>4, <2>2 DEF QuoteChecked
  <2>4. QED
    BY <1>2, <2>1, <2>3, EndKeepsLock
<1>5. ASSUME NEW t \in Running("BUILD_AND_SIGN"), SeatSettles(t) PROVE LockInv'
  <2> DEFINE to == [t EXCEPT !.paid = TRUE]
  <2>1. Goes(t, to) /\ Passes
    BY <1>1, <1>5, JoinPasses DEF SeatSettles
  <2>2. to.kind = t.kind /\ t.kind = "BUILD_AND_SIGN"
    BY <1>2
  <2> HIDE DEF to
  <2>3. Reads(to)
    BY <2>2 DEF Reads
  <2>4. QED
    BY <1>2, <2>1, <2>2, <2>3, LockGoesOn
<1>6. ASSUME NEW t \in Running("BUILD_AND_SIGN"), SettlementAnswered(t) PROVE LockInv'
  <2>1. t.pool = state.quote /\ state.quote \in Pool
    BY DEF QuestionInv, Question, AskedFor, OfKinds, Running, Questions
  <2>2. Follows(state, Settled(state, t.pool)) /\ LockAside(state, Settled(state, t.pool))
    BY <1>1, <2>1, SettledFollows, MovesLockAside, PageAssumption
  <2>3. QED
    BY <1>2, <1>6, <2>2, EndKeepsLock DEF SettlementAnswered, chainVars
<1>7. ASSUME NEW t \in Running("BUILD_AND_SIGN"), SettlementFails(t) PROVE LockInv'
  <2> DEFINE failed == SettleFailed(state)
             e == [kind |-> "IN_FLIGHT", pool |-> t.pool, sender |-> t.sender]
             flying == [failed EXCEPT !.effects = @ \cup {e}]
  <2>1. Follows(state, failed) /\ LockAside(state, failed)
    BY <1>1, BuyingFollows, EventsLockAside
  <2>2. DOMAIN failed = {"state", "effects", "path"} /\ failed.effects = {}
    BY DEF SettleFailed, Only, Result
  <2>3. Tagged(e) /\ e.kind = "IN_FLIGHT"
    BY DEF Tagged
  <2>4. Ends(t, failed) \/ Ends(t, flying)
    BY <1>7 DEF SettlementFails
  <2> HIDE DEF failed, e
  <2>5. flying.state = failed.state /\ flying.path = failed.path /\ flying.effects = {e}
    BY <2>2
  <2>6. Follows(state, flying) /\ LockAside(state, flying)
    BY <2>1, <2>2, <2>3, <2>5 DEF Follows, Spins, LockAside, About, AsksAbout, Sendless
  <2> HIDE DEF flying
  <2>7. UNCHANGED <<round, blocks, calls>>
    BY <1>7 DEF SettlementFails, chainVars
  <2>8. QED
    BY <1>2, <2>1, <2>4, <2>6, <2>7, EndKeepsLock
<1>8. ASSUME NEW t \in Running("FIND_MY_POOLS"), FindAnswered(t) PROVE LockInv'
  BY <1>1, <1>2, <1>8, FindingFollows, EventsLockAside, EndKeepsLock DEF FindAnswered, chainVars
<1>9. ASSUME NEW t \in Running("IN_FLIGHT"), InFlightEnds(t) PROVE LockInv'
  <2>1. t \in BagToSet(tasks) /\ t.kind \notin Senders /\ IsABag(tasks)
    BY <1>2 DEF IInv
  <2>2. Passes /\ state' = state /\ tasks' = BagRemove(tasks, t)
    BY <1>1, <1>9, JoinPasses, StillPasses DEF InFlightEnds, chainVars
  <2>3. /\ OfKinds(tasks', Senders) = OfKinds(tasks, Senders) /\ Single(tasks', Senders)
        /\ BagToSet(tasks') \subseteq BagToSet(tasks)
    BY <2>1, <2>2, SingleRemoved, Taken DEF LockInv
  <2>4. LockFor(state'.sending, OfKinds(tasks', Senders), calls', Landing')
    BY <2>2, <2>3, LockStays DEF LockInv, Passes, Landing
  <2>5. ASSUME NEW x \in BagToSet(tasks') PROVE Reads(x)'
    BY <2>2, <2>3, ReadsStays DEF LockInv, Passes, ChainInv
  <2>6. QED
    BY <2>2, <2>3, <2>4, <2>5 DEF LockInv, Passes
<1>10. QED
  BY <1>3, <1>4, <1>5, <1>6, <1>7, <1>8, <1>9

\* The page as it is loaded holds no lock.
LEMMA NothingLocked == Init => LockInv
<1> SUFFICES ASSUME Init PROVE LockInv
  OBVIOUS
<1>1. PICK pool \in Pool \cup {None} :
        LET mounted == IF pool = None THEN OpenedEntry(initialState)
                                      ELSE OpenedPool(initialState, pool)
        IN  state = mounted.state /\ tasks = BegunAll(mounted.effects)
  BY DEF Init
<1> DEFINE mounted == IF pool = None THEN OpenedEntry(initialState)
                                     ELSE OpenedPool(initialState, pool)
<1>2. Coherent(initialState) /\ initialState.sending = None
  BY DEF Coherent, Fields, initialState
<1>3. LockAside(initialState, mounted)
  BY <1>2, MovesLockAside
<1>4. state = mounted.state /\ tasks = BegunAll(mounted.effects)
  BY <1>1
<1> HIDE DEF mounted
<1>5. /\ OfKinds(tasks, Senders) = {} /\ Single(tasks, Senders)
      /\ BagToSet(tasks) = {Begun(e) : e \in mounted.effects}
  <2>1. BegunOf(mounted.effects, Senders) = {}
    BY <1>3, BegunKind DEF LockAside, Sendless, BegunOf, Senders
  <2>2. QED
    BY <1>4, <2>1, BegunOfKinds, OnceEach DEF BegunAll
<1>6. round = 1 /\ blocks = <<InitialRecord>> /\ calls = <<>>
  BY DEF Init
<1>7. ChainInv
  <2>1. blocks \in Seq({InitialRecord}) /\ DOMAIN blocks = 1..1 /\ Len(blocks) = 1
    BY <1>6
  <2>2. blocks \in Seq(Range(blocks))
    BY <2>1, OwnRange
  <2>3. calls \in Seq(Range(calls)) /\ DOMAIN calls = {}
    BY <1>6
  <2>4. \A i \in DOMAIN blocks : DOMAIN blocks[i] = Pool
    BY <1>6, <2>1, PageAssumption
  <2>5. Lasting(blocks)
    BY <2>1 DEF Lasting
  <2>6. QED
    BY <1>6, <2>1, <2>2, <2>3, <2>4, <2>5 DEF ChainInv
<1>8. state.sending = None /\ Landing = {}
  BY <1>2, <1>3, <1>4, <1>6 DEF LockAside, Landing
<1>9. LockFor(state.sending, {}, calls, Landing)
  BY <1>8 DEF LockFor, IsLock, Waits
<1>10. ASSUME NEW t \in BagToSet(tasks) PROVE Reads(t)
  <2>1. PICK e \in mounted.effects : t = Begun(e)
    BY <1>5
  <2>2. e.kind = "READ_POOL" => e.call = None
    BY <1>3, <1>4, <1>8, <2>1 DEF LockAside, About, AsksAbout, Waits
  <2>3. ASSUME e.kind = "READ_POOL"
        PROVE  /\ t.call = None
               /\ DOMAIN t = {"kind", "pool", "wallet", "call", "view", "fate", "at"}
    BY <2>1, <2>2, <2>3 DEF Begun
  <2>4. QED
    BY <2>1, <2>3, BegunKind DEF Reads, Told, Seen
<1>11. QED
  BY <1>5, <1>7, <1>9, <1>10 DEF LockInv

LEMMA LockInvariant == Spec => []LockInv
<1>1. IInv /\ QuestionInv /\ LockInv /\ [Next]_vars => LockInv'
  <2> SUFFICES ASSUME IInv, QuestionInv, LockInv, [Next]_vars PROVE LockInv'
    OBVIOUS
  <2>1. CASE UNCHANGED vars
    <3>1. Passes /\ UNCHANGED pageVars
      BY <2>1, StillPasses DEF vars, pageVars, chainVars, LockInv
    <3>2. QED
      BY <3>1, LockKept
  <2>2. CASE Effects
    BY <2>2, ReadingKeepsLock, SendingKeepsLock, BuyingKeepsLock DEF Effects
  <2>3. CASE User \/ WalletSeen \/ Refresh
    BY <2>3, UserKeepsLock
  <2>4. CASE Others \/ \E tx \in DOMAIN calls : Commit(tx) \/ Drop(tx)
    <3>1. UNCHANGED pageVars /\ Passes
      BY <2>4, WorldLeavesPage, WorldPasses DEF LockInv
    <3>2. QED
      BY <3>1, LockKept
  <2>5. QED
    BY <2>1, <2>2, <2>3, <2>4 DEF Next
<1>2. QED
  BY <1>1, NothingLocked, Invariant, PurchaseInvariant, PTL DEF Spec

\* One refund-path call at a time: whatever the buyer presses, whichever pools
\* they open and however the answers of the node cross each other, the page
\* never has two calls that may land, and the lock is held for the one it has
\* (machine.ts ACTION_REQUESTED to ACTION_UNCONFIRMED, reader.ts showsOutcome).
THEOREM LockHoldsAlways == Spec => []LockHolds
<1>1. LockInv => LockHolds
  <2> SUFFICES ASSUME LockInv PROVE LockHolds
    OBVIOUS
  <2>1. Running("SEND_ACTION") = OfKinds(tasks, Senders)
    BY DEF Running, OfKinds, Senders
  <2>2. \A action, pool : Locked(state.sending, action, pool) <=> Completes(state, action, pool)
    BY DEF Locked, Completes
  <2>3. Unconfirmed(state) <=> Waits(state.sending)
    BY DEF Unconfirmed, Waits
  <2>4. ASSUME NEW t \in Running("SEND_ACTION")
        PROVE  /\ Completes(state, t.action, t.pool) /\ ~Unconfirmed(state)
               /\ tasks[t] = 1 /\ Running("SEND_ACTION") = {t} /\ Landing \subseteq {t.tx}
    BY <2>1, <2>2, <2>3 DEF LockInv, LockFor, Single, Waits
  <2>5. ASSUME NEW tx \in Landing
        PROVE  /\ Completes(state, calls[tx].action, calls[tx].pool)
               /\ Unconfirmed(state) => state.sending.call.tx = tx
    BY <2>2, <2>3 DEF LockInv, LockFor
  <2>6. QED
    BY <2>4, <2>5 DEF LockHolds, Landing
<1>2. QED
  BY <1>1, LockInvariant, PTL

-----------------------------------------------------------------------------
(* What a record keeps as calls come, and what it shows of one that landed. *)

\* A record as the chain may have it: what its cursor has gone by was paid for.
SoundRecord(r) ==
  /\ DOMAIN r = {"state", "late", "gone", "payers", "owed", "cursor"}
  /\ r.payers \in Seq(Range(r.payers))
  /\ r.owed \subseteq Int
  /\ r.cursor \in Nat /\ r.cursor <= Len(r.payers)

\* A record and a later one of the same pool: a refund pass goes one way, and no
\* seat behind its cursor is owed anew.
Onward(a, b) ==
  /\ a.gone => b.gone
  /\ DOMAIN a.payers \subseteq DOMAIN b.payers
  /\ a.cursor <= b.cursor
  /\ a.state \notin {"OPEN", "FUNDED"} => b.state \notin {"OPEN", "FUNDED"}
  /\ a.state \notin {"OPEN", "FUNDED", "EXPIRED"} => b.state \notin {"OPEN", "FUNDED", "EXPIRED"}
  /\ \A i \in b.owed : i <= a.cursor => i \in a.owed

\* The record has what the call did to it.
Shows(r, call) ==
  \/ r.gone
  \/ call.action = "expire" /\ r.state \notin {"OPEN", "FUNDED"}
  \/ /\ call.action = "refund_next"
     /\ r.state \notin {"OPEN", "FUNDED", "EXPIRED"}
     /\ \A i \in call.seats : i <= r.cursor
  \/ /\ call.action = "claim_refund"
     /\ \A i \in call.seats : i <= r.cursor /\ i \notin r.owed

\* The seats a call names are within what it will go by when it lands.
Aims(call, r) ==
  /\ call.seats \subseteq Int
  /\ call.action = "refund_next" =>
       /\ call.count \in Nat
       /\ \A i \in call.seats : i \in DOMAIN r.payers /\ i <= r.cursor + call.count

LEMMA OnwardSelf ==
  ASSUME NEW r, SoundRecord(r)
  PROVE  Onward(r, r)
BY DEF SoundRecord, Onward

LEMMA OnwardOn ==
  ASSUME NEW a, SoundRecord(a), NEW b, SoundRecord(b), NEW c, SoundRecord(c),
         Onward(a, b), Onward(b, c)
  PROVE  Onward(a, c)
<1>1. ASSUME NEW i \in c.owed, i <= a.cursor PROVE i \in a.owed
  <2>1. i \in Int /\ a.cursor \in Nat /\ b.cursor \in Nat /\ a.cursor <= b.cursor
    BY DEF SoundRecord, Onward
  <2>2. i \in b.owed
    BY <1>1, <2>1 DEF Onward
  <2>3. QED
    BY <1>1, <2>2 DEF Onward
<1>2. a.cursor <= c.cursor
  BY DEF SoundRecord, Onward
<1>3. QED
  BY <1>1, <1>2 DEF Onward

\* Once shown, always shown.
LEMMA ShowsOn ==
  ASSUME NEW a, SoundRecord(a), NEW b, SoundRecord(b), Onward(a, b),
         NEW call, call.seats \subseteq Int, Shows(a, call)
  PROVE  Shows(b, call)
<1>1. a.cursor \in Nat /\ b.cursor \in Nat /\ a.cursor <= b.cursor
  BY DEF SoundRecord, Onward
<1>2. ASSUME NEW i \in call.seats, i <= a.cursor
      PROVE  i <= b.cursor /\ (i \notin a.owed => i \notin b.owed)
  BY <1>1, <1>2 DEF Onward
<1>3. QED
  BY <1>2 DEF Shows, Onward

\* And once within reach, always.
LEMMA AimsOn ==
  ASSUME NEW a, SoundRecord(a), NEW b, SoundRecord(b), Onward(a, b),
         NEW call, Aims(call, a)
  PROVE  Aims(call, b)
<1>1. a.cursor \in Nat /\ b.cursor \in Nat /\ a.cursor <= b.cursor
  BY DEF SoundRecord, Onward
<1>2. ASSUME call.action = "refund_next", NEW i \in call.seats
      PROVE  i \in DOMAIN b.payers /\ i <= b.cursor + call.count
  <2>1. i \in Int /\ call.count \in Nat /\ i <= a.cursor + call.count
    BY <1>2 DEF Aims
  <2>2. i <= b.cursor + call.count
    BY <1>1, <2>1
  <2>3. i \in DOMAIN b.payers
    BY <1>2 DEF Aims, Onward
  <2>4. QED
    BY <2>2, <2>3
<1>3. QED
  BY <1>2 DEF Aims

LEMMA Extremes ==
  ASSUME NEW a \in Int, NEW b \in Int
  PROVE  /\ Min({a, b}) \in {a, b} /\ Min({a, b}) <= a /\ Min({a, b}) <= b
         /\ Max({a, b}) \in {a, b} /\ Max({a, b}) >= a /\ Max({a, b}) >= b
<1>1. \E x \in {a, b} : \A y \in {a, b} : x <= y
  OBVIOUS
<1>2. \E x \in {a, b} : \A y \in {a, b} : x >= y
  OBVIOUS
<1>3. QED
  BY <1>1, <1>2 DEF Min, Max

\* A refund pass goes by every seat it was cut for that is sold.
LEMMA PassOnward ==
  ASSUME NEW r, SoundRecord(r), r.state \in {"EXPIRED", "REFUNDING"},
         NEW count \in Nat, NEW named, NEW s \in RefundedBy(r, count, named)
  PROVE  /\ SoundRecord(s) /\ Onward(r, s)
         /\ \A i \in DOMAIN r.payers : i <= r.cursor + count => i <= s.cursor
         /\ s.state \notin {"OPEN", "FUNDED", "EXPIRED"}
<1> DEFINE last == Min({r.cursor + count, Len(r.payers)})
<1>1. PICK paid \in SUBSET (RefundWindow(r, count) \cap named) :
        s = [r EXCEPT !.owed = @ \ paid, !.cursor = last,
                      !.state = IF last = Len(r.payers) THEN "REFUNDED" ELSE "REFUNDING"]
  BY DEF RefundedBy
<1>2. /\ DOMAIN r = {"state", "late", "gone", "payers", "owed", "cursor"}
      /\ r.cursor \in Nat /\ Len(r.payers) \in Nat /\ r.cursor <= Len(r.payers)
      /\ DOMAIN r.payers = 1..Len(r.payers)
  BY DEF SoundRecord
<1>3. /\ last \in {r.cursor + count, Len(r.payers)}
      /\ last <= r.cursor + count /\ last <= Len(r.payers)
  <2>1. r.cursor + count \in Int /\ Len(r.payers) \in Int
    BY <1>2
  <2>2. QED
    BY <2>1, Extremes
<1> HIDE DEF last
<1>4. last \in Nat /\ r.cursor <= last
  BY <1>2, <1>3
<1>5. /\ s.owed = r.owed \ paid /\ s.cursor = last
      /\ s.state \in {"REFUNDED", "REFUNDING"}
      /\ s.payers = r.payers /\ s.gone = r.gone /\ DOMAIN s = DOMAIN r
  BY <1>1, <1>2
<1>6. SoundRecord(s)
  BY <1>2, <1>3, <1>4, <1>5 DEF SoundRecord
<1>7. Onward(r, s)
  BY <1>4, <1>5 DEF Onward
<1>8. \A i \in DOMAIN r.payers : i <= r.cursor + count => i <= s.cursor
  BY <1>2, <1>3, <1>5
<1>9. QED
  BY <1>5, <1>6, <1>7, <1>8

\* A call that is taken moves the record on, and the record shows it.
LEMMA OutcomeOnward ==
  ASSUME NEW r, SoundRecord(r), NEW call, call.action \in Action,
         call.action = "refund_next" => call.count \in Nat, NEW s \in Outcomes(r, call)
  PROVE  /\ SoundRecord(s) /\ Onward(r, s)
         /\ Aims(call, r) => Shows(s, call)
<1>1. /\ ~r.gone /\ DOMAIN r = {"state", "late", "gone", "payers", "owed", "cursor"}
      /\ r.cursor \in Nat
  BY DEF Outcomes, SoundRecord
<1>2. CASE call.action = "expire"
  <2>1. /\ s = [r EXCEPT !.state = "EXPIRED"] /\ r.state \in {"OPEN", "FUNDED"}
    BY <1>1, <1>2 DEF Outcomes
  <2>2. /\ s.state = "EXPIRED" /\ s.payers = r.payers /\ s.owed = r.owed /\ s.cursor = r.cursor
        /\ s.gone = r.gone /\ DOMAIN s = DOMAIN r
    BY <1>1, <2>1
  <2>3. QED
    BY <1>1, <1>2, <2>1, <2>2 DEF SoundRecord, Onward, Shows
<1>3. CASE call.action = "refund_next"
  <2>1. /\ r.state \in {"EXPIRED", "REFUNDING"}
        /\ s \in RefundedBy(r, call.count, call.seats)
    BY <1>1, <1>3 DEF Outcomes
  <2>2. /\ SoundRecord(s) /\ Onward(r, s)
        /\ \A i \in DOMAIN r.payers : i <= r.cursor + call.count => i <= s.cursor
        /\ s.state \notin {"OPEN", "FUNDED", "EXPIRED"}
    BY <1>3, <2>1, PassOnward
  <2>3. Aims(call, r) => \A i \in call.seats : i <= s.cursor
    BY <1>3, <2>2 DEF Aims
  <2>4. QED
    BY <1>3, <2>2, <2>3 DEF Shows
<1>4. CASE call.action = "claim_refund"
  <2>1. /\ s = [r EXCEPT !.owed = @ \ call.seats]
        /\ \A i \in call.seats : i <= r.cursor
    BY <1>1, <1>4 DEF Outcomes
  <2>2. /\ s.owed = r.owed \ call.seats /\ s.payers = r.payers /\ s.cursor = r.cursor
        /\ s.state = r.state /\ s.gone = r.gone /\ DOMAIN s = DOMAIN r
    BY <1>1, <2>1
  <2>3. SoundRecord(s) /\ Onward(r, s)
    BY <1>1, <2>2 DEF SoundRecord, Onward
  <2>4. Shows(s, call)
    BY <1>4, <2>1, <2>2 DEF Shows
  <2>5. QED
    BY <2>3, <2>4
<1>5. CASE call.action = "close"
  <2>1. s = [r EXCEPT !.gone = TRUE]
    BY <1>1, <1>5 DEF Outcomes
  <2>2. /\ s.owed = r.owed /\ s.payers = r.payers /\ s.cursor = r.cursor
        /\ s.state = r.state /\ s.gone /\ DOMAIN s = DOMAIN r
    BY <1>1, <2>1
  <2>3. QED
    BY <1>1, <2>2 DEF SoundRecord, Onward, Shows
<1>6. QED
  BY <1>2, <1>3, <1>4, <1>5 DEF Action

\* So does a join, and what needs no call of the page.
LEMMA JoinedOnward ==
  ASSUME NEW r, SoundRecord(r), Joinable(r), NEW who
  PROVE  SoundRecord(JoinedBy(r, who)) /\ Onward(r, JoinedBy(r, who))
<1> DEFINE s == JoinedBy(r, who)
           n == Len(r.payers) + 1
<1>1. /\ DOMAIN r = {"state", "late", "gone", "payers", "owed", "cursor"}
      /\ r.payers \in Seq(Range(r.payers)) /\ r.cursor \in Nat /\ r.cursor <= Len(r.payers)
      /\ r.owed \subseteq Int /\ r.state = "OPEN"
  BY DEF SoundRecord, Joinable
<1>2. /\ s.payers = Append(r.payers, who) /\ s.owed = r.owed \cup {n} /\ s.cursor = r.cursor
      /\ s.gone = r.gone /\ DOMAIN s = DOMAIN r
  BY <1>1 DEF JoinedBy
<1> HIDE DEF s
<1>3. /\ s.payers \in Seq(Range(r.payers) \cup {who}) /\ Len(s.payers) = n
      /\ DOMAIN r.payers = 1..(n - 1) /\ DOMAIN s.payers = 1..n /\ n \in Nat
  BY <1>1, <1>2
<1>4. s.payers \in Seq(Range(s.payers))
  BY <1>3, OwnRange
<1>5. SoundRecord(s)
  BY <1>1, <1>2, <1>3, <1>4 DEF SoundRecord
<1>6. Onward(r, s)
  <2>1. \A i \in s.owed : i <= r.cursor => i \in r.owed
    BY <1>1, <1>2, <1>3
  <2>2. QED
    BY <1>1, <1>2, <1>3, <2>1 DEF Onward
<1>7. QED
  BY <1>5, <1>6 DEF s

LEMMA ElsewhereOnward ==
  ASSUME NEW r, SoundRecord(r)
  PROVE  /\ LET s == [r EXCEPT !.late = TRUE] IN SoundRecord(s) /\ Onward(r, s)
         /\ r.state = "FUNDED" =>
              LET s == [r EXCEPT !.state = "RELEASED", !.owed = {}] IN
              SoundRecord(s) /\ Onward(r, s)
<1>1. /\ DOMAIN r = {"state", "late", "gone", "payers", "owed", "cursor"} /\ r.cursor \in Nat
  BY DEF SoundRecord
<1> DEFINE late == [r EXCEPT !.late = TRUE]
           released == [r EXCEPT !.state = "RELEASED", !.owed = {}]
<1>2. /\ late.owed = r.owed /\ late.payers = r.payers /\ late.cursor = r.cursor
      /\ late.state = r.state /\ late.gone = r.gone /\ DOMAIN late = DOMAIN r
  BY <1>1
<1>3. /\ released.owed = {} /\ released.payers = r.payers /\ released.cursor = r.cursor
      /\ released.state = "RELEASED" /\ released.gone = r.gone /\ DOMAIN released = DOMAIN r
  BY <1>1
<1> HIDE DEF late, released
<1>4. SoundRecord(late) /\ Onward(r, late)
  BY <1>1, <1>2 DEF SoundRecord, Onward
<1>5. r.state = "FUNDED" => SoundRecord(released) /\ Onward(r, released)
  BY <1>1, <1>3 DEF SoundRecord, Onward
<1>6. QED
  BY <1>4, <1>5 DEF late, released

-----------------------------------------------------------------------------
(* The blocks, and the calls in them.                                      *)

CallFields == {"action", "pool", "count", "seats", "lastValid", "fate", "at"}

\* From the block that took it on, every block shows a call of the page's.
Traced(call) ==
  /\ DOMAIN call = CallFields
  /\ call.action \in Action
  /\ Aims(call, Pools[call.pool])
  /\ call.fate = "committed" =>
       /\ call.at \in Int /\ call.at <= round /\ call.at <= call.lastValid
       /\ \A k \in DOMAIN blocks : RoundOf(k) >= call.at => Shows(blocks[k][call.pool], call)

HistoryInv ==
  /\ \A k \in DOMAIN blocks : \A pool \in Pool :
       SoundRecord(blocks[k][pool]) /\ Onward(blocks[k][pool], Pools[pool])
  /\ \A tx \in DOMAIN calls : Traced(calls[tx])

\* A call is changed by nothing once it has landed, and lands after the last block.
Landed(before, after) ==
  \A tx \in DOMAIN before :
    /\ tx \in DOMAIN after
    /\ \/ after[tx] = before[tx]
       \/ /\ before[tx].fate # "committed"
          /\ after[tx].fate = "committed" => after[tx].at > round

\* The history goes on.
Recounts ==
  /\ HistoryInv' /\ Landed(calls, calls')
  /\ \A pool \in Pool : /\ SoundRecord(Pools[pool]) /\ SoundRecord(Pools'[pool])
                        /\ Onward(Pools[pool], Pools'[pool])

\* A new block is the one added, or one there was.
LEMMA BlockHistory ==
  ASSUME ChainInv, NEW pool, NEW record, Block(pool, record)
  PROVE  /\ round' = round + 1 /\ Pools' = [Pools EXCEPT ![pool] = record]
         /\ \A k \in DOMAIN blocks' :
              \/ blocks'[k] = Pools' /\ round' - (Len(blocks') - k) = round'
              \/ \E j \in DOMAIN blocks :
                   blocks'[k] = blocks[j] /\ round' - (Len(blocks') - k) = RoundOf(j)
<1> DEFINE n == Len(blocks)
           next == [Pools EXCEPT ![pool] = record]
           longer == Append(blocks, next)
           S == Range(blocks) \cup {next}
<1>1. /\ blocks \in Seq(S) /\ n \in Nat /\ n > 0 /\ DOMAIN blocks = 1..n
      /\ next \in S /\ round \in Int
  BY DEF ChainInv
<1>2. /\ round' = round + 1
      /\ blocks' = longer \/ blocks' = Tail(longer)
  BY DEF Block
<1>3. next = [Pools EXCEPT ![pool] = record]
  OBVIOUS
<1> HIDE DEF next
<1>4. /\ longer \in Seq(S) /\ Len(longer) = n + 1
      /\ \A i \in 1..n : longer[i] = blocks[i]
      /\ longer[n + 1] = next
  BY <1>1
<1> HIDE DEF longer
<1>5. CASE blocks' = longer
  <2>1. DOMAIN blocks' = 1..(n + 1) /\ Len(blocks') = n + 1
    BY <1>1, <1>4, <1>5
  <2>2. Pools' = next
    BY <1>4, <1>5, <2>1 DEF Pools
  <2>3. ASSUME NEW k \in 1..(n + 1)
        PROVE  \/ blocks'[k] = next /\ round' - (n + 1 - k) = round'
               \/ \E j \in 1..n : blocks'[k] = blocks[j] /\ round' - (n + 1 - k) = round - (n - j)
    <3>1. CASE k = n + 1
      BY <1>1, <1>2, <1>4, <1>5, <3>1
    <3>2. CASE k # n + 1
      BY <1>1, <1>2, <1>4, <1>5, <3>2
    <3>3. QED
      BY <3>1, <3>2
  <2>4. QED
    BY <1>1, <1>2, <1>3, <2>1, <2>2, <2>3 DEF RoundOf
<1>6. CASE blocks' = Tail(longer)
  <2>1. /\ DOMAIN blocks' = 1..n /\ Len(blocks') = n
        /\ \A i \in 1..n : blocks'[i] = longer[i + 1]
    BY <1>1, <1>4, <1>6
  <2>2. Pools' = next
    BY <1>1, <1>4, <2>1 DEF Pools
  <2>3. ASSUME NEW k \in 1..n
        PROVE  \/ blocks'[k] = next /\ round' - (n - k) = round'
               \/ \E j \in 1..n : blocks'[k] = blocks[j] /\ round' - (n - k) = round - (n - j)
    <3>1. CASE k = n
      BY <1>1, <1>2, <1>4, <2>1, <3>1
    <3>2. CASE k # n
      <4>1. k + 1 \in 1..n /\ round' - (n - k) = round - (n - (k + 1))
        <5>0. n \in Nat
          BY <1>1
        <5>1. k \in Int /\ 1 <= k /\ k < n
          BY <3>2, <5>0
        <5>2. QED
          BY <1>1, <1>2, <5>1
      <4>2. blocks'[k] = blocks[k + 1]
        BY <1>4, <2>1, <4>1
      <4>3. QED
        BY <4>1, <4>2
    <3>3. QED
      BY <3>1, <3>2
  <2>4. QED
    BY <1>1, <1>2, <1>3, <2>1, <2>2, <2>3 DEF RoundOf
<1>7. QED
  BY <1>2, <1>5, <1>6

\* The last block is one of the blocks, of the last round.
LEMMA LastBlock ==
  ASSUME ChainInv
  PROVE  Len(blocks) \in DOMAIN blocks /\ Pools = blocks[Len(blocks)] /\ RoundOf(Len(blocks)) = round
<1>1. Len(blocks) \in Nat /\ Len(blocks) > 0 /\ DOMAIN blocks = 1..Len(blocks) /\ round \in Int
  BY DEF ChainInv
<1>2. QED
  BY <1>1 DEF RoundOf, Pools

\* A block takes nothing back of what came before it.
LEMMA HistoryKept ==
  ASSUME ChainInv, HistoryInv, NEW pool, NEW record, Block(pool, record),
         pool \in Pool => SoundRecord(record) /\ Onward(Pools[pool], record)
  PROVE  /\ \A k \in DOMAIN blocks' : \A p \in Pool :
              SoundRecord(blocks'[k][p]) /\ Onward(blocks'[k][p], Pools'[p])
         /\ \A p \in Pool : /\ SoundRecord(Pools[p]) /\ SoundRecord(Pools'[p])
                            /\ Onward(Pools[p], Pools'[p])
         /\ pool \in Pool => Pools'[pool] = record
         /\ \A call : Traced(call) /\ call.pool \in Pool => Traced(call)'
<1>1. /\ round' = round + 1 /\ Pools' = [Pools EXCEPT ![pool] = record]
      /\ \A k \in DOMAIN blocks' :
           \/ blocks'[k] = Pools' /\ round' - (Len(blocks') - k) = round'
           \/ \E j \in DOMAIN blocks :
                blocks'[k] = blocks[j] /\ round' - (Len(blocks') - k) = RoundOf(j)
  BY BlockHistory
<1>2. Len(blocks) \in DOMAIN blocks /\ Pools = blocks[Len(blocks)] /\ RoundOf(Len(blocks)) = round
  BY LastBlock
<1>3. DOMAIN Pools = Pool /\ \A p \in Pool : SoundRecord(Pools[p])
  BY <1>2 DEF ChainInv, HistoryInv
<1>4. ASSUME NEW p \in Pool
      PROVE  SoundRecord(Pools'[p]) /\ Onward(Pools[p], Pools'[p])
  <2>1. CASE p = pool
    BY <1>1, <1>3, <2>1
  <2>2. CASE p # pool
    BY <1>1, <1>3, <2>2, OnwardSelf
  <2>3. QED
    BY <2>1, <2>2
<1>5. ASSUME NEW k \in DOMAIN blocks', NEW p \in Pool
      PROVE  SoundRecord(blocks'[k][p]) /\ Onward(blocks'[k][p], Pools'[p])
  <2>1. CASE blocks'[k] = Pools'
    BY <1>4, <2>1, OnwardSelf
  <2>2. ASSUME NEW j \in DOMAIN blocks, blocks'[k] = blocks[j]
        PROVE  SoundRecord(blocks'[k][p]) /\ Onward(blocks'[k][p], Pools'[p])
    <3>1. SoundRecord(blocks[j][p]) /\ Onward(blocks[j][p], Pools[p])
      BY DEF HistoryInv
    <3>2. QED
      BY <1>3, <1>4, <2>2, <3>1, OnwardOn
  <2>3. QED
    BY <1>1, <2>1, <2>2
<1>6. ASSUME NEW call, Traced(call), call.pool \in Pool
      PROVE  Traced(call)'
  <2> DEFINE p == call.pool
  <2>1. Aims(call, Pools'[p])
    BY <1>3, <1>4, <1>6, AimsOn DEF Traced
  <2>2. ASSUME call.fate = "committed"
        PROVE  /\ call.at \in Int /\ call.at <= round' /\ call.at <= call.lastValid
               /\ \A k \in DOMAIN blocks' :
                    round' - (Len(blocks') - k) >= call.at => Shows(blocks'[k][p], call)
    <3>1. /\ call.at \in Int /\ call.at <= round /\ call.at <= call.lastValid /\ round \in Int
          /\ \A j \in DOMAIN blocks : RoundOf(j) >= call.at => Shows(blocks[j][p], call)
      BY <1>6, <2>2 DEF Traced, ChainInv
    <3>2. Shows(Pools[p], call)
      BY <1>2, <3>1
    <3>3. Shows(Pools'[p], call)
      BY <1>3, <1>4, <1>6, <3>2, ShowsOn DEF Traced, Aims
    <3>4. ASSUME NEW k \in DOMAIN blocks', round' - (Len(blocks') - k) >= call.at
          PROVE  Shows(blocks'[k][p], call)
      <4>1. CASE blocks'[k] = Pools'
        BY <3>3, <4>1
      <4>2. ASSUME NEW j \in DOMAIN blocks,
                   blocks'[k] = blocks[j] /\ round' - (Len(blocks') - k) = RoundOf(j)
            PROVE  Shows(blocks'[k][p], call)
        BY <3>1, <3>4, <4>2
      <4>3. QED
        BY <1>1, <4>1, <4>2
    <3>5. call.at <= round'
      BY <1>1, <3>1
    <3>6. QED
      BY <3>1, <3>4, <3>5
  <2>3. QED
    BY <1>6, <2>1, <2>2 DEF Traced, RoundOf
<1>7. pool \in Pool => Pools'[pool] = record
  BY <1>1, <1>3
<1>8. QED
  BY <1>3, <1>4, <1>5, <1>6, <1>7

\* Nothing happens to the chain, or to the calls.
LEMMA StillRecounts ==
  ASSUME ChainInv, HistoryInv, UNCHANGED <<round, blocks, calls>>
  PROVE  Recounts
<1>1. \A p \in Pool : SoundRecord(Pools[p])
  BY LastBlock DEF HistoryInv
<1>2. Pools' = Pools
  BY DEF Pools
<1>3. \A p \in Pool : Onward(Pools[p], Pools'[p])
  BY <1>1, <1>2, OnwardSelf
<1>4. HistoryInv'
  BY <1>2 DEF HistoryInv, Traced, RoundOf
<1>5. QED
  BY <1>1, <1>2, <1>3, <1>4 DEF Recounts, Landed

\* A block with none of the page's calls.
LEMMA UncalledRecounts ==
  ASSUME ChainInv, HistoryInv, NEW pool, NEW record, Block(pool, record),
         pool \in Pool => SoundRecord(record) /\ Onward(Pools[pool], record), calls' = calls
  PROVE  Recounts
<1>1. /\ \A k \in DOMAIN blocks' : \A p \in Pool :
           SoundRecord(blocks'[k][p]) /\ Onward(blocks'[k][p], Pools'[p])
      /\ \A p \in Pool : /\ SoundRecord(Pools[p]) /\ SoundRecord(Pools'[p])
                         /\ Onward(Pools[p], Pools'[p])
      /\ \A call : Traced(call) /\ call.pool \in Pool => Traced(call)'
  BY HistoryKept
<1>2. \A tx \in DOMAIN calls : Traced(calls[tx])'
  BY <1>1 DEF HistoryInv, ChainInv
<1>3. HistoryInv'
  BY <1>1, <1>2 DEF HistoryInv
<1>4. QED
  BY <1>1, <1>3 DEF Recounts, Landed

LEMMA JoinRecounts ==
  ASSUME ChainInv, HistoryInv, NEW pool, NEW who, JoinLands(pool, who), calls' = calls
  PROVE  Recounts
<1>1. pool \in Pool => SoundRecord(Pools[pool])
  BY LastBlock DEF HistoryInv
<1>2. Joinable(Pools[pool]) /\ Block(pool, JoinedBy(Pools[pool], who))
  BY DEF JoinLands
<1>3. QED
  BY <1>1, <1>2, JoinedOnward, UncalledRecounts

\* A call of the page's taken by a block, or dropped by every node.
LEMMA CallsRecount ==
  ASSUME ChainInv, HistoryInv, NEW tx \in DOMAIN calls, Commit(tx) \/ Drop(tx)
  PROVE  Recounts
<1> DEFINE old == calls[tx]
           p == old.pool
<1>1. /\ old.fate = "travelling" /\ p \in Pool /\ Traced(old) /\ old.lastValid \in Int
      /\ calls \in Seq(Range(calls)) /\ round \in Int /\ SoundRecord(Pools[p])
  BY LastBlock DEF Commit, Drop, ChainInv, HistoryInv
<1>2. /\ DOMAIN old = CallFields /\ old.action \in Action /\ Aims(old, Pools[p])
  BY <1>1 DEF Traced
<1>3. CASE Commit(tx)
  <2>0. PICK call : call = [old EXCEPT !.fate = "committed", !.at = round']
    OBVIOUS
  <2>1. PICK r \in Outcomes(Pools[p], old) : Block(p, r)
    BY <1>3 DEF Commit
  <2>2. calls' = [calls EXCEPT ![tx] = call] /\ round < old.lastValid
    BY <1>3, <2>0 DEF Commit
  <2>3. /\ DOMAIN call = CallFields /\ call.action = old.action /\ call.pool = p
        /\ call.count = old.count /\ call.seats = old.seats /\ call.lastValid = old.lastValid
        /\ call.fate = "committed" /\ call.at = round'
    BY <1>2, <2>0 DEF CallFields
  <2>4. old.action = "refund_next" => old.count \in Nat
    BY <1>2 DEF Aims
  <2>5. SoundRecord(r) /\ Onward(Pools[p], r) /\ Shows(r, old)
    BY <1>1, <1>2, <2>1, <2>4, OutcomeOnward
  <2>6. /\ \A k \in DOMAIN blocks' : \A q \in Pool :
             SoundRecord(blocks'[k][q]) /\ Onward(blocks'[k][q], Pools'[q])
        /\ \A q \in Pool : /\ SoundRecord(Pools[q]) /\ SoundRecord(Pools'[q])
                           /\ Onward(Pools[q], Pools'[q])
        /\ Pools'[p] = r
        /\ \A c : Traced(c) /\ c.pool \in Pool => Traced(c)'
    BY <1>1, <2>1, <2>5, HistoryKept
  <2>7. /\ round' = round + 1
        /\ \A k \in DOMAIN blocks' :
             \/ blocks'[k] = Pools' /\ round' - (Len(blocks') - k) = round'
             \/ \E j \in DOMAIN blocks :
                  blocks'[k] = blocks[j] /\ round' - (Len(blocks') - k) = RoundOf(j)
    BY <2>1, BlockHistory
  <2>8. Traced(call)'
    <3>1. Aims(call, Pools'[p])
      <4>1. Aims(old, Pools'[p])
        BY <1>1, <1>2, <2>6, AimsOn
      <4>2. QED
        BY <2>3, <4>1 DEF Aims
    <3>2. Shows(Pools'[p], call)
      BY <2>3, <2>5, <2>6 DEF Shows
    <3>3. \A j \in DOMAIN blocks : RoundOf(j) \in Int /\ RoundOf(j) <= round
      <4>1. Len(blocks) \in Nat /\ DOMAIN blocks = 1..Len(blocks)
        BY DEF ChainInv
      <4>2. QED
        BY <1>1, <4>1 DEF RoundOf
    <3>4. \A k \in DOMAIN blocks' :
            round' - (Len(blocks') - k) >= round' => Shows(blocks'[k][p], call)
      BY <1>1, <2>7, <3>2, <3>3
    <3>5. round' \in Int /\ round' <= old.lastValid
      BY <1>1, <2>2, <2>7
    <3>6. QED
      BY <1>2, <2>3, <3>1, <3>4, <3>5 DEF Traced, RoundOf
  <2>9. DOMAIN calls' = DOMAIN calls
    BY <2>2
  <2>10. ASSUME NEW x \in DOMAIN calls' PROVE Traced(calls[x])'
    <3>1. CASE x = tx
      BY <1>1, <2>2, <2>8, <3>1
    <3>2. CASE x # tx
      BY <2>2, <2>6, <3>2 DEF HistoryInv, ChainInv
    <3>3. QED
      BY <3>1, <3>2
  <2>11. Landed(calls, calls')
    BY <1>1, <2>2, <2>3, <2>7 DEF Landed
  <2>12. HistoryInv'
    BY <2>6, <2>10 DEF HistoryInv
  <2>13. QED
    BY <2>6, <2>11, <2>12 DEF Recounts
<1>4. CASE Drop(tx)
  <2>0. PICK call : call = [old EXCEPT !.fate = "dropped"]
    OBVIOUS
  <2>1. calls' = [calls EXCEPT ![tx] = call] /\ round' = round /\ blocks' = blocks
    BY <1>4, <2>0 DEF Drop, chainVars
  <2>2. /\ DOMAIN call = CallFields /\ call.action = old.action /\ call.pool = p
        /\ call.count = old.count /\ call.seats = old.seats /\ call.fate = "dropped"
    BY <1>2, <2>0 DEF CallFields
  <2>3. Pools' = Pools
    BY <2>1 DEF Pools
  <2>4. ASSUME NEW x \in DOMAIN calls' PROVE Traced(calls[x])'
    <3>1. CASE x = tx
      BY <1>1, <1>2, <2>1, <2>2, <2>3, <3>1 DEF Traced, Aims
    <3>2. CASE x # tx
      <4>1. calls'[x] = calls[x] /\ Traced(calls[x])
        BY <2>1, <3>2 DEF HistoryInv
      <4>2. QED
        BY <2>1, <2>3, <4>1 DEF Traced, RoundOf
    <3>3. QED
      BY <3>1, <3>2
  <2>5. HistoryInv'
    BY <2>1, <2>3, <2>4 DEF HistoryInv
  <2>6. Landed(calls, calls')
    BY <1>1, <2>1, <2>2 DEF Landed
  <2>7. \A q \in Pool : SoundRecord(Pools[q])
    BY LastBlock DEF HistoryInv
  <2>8. QED
    BY <2>3, <2>5, <2>6, <2>7, OnwardSelf DEF Recounts
<1>5. QED
  BY <1>3, <1>4

\* All that happens without the page.
LEMMA WorldRecounts ==
  ASSUME ChainInv, HistoryInv, Others \/ \E tx \in DOMAIN calls : Commit(tx) \/ Drop(tx)
  PROVE  Recounts
<1>1. \A pool \in Pool : SoundRecord(Pools[pool])
  BY LastBlock DEF HistoryInv
<1>2. ASSUME NEW pool \in Pool, OthersCallLands(pool) PROVE Recounts
  <2>1. PICK call \in OthersCall(Pools[pool]) : \E r \in Outcomes(Pools[pool], call) :
          Block(pool, r)
    BY <1>2, Zenon DEF OthersCallLands
  <2>2. PICK r \in Outcomes(Pools[pool], call) : Block(pool, r)
    BY <2>1
  <2>3. calls' = calls
    BY <1>2, Zenon DEF OthersCallLands
  <2>4. call.action \in Action /\ (call.action = "refund_next" => call.count \in Nat)
    <3>1. BatchCeiling \in Nat
      BY PageAssumption
    <3>2. QED
      BY <2>1, <3>1 DEF OthersCall, Action
  <2>5. SoundRecord(r) /\ Onward(Pools[pool], r)
    BY <1>1, <2>4, OutcomeOnward
  <2>6. QED
    BY <2>2, <2>3, <2>5, UncalledRecounts
<1>3. ASSUME NEW pool \in Pool, OtherJoins(pool) PROVE Recounts
  BY <1>1, <1>3, JoinedOnward, UncalledRecounts DEF OtherJoins
<1>4. ASSUME NEW pool \in Pool, DeadlinePasses(pool) PROVE Recounts
  BY <1>1, <1>4, ElsewhereOnward, UncalledRecounts DEF DeadlinePasses
<1>5. ASSUME NEW pool \in Pool, ReleaseLands(pool) PROVE Recounts
  BY <1>1, <1>5, ElsewhereOnward, UncalledRecounts DEF ReleaseLands
<1>6. CASE EmptyBlock
  BY <1>1, <1>6, OnwardSelf, UncalledRecounts DEF EmptyBlock
<1>7. QED
  BY <1>2, <1>3, <1>4, <1>5, <1>6, CallsRecount DEF Others

-----------------------------------------------------------------------------
(* What a reading has of a call, and what a call is built from.            *)

\* A reading recent enough for a call that has landed reflects it.
Beheld(t) ==
  t.call # None =>
    /\ t.fate = "confirmed" => t.at = calls[t.call.tx].at
    /\ t.view # None =>
         /\ t.view.round = None => t.view.record = None
         /\ /\ t.view.round # None
            /\ calls[t.call.tx].fate = "committed"
            /\ t.view.round >= calls[t.call.tx].at
            => Reflects(t.view, calls[t.call.tx])

Knows(t) ==
  /\ t.kind = "READ_POOL" => Beheld(t)
  /\ t.kind = "SEND_ACTION" /\ t.built # None =>
       t.pool \in Pool /\ Aims(t.built, Pools[t.pool])

ShownInv == HistoryInv /\ \A t \in BagToSet(tasks) : Knows(t)

\* A task that has read and built nothing yet.
Fresh(t) ==
  /\ t.kind = "READ_POOL" => t.view = None /\ t.fate = "unasked"
  /\ t.kind = "SEND_ACTION" => t.built = None

\* A step that only begins tasks, or ends some, and keeps the lock of a call
\* nobody saw confirm.
Begins == \A t \in BagToSet(tasks') : t \in BagToSet(tasks) \/ Fresh(t)
Aloof == Begins /\ (Waits(state.sending) => state'.sending = state.sending)

\* The two blocks a view was answered from.
LEMMA ViewBlocks ==
  ASSUME ChainInv, NEW pool \in Pool, NEW view \in Views(pool)
  PROVE  \E i, j \in DOMAIN blocks :
           /\ view.record = IF blocks[i][pool].gone THEN None
                            ELSE [blocks[i][pool] EXCEPT !.late = blocks[j][pool].late]
           /\ view.roster = RosterOf(blocks[j][pool])
           /\ view.round # None =>
                \A k \in {i, j} : ~blocks[k][pool].gone => view.round <= RoundOf(k)
<1> DEFINE n == Len(blocks)
<1>1. PICK i \in 1..n, j \in 1..n :
        view = [record |-> IF blocks[i][pool].gone THEN None
                           ELSE [blocks[i][pool] EXCEPT !.late = blocks[j][pool].late],
                roster |-> RosterOf(blocks[j][pool]),
                round |-> RoundOfPair(pool, i, j)]
  BY DEF Views
<1> DEFINE there == {k \in {i, j} : ~blocks[k][pool].gone}
<1>2. /\ view.round = IF there = {} THEN None ELSE RoundOf(Min(there))
      /\ view.record = IF blocks[i][pool].gone THEN None
                       ELSE [blocks[i][pool] EXCEPT !.late = blocks[j][pool].late]
      /\ view.roster = RosterOf(blocks[j][pool])
  BY <1>1 DEF RoundOfPair
<1>3. DOMAIN blocks = 1..n /\ n \in Nat /\ round \in Int
  BY DEF ChainInv
<1>4. ASSUME NEW k \in {i, j}, ~blocks[k][pool].gone PROVE view.round <= RoundOf(k)
  <2>1. k \in there /\ view.round = RoundOf(Min(there))
    BY <1>2, <1>4
  <2>2. there = {i} \/ there = {j} \/ there = {i, j}
    BY <2>1
  <2>3. \E x \in there : \A y \in there : x <= y
    BY <1>3, <2>2
  <2>4. Min(there) \in there /\ Min(there) <= k
    BY <2>1, <2>3 DEF Min
  <2>5. Min(there) \in Int /\ k \in Int
    BY <2>4
  <2>6. QED
    BY <1>3, <2>1, <2>4, <2>5 DEF RoundOf
<1>5. QED
  BY <1>2, <1>3, <1>4

LEMMA ViewReflects ==
  ASSUME ChainInv, NEW pool \in Pool, NEW view \in Views(pool), view.round # None,
         NEW call, Traced(call), call.pool = pool, call.fate = "committed",
         view.round >= call.at
  PROVE  Reflects(view, call)
<1>1. PICK i, j \in DOMAIN blocks :
        /\ view.record = IF blocks[i][pool].gone THEN None
                         ELSE [blocks[i][pool] EXCEPT !.late = blocks[j][pool].late]
        /\ view.roster = RosterOf(blocks[j][pool])
        /\ \A k \in {i, j} : ~blocks[k][pool].gone => view.round <= RoundOf(k)
  BY ViewBlocks
<1>2. ASSUME NEW k \in {i, j}, ~blocks[k][pool].gone PROVE Shows(blocks[k][pool], call)
  <2>1. RoundOf(k) \in Int /\ view.round \in Int /\ call.at \in Int
    <3>1. Len(blocks) \in Nat /\ DOMAIN blocks = 1..Len(blocks) /\ round \in Int
      BY DEF ChainInv
    <3>2. RoundOf(k) \in Int
      BY <1>1, <3>1 DEF RoundOf
    <3>3. QED
      BY <3>2, ViewsSound DEF Traced
  <2>2. RoundOf(k) >= call.at
    BY <1>1, <1>2, <2>1
  <2>3. QED
    BY <1>1, <2>2 DEF Traced
<1> DEFINE b == blocks[i][pool]
<1>3. CASE b.gone
  BY <1>1, <1>3 DEF Reflects
<1>4. CASE ~b.gone
  <2>1. view.record.state = b.state /\ view.record.cursor = b.cursor
    BY <1>1, <1>4
  <2>2. Shows(b, call)
    BY <1>2, <1>4
  <2>3. CASE call.action = "claim_refund"
    <3>1. call.seats \cap view.roster.owed = {}
      BY <1>1, <1>2, <2>3 DEF RosterOf, Shows
    <3>2. QED
      BY <2>3, <3>1 DEF Reflects
  <2>4. CASE call.action # "claim_refund"
    BY <1>4, <2>1, <2>2, <2>4 DEF Shows, Reflects
  <2>5. QED
    BY <2>3, <2>4
<1>5. QED
  BY <1>3, <1>4

\* A call composed on a view names seats within its reach.
LEMMA ViewAims ==
  ASSUME ChainInv, HistoryInv, NEW pool \in Pool, NEW view \in Views(pool),
         view.record # None, NEW sender, NEW call,
         call.count = RefundBatchSize(view.record),
         call.seats = Named(call.action, view.record, view.roster, sender)
  PROVE  Aims(call, Pools[pool])
<1>1. PICK i, j \in DOMAIN blocks :
        /\ view.record = IF blocks[i][pool].gone THEN None
                         ELSE [blocks[i][pool] EXCEPT !.late = blocks[j][pool].late]
        /\ view.roster = RosterOf(blocks[j][pool])
  BY ViewBlocks
<1> DEFINE b == blocks[i][pool]
           c == blocks[j][pool]
<1>2. SoundRecord(b) /\ SoundRecord(c) /\ Onward(b, Pools[pool]) /\ SoundRecord(Pools[pool])
  BY <1>1, LastBlock DEF HistoryInv
<1>3. view.record.payers = b.payers /\ view.record.cursor = b.cursor
  BY <1>1
<1> HIDE DEF b, c
<1>4. /\ b.cursor \in Nat /\ Len(b.payers) \in Nat /\ b.cursor <= Len(b.payers)
      /\ DOMAIN b.payers = 1..Len(b.payers) /\ DOMAIN c.payers = 1..Len(c.payers)
  BY <1>2 DEF SoundRecord
<1>5. call.count \in Nat
  <2> DEFINE left == Len(b.payers) - b.cursor
             least == Min({BatchCeiling, left})
  <2>1. left \in Nat /\ BatchCeiling \in Nat
    BY <1>4, PageAssumption
  <2> HIDE DEF left
  <2>2. least \in {BatchCeiling, left}
    BY <2>1, Extremes
  <2>3. least \in Nat
    BY <2>1, <2>2
  <2> HIDE DEF least
  <2>4. Max({1, least}) \in {1, least}
    BY <2>3, Extremes
  <2>5. call.count = Max({1, least})
    BY <1>3 DEF RefundBatchSize, least, left
  <2>6. QED
    BY <2>3, <2>4, <2>5
<1>6. DOMAIN view.roster.payers \subseteq Int
  BY <1>1, <1>4 DEF RosterOf, c
<1>7. RefundWindow(view.record, call.count) =
        {k \in DOMAIN b.payers : k > b.cursor /\ k <= b.cursor + call.count}
  BY <1>3 DEF RefundWindow
<1>8. call.action = "refund_next" => call.seats \subseteq RefundWindow(view.record, call.count)
  BY DEF Named
<1>9. call.seats \subseteq Int
  <2>1. CASE call.action = "refund_next"
    BY <1>4, <1>7, <1>8, <2>1
  <2>2. CASE call.action = "claim_refund"
    BY <1>6, <2>2 DEF Named, SeatsOf
  <2>3. CASE call.action \notin {"refund_next", "claim_refund"}
    BY <2>3 DEF Named
  <2>4. QED
    BY <2>1, <2>2, <2>3
<1>10. Aims(call, b)
  BY <1>5, <1>7, <1>8, <1>9 DEF Aims
<1>11. QED
  BY <1>2, <1>10, AimsOn

\* What a task knows stays true as blocks come.
LEMMA KnowsStays ==
  ASSUME ChainInv, Recounts, NEW t, Reads(t), Knows(t)
  PROVE  Knows(t)'
<1>1. ASSUME t.kind = "READ_POOL", t.call # None PROVE Beheld(t)'
  <2> DEFINE tx == t.call.tx
  <2>1. /\ tx \in DOMAIN calls /\ Told(t, calls) /\ Seen(t) /\ Beheld(t) /\ round \in Int
    BY <1>1 DEF Reads, Told, Known, Knows, ChainInv
  <2>2. \/ calls'[tx] = calls[tx]
        \/ /\ calls[tx].fate # "committed"
           /\ calls'[tx].fate = "committed" => calls'[tx].at > round
    BY <2>1 DEF Recounts, Landed
  <2>3. CASE calls'[tx] = calls[tx]
    BY <2>1, <2>3 DEF Beheld
  <2>4. CASE /\ calls[tx].fate # "committed"
             /\ calls'[tx].fate = "committed" => calls'[tx].at > round
    <3>1. t.fate # "confirmed"
      BY <1>1, <2>1, <2>4 DEF Told
    <3>2. ASSUME t.view # None, t.view.round # None, calls'[tx].fate = "committed",
                 t.view.round >= calls'[tx].at
          PROVE  FALSE
      <4>1. t.view.round \in Int /\ t.view.round <= round
        BY <1>1, <2>1, <3>2, PageAssumption DEF Seen
      <4>2. calls'[tx].at \in Int
        <5>1. Traced(calls[tx])'
          BY <2>1 DEF Recounts, HistoryInv, Landed
        <5>2. QED
          BY <3>2, <5>1 DEF Traced
      <4>3. QED
        BY <2>1, <2>4, <3>2, <4>1, <4>2
    <3>3. QED
      BY <1>1, <2>1, <3>1, <3>2 DEF Beheld
  <2>5. QED
    BY <2>2, <2>3, <2>4
<1>2. ASSUME t.kind = "SEND_ACTION", t.built # None
      PROVE  t.pool \in Pool /\ Aims(t.built, Pools'[t.pool])
  <2>1. t.pool \in Pool /\ Aims(t.built, Pools[t.pool])
    BY <1>2 DEF Knows
  <2>2. QED
    BY <2>1, AimsOn DEF Recounts
<1>3. QED
  BY <1>1, <1>2 DEF Knows, Beheld

\* What only begins is no news to the tasks that run.
LEMMA BeginsKeeps ==
  ASSUME LockInv, ShownInv, Recounts, Begins
  PROVE  ShownInv'
<1>1. ASSUME NEW t \in BagToSet(tasks') PROVE Knows(t)'
  <2>1. CASE t \in BagToSet(tasks)
    BY <2>1, KnowsStays DEF LockInv, ShownInv
  <2>2. CASE Fresh(t)
    BY <2>2 DEF Fresh, Knows, Beheld
  <2>3. QED
    BY <2>1, <2>2 DEF Begins
<1>2. QED
  BY <1>1 DEF ShownInv, Recounts

\* A task that goes on.
LEMMA ShownGoesOn ==
  ASSUME IInv, LockInv, ShownInv, Recounts, NEW t, NEW to, Goes(t, to), Knows(to)'
  PROVE  ShownInv'
<1>1. BagToSet(tasks') \subseteq BagToSet(tasks) \cup {to}
  <2>1. IsABag(BagRemove(tasks, t)) /\ BagToSet(BagRemove(tasks, t)) \subseteq BagToSet(tasks)
    BY Taken DEF IInv
  <2>2. QED
    BY <2>1, Added DEF Goes
<1>2. \A x \in BagToSet(tasks') : Knows(x)'
  BY <1>1, KnowsStays DEF LockInv, ShownInv
<1>3. QED
  BY <1>2 DEF ShownInv, Recounts

LEMMA BegunFresh ==
  ASSUME NEW e, NEW t, t = Begun(e)
  PROVE  Fresh(t)
BY DEF Begun, Fresh

\* A dispatch begins what it asks for, and has the lock of its result.
LEMMA DispatchBegins ==
  ASSUME IInv, NEW D, NEW result, Coherent(result.state), Dispatch(SetToBag(D), result)
  PROVE  Begins /\ state'.sending = result.state.sending
<1> DEFINE moves == result.path \notin {None, url}
           opened == IF moves THEN OpenedPool(result.state, result.path)
                              ELSE Only(result.state)
           asked == BegunAll(result.effects)
           shown == BegunAll(opened.effects)
           left == tasks (-) SetToBag(D)
           both == left (+) asked
<1>1. state' = opened.state /\ tasks' = both (+) shown
  BY DEF Dispatch
<1>2. opened.state.sending = result.state.sending
  <2>1. CASE moves
    BY <2>1, OpenedLeaves DEF Alike
  <2>2. CASE ~moves
    BY <2>2 DEF Only, Result
  <2>3. QED
    BY <2>1, <2>2
<1>3. BagToSet(left) \subseteq BagToSet(tasks) /\ IsABag(left)
  BY Taken, OnceEach DEF IInv
<1>4. /\ BagToSet(asked) = {Begun(e) : e \in result.effects} /\ IsABag(asked)
      /\ BagToSet(shown) = {Begun(e) : e \in opened.effects} /\ IsABag(shown)
  BY OnceEach DEF BegunAll
<1> HIDE DEF opened, asked, shown, left
<1>5. BagToSet(both) = BagToSet(left) \cup BagToSet(asked) /\ IsABag(both)
  BY <1>3, <1>4, Added
<1> HIDE DEF both
<1>6. BagToSet(tasks') = BagToSet(left) \cup BagToSet(asked) \cup BagToSet(shown)
  BY <1>1, <1>4, <1>5, Added
<1>7. \A t \in BagToSet(tasks') : t \in BagToSet(tasks) \/ \E e : t = Begun(e)
  BY <1>3, <1>4, <1>6
<1>8. QED
  BY <1>1, <1>2, <1>7, BegunFresh DEF Begins

\* An event that leaves the lock as it is.
LEMMA AsideAloof ==
  ASSUME IInv, NEW result, Follows(state, result), LockAside(state, result),
         (\E t : Ends(t, result)) \/ Idle(result)
  PROVE  Aloof
<1>1. PICK D : Dispatch(SetToBag(D), result)
  BY DEF Ends, Idle, EmptyBag
<1>2. QED
  BY <1>1, DispatchBegins DEF Follows, LockAside, Aloof

-----------------------------------------------------------------------------
(* The steps, for what is known and for the lock.                          *)

LEMMA StillShown ==
  ASSUME LockInv, ShownInv, Begins, UNCHANGED <<round, blocks, calls>>
  PROVE  ShownInv'
BY StillRecounts, BeginsKeeps DEF LockInv, ShownInv

\* The router.
LEMMA OpeningAloof ==
  ASSUME IInv, NEW pool, Open(pool)
  PROVE  Aloof
<1> DEFINE result == IF pool = None THEN OpenedEntry(state) ELSE OpenedPool(state, pool)
           begun == BegunAll(result.effects)
<1>1. state' = result.state /\ tasks' = tasks (+) begun
  BY DEF Open
<1>2. LockAside(state, result) /\ IsABag(tasks)
  BY MovesLockAside DEF IInv
<1> HIDE DEF result
<1>3. IsABag(begun) /\ BagToSet(begun) = {Begun(e) : e \in result.effects}
  BY OnceEach DEF BegunAll
<1> HIDE DEF begun
<1>4. BagToSet(tasks') = BagToSet(tasks) \cup BagToSet(begun)
  BY <1>1, <1>2, <1>3, Added
<1>5. Begins
  BY <1>3, <1>4, BegunFresh DEF Begins
<1>6. QED
  BY <1>1, <1>2, <1>5 DEF Aloof, LockAside

\* A button does nothing while a call may still land.
LEMMA ActAloof ==
  ASSUME IInv, Act
  PROVE  Aloof
<1>1. PICK action : Idle(ActionRequested(state, action))
  BY DEF Act
<1> DEFINE result == ActionRequested(state, action)
<1>2. Follows(state, result) /\ Dispatch(SetToBag({}), result)
  BY <1>1, ActingFollows DEF IInv, Idle, EmptyBag
<1>3. Waits(state.sending) => result.state.sending = state.sending
  BY RequestLocks DEF IInv, LockAside, Waits
<1> HIDE DEF result
<1>4. QED
  BY <1>2, <1>3, DispatchBegins DEF Follows, Aloof

\* The user, the wallet layer and the timer.
LEMMA UserAloof ==
  ASSUME IInv, User \/ WalletSeen \/ Refresh
  PROVE  Aloof /\ UNCHANGED <<round, blocks, calls>>
<1>1. Coherent(state)
  BY DEF IInv
<1>2. CASE AskQuote
  BY <1>1, <1>2, AsideAloof, EventsLockAside, BuyingFollows DEF AskQuote, chainVars
<1>3. CASE Buy
  BY <1>1, <1>3, AsideAloof, EventsLockAside, BuyingFollows DEF Buy, chainVars
<1>4. CASE FindSeats
  BY <1>1, <1>4, AsideAloof, EventsLockAside, FindingFollows DEF FindSeats, chainVars
<1>5. CASE WalletSeen
  BY <1>1, <1>5, AsideAloof, EventsLockAside, WalletFollows DEF WalletSeen, chainVars
<1>6. CASE Refresh
  BY <1>1, <1>6, AsideAloof, ReadLockAside, ReadFollows DEF Refresh, chainVars
<1>7. ASSUME NEW wallet, ChangeWallet(wallet)
      PROVE  Aloof /\ UNCHANGED <<round, blocks, calls>>
  BY <1>7 DEF ChangeWallet, chainVars, pageVars, Aloof, Begins
<1>8. ASSUME NEW pool, Open(pool) PROVE Aloof /\ UNCHANGED <<round, blocks, calls>>
  BY <1>8, OpeningAloof DEF Open, chainVars
<1>9. CASE Act
  BY <1>9, ActAloof DEF Act, chainVars
<1>10. QED
  BY <1>2, <1>3, <1>4, <1>5, <1>6, <1>7, <1>8, <1>9 DEF User

\* Buying, and looking for seats.
LEMMA BuyingAloof ==
  ASSUME IInv, QuestionInv, LockInv, HistoryInv,
         \/ \E t \in Running("REQUEST_QUOTE") : QuoteAnswered(t)
         \/ \E t \in Running("VERIFY_QUOTE") : QuoteChecked(t)
         \/ \E t \in Running("BUILD_AND_SIGN") :
              SeatSettles(t) \/ SettlementAnswered(t) \/ SettlementFails(t)
         \/ \E t \in Running("FIND_MY_POOLS") : FindAnswered(t)
         \/ \E t \in Running("IN_FLIGHT") : InFlightEnds(t)
  PROVE  Aloof /\ Recounts
<1>1. Coherent(state) /\ ChainInv
  BY DEF IInv, LockInv
<1>2. ASSUME NEW t, QuoteAnswered(t) PROVE Aloof /\ Recounts
  <2>1. Recounts
    BY <1>1, <1>2, StillRecounts DEF QuoteAnswered, chainVars
  <2>2. \A pool \in Pool : /\ Follows(state, QuoteReceived(state, pool))
                           /\ LockAside(state, QuoteReceived(state, pool))
    BY <1>1, QuoteFollows, MovesLockAside, PageAssumption
  <2>3. /\ Follows(state, QuoteRefused(state)) /\ LockAside(state, QuoteRefused(state))
        /\ Follows(state, QuoteFailed(state)) /\ LockAside(state, QuoteFailed(state))
    BY <1>1, BuyingFollows, EventsLockAside
  <2>4. PICK result : Follows(state, result) /\ LockAside(state, result) /\ Ends(t, result)
    BY <1>2, <2>2, <2>3 DEF QuoteAnswered
  <2>5. QED
    BY <2>1, <2>4, AsideAloof
<1>3. ASSUME NEW t, QuoteChecked(t) PROVE Aloof /\ Recounts
  <2>1. Recounts
    BY <1>1, <1>3, StillRecounts DEF QuoteChecked, chainVars
  <2>2. /\ Follows(state, QuoteVerified(state)) /\ LockAside(state, QuoteVerified(state))
        /\ Follows(state, QuoteStale(state)) /\ LockAside(state, QuoteStale(state))
        /\ Follows(state, QuoteUnverifiable(state))
        /\ LockAside(state, QuoteUnverifiable(state))
    BY <1>1, BuyingFollows, EventsLockAside
  <2>3. PICK result : Follows(state, result) /\ LockAside(state, result) /\ Ends(t, result)
    BY <1>3, <2>2 DEF QuoteChecked
  <2>4. QED
    BY <2>1, <2>3, AsideAloof
<1>4. ASSUME NEW t \in Running("BUILD_AND_SIGN"), SeatSettles(t) PROVE Aloof /\ Recounts
  <2> DEFINE to == [t EXCEPT !.paid = TRUE]
  <2>1. Goes(t, to) /\ Recounts
    BY <1>1, <1>4, JoinRecounts DEF SeatSettles
  <2>2. to.kind = "BUILD_AND_SIGN"
    BY DEF Running
  <2> HIDE DEF to
  <2>3. BagToSet(tasks') \subseteq BagToSet(tasks) \cup {to}
    <3>1. IsABag(BagRemove(tasks, t)) /\ BagToSet(BagRemove(tasks, t)) \subseteq BagToSet(tasks)
      BY Taken DEF IInv
    <3>2. QED
      BY <2>1, <3>1, Added DEF Goes
  <2>4. QED
    BY <2>1, <2>2, <2>3 DEF Aloof, Begins, Fresh, Goes
<1>5. ASSUME NEW t \in Running("BUILD_AND_SIGN"), SettlementAnswered(t)
      PROVE  Aloof /\ Recounts
  <2>1. t.pool = state.quote /\ state.quote \in Pool
    BY DEF QuestionInv, Question, AskedFor, OfKinds, Running, Questions
  <2>2. Follows(state, Settled(state, t.pool)) /\ LockAside(state, Settled(state, t.pool))
    BY <1>1, <2>1, SettledFollows, MovesLockAside, PageAssumption
  <2>3. Recounts
    BY <1>1, <1>5, StillRecounts DEF SettlementAnswered, chainVars
  <2>4. QED
    BY <1>5, <2>2, <2>3, AsideAloof DEF SettlementAnswered
<1>6. ASSUME NEW t, SettlementFails(t) PROVE Aloof /\ Recounts
  <2> DEFINE failed == SettleFailed(state)
             e == [kind |-> "IN_FLIGHT", pool |-> t.pool, sender |-> t.sender]
             flying == [failed EXCEPT !.effects = @ \cup {e}]
  <2>1. Follows(state, failed) /\ LockAside(state, failed)
    BY <1>1, BuyingFollows, EventsLockAside
  <2>2. DOMAIN failed = {"state", "effects", "path"}
    BY DEF SettleFailed, Only, Result
  <2>3. \E D : Dispatch(SetToBag(D), failed) \/ Dispatch(SetToBag(D), flying)
    BY <1>6 DEF SettlementFails, Ends
  <2> HIDE DEF failed, e
  <2>4. flying.state = failed.state
    BY <2>2
  <2> HIDE DEF flying
  <2>5. Aloof
    BY <2>1, <2>3, <2>4, DispatchBegins DEF Follows, LockAside, Aloof
  <2>6. QED
    BY <1>1, <1>6, <2>5, StillRecounts DEF SettlementFails, chainVars
<1>7. ASSUME NEW t, FindAnswered(t) PROVE Aloof /\ Recounts
  <2>1. Recounts
    BY <1>1, <1>7, StillRecounts DEF FindAnswered, chainVars
  <2>2. QED
    BY <1>1, <1>7, <2>1, FindingFollows, EventsLockAside, AsideAloof DEF FindAnswered
<1>8. ASSUME NEW t, InFlightEnds(t) PROVE Aloof /\ Recounts
  <2>1. Recounts
    BY <1>1, <1>8, JoinRecounts, StillRecounts DEF InFlightEnds, chainVars
  <2>2. BagToSet(tasks') \subseteq BagToSet(tasks)
    BY <1>8, Taken DEF InFlightEnds, IInv
  <2>3. QED
    BY <1>8, <2>1, <2>2 DEF InFlightEnds, Aloof, Begins
<1>9. QED
  BY <1>2, <1>3, <1>4, <1>5, <1>6, <1>7, <1>8

\* Reading a pool.
LEMMA ReadingShown ==
  ASSUME IInv, LockInv, ShownInv, NEW t \in Running("READ_POOL"),
         ReadBoxes(t) \/ transactionFate(t) \/ ReadAnswered(t) \/ ReadFails(t)
  PROVE  ShownInv' /\ (ReadAnswered(t) \/ (Waits(state.sending) => state'.sending = state.sending))
<1>1. /\ t \in BagToSet(tasks) /\ t.kind = "READ_POOL" /\ Coherent(state)
      /\ ChainInv /\ HistoryInv /\ Beheld(t)
  BY DEF Running, IInv, LockInv, ShownInv, Knows
<1>2. /\ DOMAIN t = {"kind", "pool", "wallet", "call", "view", "fate", "at"}
      /\ Told(t, calls) /\ Seen(t)
  BY <1>1 DEF LockInv, Reads
<1>3. UNCHANGED <<round, blocks, calls>>
  BY DEF ReadBoxes, transactionFate, ReadAnswered, ReadFails, chainVars
<1>4. Recounts
  BY <1>1, <1>3, StillRecounts
<1>5. ASSUME NEW to, to.kind = "READ_POOL", Beheld(to), Goes(t, to)
      PROVE  ShownInv' /\ state' = state
  <2>1. Knows(to)'
    BY <1>3, <1>5 DEF Knows, Beheld
  <2>2. QED
    BY <1>4, <1>5, <2>1, ShownGoesOn DEF Goes
<1>6. CASE ReadBoxes(t)
  <2>1. PICK view \in Views(t.pool) :
          Goes(t, [t EXCEPT !.view =
                     IF t.call = None THEN [view EXCEPT !.round = None] ELSE view])
    BY <1>6, Zenon DEF ReadBoxes
  <2> DEFINE seen == IF t.call = None THEN [view EXCEPT !.round = None] ELSE view
             to == [t EXCEPT !.view = seen]
  <2>2. Goes(t, to)
    BY <2>1
  <2>3. t.call # None => seen = view
    OBVIOUS
  <2> HIDE DEF seen
  <2>4. /\ to.kind = t.kind /\ to.call = t.call /\ to.fate = t.fate /\ to.at = t.at
        /\ to.view = seen
    BY <1>2
  <2> HIDE DEF to
  <2>5. ASSUME t.call # None
        PROVE  /\ view.round = None => view.record = None
               /\ /\ view.round # None /\ calls[t.call.tx].fate = "committed"
                  /\ view.round >= calls[t.call.tx].at
                  => Reflects(view, calls[t.call.tx])
    <3>1. /\ t.call.tx \in DOMAIN calls /\ calls[t.call.tx].pool = t.pool /\ t.pool \in Pool
          /\ Traced(calls[t.call.tx])
      BY <1>1, <1>2, <2>5 DEF Told, Known, ChainInv, HistoryInv
    <3>2. QED
      BY <1>1, <3>1, ViewsSound, ViewReflects
  <2>6. Beheld(to)
    BY <1>1, <2>3, <2>4, <2>5 DEF Beheld
  <2>7. QED
    BY <1>1, <1>5, <2>2, <2>4, <2>6
<1>7. CASE transactionFate(t)
  <2> DEFINE silent == [t EXCEPT !.fate = "silent"]
             dropped == [t EXCEPT !.fate = "dropped"]
             landed == [t EXCEPT !.fate = "confirmed", !.at = calls[t.call.tx].at]
  <2>1. Goes(t, silent) \/ Goes(t, dropped) \/ Goes(t, landed)
    BY <1>7, Zenon DEF transactionFate
  <2>2. /\ silent.kind = t.kind /\ silent.call = t.call /\ silent.view = t.view
        /\ dropped.kind = t.kind /\ dropped.call = t.call /\ dropped.view = t.view
        /\ landed.kind = t.kind /\ landed.call = t.call /\ landed.view = t.view
        /\ silent.fate = "silent" /\ dropped.fate = "dropped"
        /\ landed.at = calls[t.call.tx].at
    BY <1>2
  <2> HIDE DEF silent, dropped, landed
  <2>3. Beheld(silent) /\ Beheld(dropped) /\ Beheld(landed)
    BY <1>1, <2>2 DEF Beheld
  <2>4. QED
    BY <1>1, <1>5, <2>1, <2>2, <2>3
<1>8. CASE ReadAnswered(t)
  <2>1. PICK c, finalFor : Ends(t, ReadReceived(state, c, finalFor))
    BY <1>8 DEF ReadAnswered
  <2> DEFINE result == ReadReceived(state, c, finalFor)
  <2>2. Coherent(result.state) /\ Dispatch(SetToBag({t}), result)
    BY <1>1, <2>1, ReadingFollows DEF Ends, Follows
  <2> HIDE DEF result
  <2>3. Begins
    BY <2>2, DispatchBegins
  <2>4. QED
    BY <1>4, <1>8, <2>3, BeginsKeeps
<1>9. CASE ReadFails(t)
  <2>1. Aloof
    BY <1>1, <1>9, ReadFailedFollows, EventsLockAside, AsideAloof DEF ReadFails
  <2>2. QED
    BY <1>4, <2>1, BeginsKeeps DEF Aloof
<1>10. QED
  BY <1>5, <1>6, <1>7, <1>8, <1>9

\* It ends.
LEMMA SenderEnds ==
  ASSUME IInv, LockInv, ShownInv, Recounts, NEW t, NEW action, NEW pool, NEW call,
         \/ Ends(t, ActionEnded(state, action, pool))
         \/ Ends(t, ActionUnconfirmed(state, action, pool, call))
  PROVE  ShownInv'
<1>1. PICK result : Coherent(result.state) /\ Dispatch(SetToBag({t}), result)
  BY ActingFollows DEF Ends, Follows, IInv
<1>2. QED
  BY <1>1, DispatchBegins, BeginsKeeps

\* Sending a call.
LEMMA SendingShown ==
  ASSUME IInv, LockInv, ShownInv, NEW t \in Running("SEND_ACTION"),
         Compose(t) \/ Submit(t) \/ SendFails(t) \/ WaitEnds(t)
  PROVE  ShownInv' /\ ~Waits(state.sending)
<1>1. /\ Locked(state.sending, t.action, t.pool) /\ IsLock(state.sending)
      /\ ~Waits(state.sending) /\ Sends(t, calls) /\ t \in BagToSet(tasks)
      /\ DOMAIN t = {"kind", "pool", "action", "sender", "built", "tx"}
      /\ t.kind = "SEND_ACTION" /\ ChainInv /\ HistoryInv /\ Knows(t)
  BY SenderAlone DEF Sends, LockInv, ShownInv
<1>2. t.pool \in Pool /\ t.action \in Action
  BY <1>1 DEF Locked, IsLock
<1>3. CASE Compose(t)
  <2>1. UNCHANGED <<round, blocks, calls>> /\ Recounts
    BY <1>1, <1>3, StillRecounts DEF Compose, chainVars
  <2>2. PICK view \in Views(t.pool) :
          /\ view.record # None
          /\ Goes(t, [t EXCEPT !.built =
               [action |-> t.action, pool |-> t.pool, count |-> RefundBatchSize(view.record),
                seats |-> Named(t.action, view.record, view.roster, t.sender),
                lastValid |-> view.round + Validity, fate |-> "unsent", at |-> 0]])
    BY <1>3, Zenon DEF Compose
  <2>3. PICK built : built =
          [action |-> t.action, pool |-> t.pool, count |-> RefundBatchSize(view.record),
           seats |-> Named(t.action, view.record, view.roster, t.sender),
           lastValid |-> view.round + Validity, fate |-> "unsent", at |-> 0]
    OBVIOUS
  <2>4. /\ built.count = RefundBatchSize(view.record)
        /\ built.seats = Named(built.action, view.record, view.roster, t.sender)
    BY <2>3
  <2>5. Aims(built, Pools[t.pool])
    BY <1>1, <1>2, <2>2, <2>4, ViewAims
  <2> DEFINE to == [t EXCEPT !.built = built]
  <2>6. Goes(t, to)
    BY <2>2, <2>3
  <2>7. to.kind = t.kind /\ to.pool = t.pool /\ to.built = built
    BY <1>1
  <2> HIDE DEF to
  <2>8. Knows(to)'
    BY <1>1, <1>2, <2>1, <2>5, <2>7 DEF Knows, Pools
  <2>9. QED
    BY <1>1, <2>1, <2>6, <2>8, ShownGoesOn
<1>4. CASE Submit(t)
  <2> DEFINE tx == Len(calls) + 1
  <2>1. /\ t.built # None /\ round' = round /\ blocks' = blocks
        /\ \E fate \in {"travelling", "never"} :
             calls' = Append(calls, [t.built EXCEPT !.fate = fate])
        /\ \/ Goes(t, [t EXCEPT !.built = None, !.tx = tx])
           \/ EndsUnconfirmed(t, tx, t.built.lastValid)
    BY <1>4, Zenon DEF Submit, chainVars
  <2>2. PICK fate \in {"travelling", "never"} :
          calls' = Append(calls, [t.built EXCEPT !.fate = fate])
    BY <2>1
  <2>3. PICK call : call = [t.built EXCEPT !.fate = fate]
    OBVIOUS
  <2>4. /\ DOMAIN t.built = CallFields /\ t.built.action = t.action /\ t.built.pool = t.pool
        /\ Aims(t.built, Pools[t.pool])
    BY <1>1, <2>1 DEF Sends, Knows, CallFields
  <2>5. /\ DOMAIN call = CallFields /\ call.action = t.action /\ call.pool = t.pool
        /\ call.count = t.built.count /\ call.seats = t.built.seats
        /\ call.fate # "committed"
    BY <2>3, <2>4 DEF CallFields
  <2>6. /\ DOMAIN calls' = DOMAIN calls \cup {tx} /\ calls'[tx] = call
        /\ \A x \in DOMAIN calls : calls'[x] = calls[x]
    BY <1>1, <2>2, <2>3 DEF ChainInv
  <2>7. Pools' = Pools
    BY <2>1 DEF Pools
  <2>8. Traced(call)'
    BY <1>2, <2>4, <2>5, <2>7 DEF Traced, Aims
  <2>9. ASSUME NEW x \in DOMAIN calls' PROVE Traced(calls[x])'
    <3>1. CASE x \in DOMAIN calls
      <4>1. calls'[x] = calls[x] /\ Traced(calls[x])
        BY <1>1, <2>6, <3>1 DEF HistoryInv
      <4>2. QED
        BY <2>1, <2>7, <4>1 DEF Traced, RoundOf
    <3>2. CASE x \notin DOMAIN calls
      BY <2>6, <2>8, <3>2
    <3>3. QED
      BY <3>1, <3>2
  <2>10. HistoryInv'
    BY <1>1, <2>1, <2>7, <2>9 DEF HistoryInv
  <2>11. \A p \in Pool : SoundRecord(Pools[p])
    BY <1>1, LastBlock DEF HistoryInv
  <2>12. Recounts
    BY <2>6, <2>7, <2>10, <2>11, OnwardSelf DEF Recounts, Landed
  <2>13. CASE Goes(t, [t EXCEPT !.built = None, !.tx = tx])
    <3>1. PICK to : to = [t EXCEPT !.built = None, !.tx = tx]
      OBVIOUS
    <3>2. to.kind = t.kind /\ to.built = None /\ Goes(t, to)
      BY <1>1, <2>13, <3>1
    <3>3. Knows(to)'
      BY <1>1, <3>2 DEF Knows
    <3>4. QED
      BY <1>1, <2>12, <3>2, <3>3, ShownGoesOn
  <2>14. CASE EndsUnconfirmed(t, tx, t.built.lastValid)
    BY <1>1, <2>12, <2>14, SenderEnds DEF EndsUnconfirmed
  <2>15. QED
    BY <2>1, <2>13, <2>14
<1>5. CASE SendFails(t) \/ WaitEnds(t)
  <2>1. Recounts
    BY <1>1, <1>5, StillRecounts DEF SendFails, WaitEnds, chainVars
  <2>2. QED
    BY <1>1, <1>5, <2>1, SenderEnds DEF SendFails, WaitEnds, EndsUnconfirmed
<1>6. QED
  BY <1>3, <1>4, <1>5

\* The reading that lets go of a call that landed shows what it did.
LEMMA AnswerReflects ==
  ASSUME IInv, LockInv, ShownInv, NEW t \in Running("READ_POOL"), ReadAnswered(t),
         Waits(state.sending), state'.sending = None,
         state.screen = state.sending.pool,
         calls[state.sending.call.tx].fate = "committed"
  PROVE  Reflects(state'.circumstances, calls[state.sending.call.tx])
<1> DEFINE lock == state.sending
           call == calls[lock.call.tx]
<1>1. /\ t \in BagToSet(tasks) /\ t.kind = "READ_POOL" /\ Coherent(state)
      /\ ChainInv /\ HistoryInv /\ Beheld(t)
  BY DEF Running, IInv, LockInv, ShownInv, Knows
<1>2. Told(t, calls) /\ Seen(t) /\ t.view # None
  BY <1>1 DEF LockInv, Reads, ReadAnswered
<1>3. PICK c : /\ c.pool = t.pool /\ c.record = t.view.record /\ c.roster = t.view.roster
               /\ Ends(t, ReadReceived(state, c, IF t.call = None THEN None
                                       ELSE IF showsOutcome(t) THEN t.call.tx ELSE None))
  BY Zenon DEF ReadAnswered
<1>4. PICK finalFor : /\ Ends(t, ReadReceived(state, c, finalFor))
                      /\ \/ finalFor = None
                         \/ t.call # None /\ showsOutcome(t) /\ finalFor = t.call.tx
  BY <1>3
<1> DEFINE result == ReadReceived(state, c, finalFor)
<1>5. state' = result.state
  <2>1. result.path = None
    BY DEF ReadReceived, Only, Result
  <2>2. QED
    BY <1>4, <2>1 DEF Ends, Dispatch, Only, Result
<1>6. /\ result.state.sending = None /\ lock # None
      /\ lock.pool = c.pool /\ finalFor = lock.call.tx
  BY <1>1, <1>5, ReadingLocks DEF Waits
<1>7. result.state.circumstances = c
  <2> DEFINE base == Released(state, c.pool, finalFor)
             n(awaiting) == [base EXCEPT !.reading = FALSE, !.circumstances = c,
                                         !.awaiting = awaiting]
  <2>1. PICK awaiting :
          result = IF ~forWallet(state, c.wallet) THEN Only(state)
                   ELSE IF c.pool # state.screen THEN Only(base) ELSE Only(n(awaiting))
    BY DEF ReadReceived
  <2>2. DOMAIN base = Fields
    BY <1>1 DEF Released, Coherent, Fields
  <2> HIDE DEF base
  <2>3. n(awaiting).circumstances = c
    BY <2>2 DEF Fields
  <2> HIDE DEF n, result
  <2>4. result = Only(n(awaiting))
    BY <1>6, <2>1 DEF Only, Result
  <2>5. QED
    BY <2>3, <2>4 DEF Only, Result
<1> HIDE DEF result
<1>8. lock.call.tx # None
  <2>1. lock.call.tx \in DOMAIN calls
    BY DEF LockInv, LockFor, Known
  <2>2. QED
    BY <1>1, <2>1, PageAssumption DEF ChainInv
<1>9. t.call # None /\ showsOutcome(t) /\ t.call.tx = lock.call.tx
  BY <1>4, <1>6, <1>8
<1>10. /\ call.lastValid = t.call.lastValid /\ call.lastValid \in Int
       /\ call.at \in Int /\ call.at <= call.lastValid
  <2>1. /\ t.call.tx \in DOMAIN calls /\ call.lastValid = t.call.lastValid
    BY <1>2, <1>9 DEF Told, Known
  <2>2. QED
    BY <1>1, <1>9, <2>1 DEF ChainInv, HistoryInv, Traced
<1>11. Reflects(t.view, call)
  <2>1. CASE t.view.round = None
    BY <1>1, <1>2, <1>9, <2>1 DEF Beheld, Reflects
  <2>2. CASE t.view.round # None
    <3>1. t.view.round \in Int
      BY <1>2, <1>9, <2>2 DEF Seen
    <3>2. t.fate # "dropped"
      BY <1>2, <1>9 DEF Told
    <3>3. t.fate = "confirmed" => t.at = call.at
      BY <1>1, <1>9 DEF Beheld
    <3>4. t.view.round >= call.at
      BY <1>9, <1>10, <2>2, <3>1, <3>2, <3>3 DEF showsOutcome
    <3>5. QED
      BY <1>1, <1>2, <1>9, <2>2, <3>4 DEF Beheld
  <2>3. QED
    BY <2>1, <2>2
<1>12. QED
  BY <1>3, <1>5, <1>7, <1>11 DEF Reflects

\* The chain the page is loaded on.
LEMMA NothingShown == Init => ShownInv
<1> SUFFICES ASSUME Init PROVE ShownInv
  OBVIOUS
<1>1. blocks = <<InitialRecord>> /\ calls = <<>> /\ \E effects : tasks = BegunAll(effects)
  BY DEF Init
<1>2. Len(blocks) = 1 /\ DOMAIN blocks = {1} /\ blocks[1] = InitialRecord
  BY <1>1
<1>3. Pools = InitialRecord
  BY <1>2 DEF Pools
<1>4. ASSUME NEW pool \in Pool PROVE SoundRecord(InitialRecord[pool])
  <2> DEFINE r == InitialRecord[pool]
  <2>1. r \in PoolRecord /\ r.cursor <= Len(r.payers)
    BY PageAssumption
  <2> HIDE DEF r
  <2>2. /\ DOMAIN r = {"state", "late", "gone", "payers", "owed", "cursor"}
        /\ r.payers \in Seq(Wallet \cup {"other"}) /\ r.owed \in SUBSET Nat /\ r.cursor \in Nat
    BY <2>1 DEF PoolRecord
  <2>3. r.payers \in Seq(Range(r.payers))
    BY <2>2, OwnRange
  <2>4. QED
    BY <2>1, <2>2, <2>3 DEF SoundRecord, r
<1>5. HistoryInv
  BY <1>1, <1>2, <1>3, <1>4, OnwardSelf DEF HistoryInv
<1>6. ASSUME NEW t \in BagToSet(tasks) PROVE Knows(t)
  <2>1. Fresh(t)
    BY <1>1, BegunFresh, OnceEach DEF BegunAll
  <2>2. QED
    BY <2>1 DEF Fresh, Knows, Beheld
<1>7. QED
  BY <1>5, <1>6 DEF ShownInv

\* A step keeps what is known, and the lock of a call nobody saw confirm unless
\* a reading answers.
LEMMA StepShown ==
  ASSUME IInv, QuestionInv, LockInv, ShownInv, [Next]_vars
  PROVE  /\ ShownInv'
         /\ \/ Waits(state.sending) => state'.sending = state.sending
            \/ \E t \in Running("READ_POOL") : ReadAnswered(t)
<1>1. ChainInv /\ HistoryInv
  BY DEF LockInv, ShownInv
<1>2. CASE UNCHANGED vars
  BY <1>2, StillShown DEF vars, Begins
<1>3. CASE Effects
  BY <1>1, <1>3, ReadingShown, SendingShown, BuyingAloof, BeginsKeeps DEF Effects, Aloof
<1>4. CASE User \/ WalletSeen \/ Refresh
  BY <1>4, UserAloof, StillShown DEF Aloof
<1>5. CASE Others \/ \E tx \in DOMAIN calls : Commit(tx) \/ Drop(tx)
  <2>1. UNCHANGED pageVars /\ Recounts
    BY <1>1, <1>5, WorldLeavesPage, WorldRecounts
  <2>2. QED
    BY <2>1, BeginsKeeps DEF pageVars, Begins
<1>6. QED
  BY <1>2, <1>3, <1>4, <1>5 DEF Next

LEMMA ShownInvariant == Spec => []ShownInv
<1>1. IInv /\ QuestionInv /\ LockInv /\ ShownInv /\ [Next]_vars => ShownInv'
  BY StepShown
<1>2. QED
  BY <1>1, NothingShown, Invariant, PurchaseInvariant, LockInvariant, PTL DEF Spec

\* The lock on a call that landed goes with a reading that shows what the call
\* did, whichever machines answered for the record, the roster and the call's
\* fate, and however late: the buyer is never offered the same button again
\* over a chain that has already taken it (reader.ts showsOutcome, machine.ts
\* READ_RECEIVED).
THEOREM ReleaseShowsCallAlways == Spec => ReleaseShowsCall
<1> DEFINE LetGo ==
      /\ Unconfirmed(state)
      /\ state'.sending = None
      /\ state.screen = state.sending.pool
      /\ calls[state.sending.call.tx].fate = "committed"
      => Reflects(state'.circumstances, calls[state.sending.call.tx])
<1>1. IInv /\ QuestionInv /\ LockInv /\ ShownInv /\ [Next]_vars => [LetGo]_vars
  <2> SUFFICES ASSUME IInv, QuestionInv, LockInv, ShownInv, [Next]_vars,
                      Unconfirmed(state), state'.sending = None,
                      state.screen = state.sending.pool,
                      calls[state.sending.call.tx].fate = "committed"
               PROVE  Reflects(state'.circumstances, calls[state.sending.call.tx])
    OBVIOUS
  <2>1. Waits(state.sending) /\ state'.sending # state.sending
    BY DEF Unconfirmed, Waits
  <2>2. PICK t \in Running("READ_POOL") : ReadAnswered(t)
    BY <2>1, StepShown
  <2>3. QED
    BY <2>1, <2>2, AnswerReflects
<1>2. Spec => [][LetGo]_vars
  BY <1>1, Invariant, PurchaseInvariant, LockInvariant, ShownInvariant, PTL DEF Spec
<1>3. QED
  BY <1>2 DEF ReleaseShowsCall
=============================================================================
