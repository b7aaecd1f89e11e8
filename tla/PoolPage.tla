------------------------------ MODULE PoolPage ------------------------------
(***************************************************************************)
(* The pool page at work: the machine of PoolMachine, the effects that run *)
(* for it (web/src/pool/runner.ts), the refresh timer and the wallet layer *)
(* (usePoolMachine.ts), the router (ui/App.tsx), and around them the chain *)
(* and whoever else sends calls to it.                                     *)
(*                                                                         *)
(* An effect is a task: it takes its steps between the page's own events,  *)
(* any number run at once, and each ends by dispatching one event.  The    *)
(* public node answers each request from any of the last Lag + 1 blocks,   *)
(* never twice from the same machine.  The chain is the pool half of       *)
(* Escrow with the money left out: which seats are owed, and what each     *)
(* call does to them.                                                      *)
(***************************************************************************)
EXTENDS PoolMachine, Bags, BagsExt, FiniteSetsExt

CONSTANTS
  InitialRecord,  \* the record each pool has when the page loads
  Seats,          \* seats of a pool
  Validity,       \* CALL_VALIDITY_ROUNDS
  Lag,            \* how many blocks behind an answer of the node may be
  Poor,           \* wallets that may be unable to pay a fee
  Does,           \* what the user does, of the set below
  MaxRound,       \* bound on the blocks
  MaxCalls,       \* bound on the calls the page submits
  MaxTasks        \* bound on the effects running when the user or a timer acts

\* What the chain has of a pool: its state, whether its deadline has passed and
\* its boxes are gone, who paid, which seats are still held for, and how many
\* of the seats a refund pass has gone by.
PoolRecord ==
  [state : {"OPEN", "FUNDED", "RELEASED", "EXPIRED", "REFUNDING", "REFUNDED"},
   late : BOOLEAN, gone : BOOLEAN, payers : Seq(Wallet \cup {"other"}),
   owed : SUBSET Nat, cursor : Nat]

ASSUME PageAssumption ==
  /\ None \notin Pool \cup Wallet \cup Int
  /\ None \notin [action : Action, pool : Pool, call : {None} \cup [tx : Nat, lastValid : Int]]
  /\ InitialRecord \in [Pool -> PoolRecord]
  /\ \A pool \in Pool : InitialRecord[pool].cursor <= Len(InitialRecord[pool].payers)
  /\ Poor \subseteq Wallet
  /\ Does \subseteq {"buy", "act", "browse", "find", "connect", "disconnect"}
  /\ {Seats, Validity, Lag, BatchCeiling} \subseteq Nat

VARIABLES
  state,      \* the machine's
  tasks,      \* a bag: the effects running
  envelopes,  \* QUOTED_ROUTES: the pools whose 402 is remembered
  url,        \* the pool the address bar names, None for the entry screen
  address,    \* the wallet the wallet layer has connected
  round,      \* the last block's
  blocks,     \* the last Lag + 1 blocks, newest last: the pools after each
  calls,      \* the calls the page has submitted
  bought      \* <<wallet, pool>> pairs whose SETTLED the page has had

chainVars == <<round, blocks>>
pageVars == <<state, tasks, url>>
vars == <<state, tasks, envelopes, url, address, round, blocks, calls, bought>>

-----------------------------------------------------------------------------
(* The chain.                                                              *)

Pools == blocks[Len(blocks)]

\* A new block, in which `pool` becomes `record`.
Block(pool, record) ==
  LET longer == Append(blocks, [Pools EXCEPT ![pool] = record]) IN
  /\ round < MaxRound
  /\ round' = round + 1
  /\ blocks' = IF Len(longer) > Lag + 1 THEN Tail(longer) ELSE longer

RoundOf(i) == round - (Len(blocks) - i)

RosterOf(r) ==
  IF r.gone THEN [payers |-> <<>>, owed |-> {}] ELSE [payers |-> r.payers, owed |-> r.owed]

\* The pair is taken to be as recent as its newer half.
RoundOfPair_Newer(pool, i, j) ==
  LET there == {k \in {i, j} : ~blocks[k][pool].gone} IN
  IF there = {} THEN None ELSE RoundOf(Max(there))

\* The pair is as recent as the older of what there is of it.
RoundOfPair(pool, i, j) ==
  LET there == {k \in {i, j} : ~blocks[k][pool].gone} IN
  IF there = {} THEN None ELSE RoundOf(Min(there))

\* readPoolBoxes and chainTimestamp: requests answered by machines that need not
\* agree on the latest block, the record from one, the roster from another, the
\* clock from the latter's, since nothing compares the two.
Views(pool) ==
  {[record |-> IF blocks[i][pool].gone THEN None
               ELSE [blocks[i][pool] EXCEPT !.late = blocks[j][pool].late],
    roster |-> RosterOf(blocks[j][pool]),
    round |-> RoundOfPair(pool, i, j)] : i, j \in 1..Len(blocks)}

Joinable(r) == r.state = "OPEN" /\ ~r.late

JoinedBy(r, who) ==
  LET n == Len(r.payers) + 1 IN
  [r EXCEPT !.payers = Append(@, who), !.owed = @ \cup {n},
            !.state = IF n = Seats THEN "FUNDED" ELSE @]

\* The seats a refund_next of `count` passes.
RefundWindow(r, count) ==
  {i \in DOMAIN r.payers : i > r.cursor /\ i <= r.cursor + count}

\* The records a pass over the window may leave: any seat in it is skipped if
\* its payer cannot receive.
RefundedBy(r, count, named) ==
  LET last == Min({r.cursor + count, Len(r.payers)}) IN
  {[r EXCEPT !.owed = @ \ paid, !.cursor = last,
             !.state = IF last = Len(r.payers) THEN "REFUNDED" ELSE "REFUNDING"] :
     paid \in SUBSET (RefundWindow(r, count) \cap named)}

\* The records a call may leave; none when the contract refuses it.
Outcomes(r, call) ==
  IF r.gone THEN {}
  ELSE CASE call.action = "expire" ->
              IF r.late /\ r.state \in {"OPEN", "FUNDED"}
                THEN {[r EXCEPT !.state = "EXPIRED"]} ELSE {}
         [] call.action = "refund_next" ->
              IF r.state \in {"EXPIRED", "REFUNDING"}
                THEN RefundedBy(r, call.count, call.seats) ELSE {}
         [] call.action = "claim_refund" ->
              IF \A i \in call.seats : i <= r.cursor /\ i \in r.owed
                THEN {[r EXCEPT !.owed = @ \ call.seats]} ELSE {}
         [] call.action = "close" ->
              IF r.state = "RELEASED" \/ (r.state = "REFUNDED" /\ r.owed = {})
                THEN {[r EXCEPT !.gone = TRUE]} ELSE {}

\* The call another account sends: the operator's scripts, another buyer.
OthersCall(r) ==
  [action : {"expire", "close"}, count : {1}, seats : {{}}]
    \cup {[action |-> "refund_next", count |-> n, seats |-> RefundWindow(r, n)] :
            n \in 1..BatchCeiling}
    \cup {[action |-> "claim_refund", count |-> 1, seats |-> {i}] : i \in r.owed}

OthersCallLands(pool) ==
  /\ \E call \in OthersCall(Pools[pool]) : \E r \in Outcomes(Pools[pool], call) :
       Block(pool, r)
  /\ UNCHANGED <<pageVars, envelopes, address, calls, bought>>

OtherJoins(pool) ==
  /\ ~Pools[pool].gone
  /\ Joinable(Pools[pool])
  /\ Block(pool, JoinedBy(Pools[pool], "other"))
  /\ UNCHANGED <<pageVars, envelopes, address, calls, bought>>

DeadlinePasses(pool) ==
  /\ ~Pools[pool].late
  /\ ~Pools[pool].gone
  /\ Block(pool, [Pools[pool] EXCEPT !.late = TRUE])
  /\ UNCHANGED <<pageVars, envelopes, address, calls, bought>>

ReleaseLands(pool) ==
  /\ ~Pools[pool].gone
  /\ ~Pools[pool].late
  /\ Pools[pool].state = "FUNDED"
  /\ Block(pool, [Pools[pool] EXCEPT !.state = "RELEASED", !.owed = {}])
  /\ UNCHANGED <<pageVars, envelopes, address, calls, bought>>

EmptyBlock ==
  /\ \E pool \in Pool : Block(pool, Pools[pool])
  /\ UNCHANGED <<pageVars, envelopes, address, calls, bought>>

-----------------------------------------------------------------------------
(* The page's own submissions.                                             *)

\* A submitted call that a block may still take.
CanLand(call) ==
  /\ call.fate = "travelling"
  /\ round < call.lastValid
  /\ ~Pools[call.pool].gone

Commit(tx) ==
  /\ calls[tx].fate = "travelling"
  /\ round < calls[tx].lastValid
  /\ \E r \in Outcomes(Pools[calls[tx].pool], calls[tx]) : Block(calls[tx].pool, r)
  /\ calls' = [calls EXCEPT ![tx].fate = "committed", ![tx].at = round']
  /\ UNCHANGED <<pageVars, envelopes, address, bought>>

Drop(tx) ==
  /\ calls[tx].fate = "travelling"
  /\ calls' = [calls EXCEPT ![tx].fate = "dropped"]
  /\ UNCHANGED <<pageVars, envelopes, address, chainVars, bought>>

-----------------------------------------------------------------------------
(* dispatch.  An effect starts in the dispatch that asked for it, with the *)
(* wallet connected at that moment.                                        *)

Begun(effect) ==
  CASE effect.kind = "READ_POOL" ->
         [kind |-> "READ_POOL", pool |-> effect.pool, wallet |-> effect.wallet,
          call |-> effect.call, view |-> None, fate |-> "unasked", at |-> 0]
    [] effect.kind = "BUILD_AND_SIGN" ->
         [kind |-> "BUILD_AND_SIGN", pool |-> effect.pool, sender |-> address,
          paid |-> FALSE]
    [] effect.kind = "SEND_ACTION" ->
         [kind |-> "SEND_ACTION", pool |-> effect.pool, action |-> effect.action,
          sender |-> address, built |-> None, tx |-> 0]
    [] OTHER -> effect

BegunAll(effects) == SetToBag({Begun(effect) : effect \in effects})

\* The events `done` ends with are reduced.  A path other than the one in the
\* address bar moves it, and the router's layout effect dispatches OPENED_POOL
\* before anything else can happen.
Dispatch(done, result) ==
  LET moves == result.path \notin {None, url}
      opened == IF moves THEN OpenedPool(result.state, result.path)
                         ELSE Only(result.state)
  IN  /\ state' = opened.state
      /\ url' = IF moves THEN result.path ELSE url
      /\ tasks' = ((tasks (-) done) (+) BegunAll(result.effects))
                    (+) BegunAll(opened.effects)

Running(kind) == {t \in BagToSet(tasks) : t.kind = kind}

\* A task ends with this event.
Ends(t, result) == Dispatch(SetToBag({t}), result)

\* A task goes on.
Goes(t, to) ==
  /\ tasks' = BagAdd(BagRemove(tasks, t), to)
  /\ UNCHANGED <<state, url>>

-----------------------------------------------------------------------------
(* The user, the wallet layer and the timer.                               *)

Idle(result) == Dispatch(EmptyBag, result)

UserActs(does) == does \in Does /\ BagCardinality(tasks) < MaxTasks

\* A link, the back button, or the address typed.
Open(pool) ==
  /\ UserActs("browse")
  /\ pool # url
  /\ url' = pool
  /\ LET result == IF pool = None THEN OpenedEntry(state) ELSE OpenedPool(state, pool)
     IN  /\ state' = result.state
         /\ tasks' = tasks (+) BegunAll(result.effects)
  /\ UNCHANGED <<envelopes, address, chainVars, calls, bought>>

AskQuote ==
  /\ UserActs("buy")
  /\ state.purchase \in MayQuote
  /\ Idle(QuoteRequested(state))
  /\ UNCHANGED <<envelopes, address, chainVars, calls, bought>>

Buy ==
  /\ UserActs("buy")
  /\ state.purchase = "CONFIRM"
  /\ Idle(BuyRequested(state))
  /\ UNCHANGED <<envelopes, address, chainVars, calls, bought>>

\* A button of the pool on screen.
Act ==
  /\ UserActs("act")
  /\ state.circumstances # None
  /\ \E action \in Offered(state.circumstances) : Idle(ActionRequested(state, action))
  /\ UNCHANGED <<envelopes, address, chainVars, calls, bought>>

FindSeats ==
  /\ UserActs("find")
  /\ ~state.finding
  /\ Idle(MyPoolsRequested(state))
  /\ UNCHANGED <<envelopes, address, chainVars, calls, bought>>

\* The wallet layer connects another wallet, or disconnects.
ChangeWallet(wallet) ==
  /\ UserActs(IF wallet = None THEN "disconnect" ELSE "connect")
  /\ wallet # address
  /\ address' = wallet
  /\ UNCHANGED <<pageVars, envelopes, chainVars, calls, bought>>

\* The effect that tells the machine.
WalletSeen ==
  /\ address # state.wallet
  /\ Idle(WalletIs(state, address))
  /\ UNCHANGED <<envelopes, address, chainVars, calls, bought>>

\* The interval, or the tab becoming visible: READ_REQUESTED.
Refresh ==
  /\ ShouldPoll(state)
  /\ BagCardinality(tasks) < MaxTasks
  /\ Idle(readPool(state))
  /\ UNCHANGED <<envelopes, address, chainVars, calls, bought>>

-----------------------------------------------------------------------------
(* readPool: the boxes and the call's fate are asked for at once, and      *)
(* answered in either order.  Without a call nobody asks for the round.    *)

ReadBoxes(t) ==
  /\ t.view = None
  /\ \E view \in Views(t.pool) :
       Goes(t, [t EXCEPT !.view =
                  IF t.call = None THEN [view EXCEPT !.round = None] ELSE view])
  /\ UNCHANGED <<envelopes, address, chainVars, calls, bought>>

\* A node that does not know the transaction, or has it pending, says nothing.
transactionFate(t) ==
  /\ t.call # None
  /\ t.fate = "unasked"
  /\ LET call == calls[t.call.tx] IN
     \/ Goes(t, [t EXCEPT !.fate = "silent"])
     \/ call.fate = "dropped" /\ Goes(t, [t EXCEPT !.fate = "dropped"])
     \/ call.fate = "committed" /\ Goes(t, [t EXCEPT !.fate = "confirmed", !.at = call.at])
  /\ UNCHANGED <<envelopes, address, chainVars, calls, bought>>

\* Nothing but the node's word ends the wait.
showsOutcome_NoWindow(t) ==
  \/ t.view.round = None
  \/ t.fate = "dropped"
  \/ t.fate = "confirmed" /\ t.view.round >= t.at

\* A reading that is final for the call it was asked to check.
showsOutcome(t) ==
  \/ t.view.round = None
  \/ t.view.round >= t.call.lastValid
  \/ t.fate = "dropped"
  \/ t.fate = "confirmed" /\ t.view.round >= t.at

\* A node answers this task's read.
ReadAnswered(t) ==
  LET r == t.view.record
      status == IF r = None THEN Pools[t.pool].state ELSE r.state
  IN
  /\ t.view # None
  /\ t.call # None => t.fate # "unasked"
  /\ \E fee \in (IF t.wallet = None THEN {FALSE}
                 ELSE IF t.wallet \in Poor THEN BOOLEAN ELSE {TRUE}),
        more \in (IF status = "RELEASED" THEN BOOLEAN ELSE {FALSE}) :
       Ends(t, ReadReceived(state,
                 [pool |-> t.pool, wallet |-> t.wallet, fee |-> fee, more |-> more,
                  record |-> r, roster |-> t.view.roster],
                 IF t.call = None THEN None
                 ELSE IF showsOutcome(t) THEN t.call.tx ELSE None))
  /\ UNCHANGED <<envelopes, address, chainVars, calls, bought>>

\* Any of its requests may fail.
ReadFails(t) ==
  /\ Ends(t, ReadFailed(state, t.pool, t.wallet))
  /\ UNCHANGED <<envelopes, address, chainVars, calls, bought>>

-----------------------------------------------------------------------------
(* requestQuote, verifyQuote and buildAndSign.                             *)

\* The 402 names a pool the server has just read as open, however long ago it
\* was sent.
QuoteAnswered(t) ==
  /\ \/ \E pool \in Pool, view \in UNION {Views(p) : p \in Pool} :
          /\ view \in Views(pool)
          /\ view.record # None
          /\ Joinable(view.record)
          /\ envelopes' = envelopes \cup {pool}
          /\ Ends(t, QuoteReceived(state, pool))
     \/ /\ Ends(t, QuoteRefused(state)) \/ Ends(t, QuoteFailed(state))
        /\ UNCHANGED envelopes
  /\ UNCHANGED <<address, chainVars, calls, bought>>

\* A pool that is no longer open is stale; an open one may be, seats having
\* been sold since.
QuoteChecked(t) ==
  /\ \/ \E view \in Views(t.pool) :
          /\ view.record # None
          /\ view.record.state = "OPEN"
          /\ Ends(t, QuoteVerified(state))
     \/ Ends(t, QuoteStale(state))
     \/ Ends(t, QuoteUnverifiable(state))
  /\ UNCHANGED <<envelopes, address, chainVars, calls, bought>>

\* The facilitator's group lands.
JoinLands(pool, who) ==
  LET r == Pools[pool] IN
  /\ ~r.gone
  /\ Joinable(r)
  /\ who \notin Range(r.payers)
  /\ Block(pool, JoinedBy(r, who))

\* The group is signed and sent with the envelope, and commits.
SeatSettles(t) ==
  /\ t.pool \in envelopes
  /\ t.sender # None
  /\ ~t.paid
  /\ JoinLands(t.pool, t.sender)
  /\ Goes(t, [t EXCEPT !.paid = TRUE])
  /\ UNCHANGED <<envelopes, address, calls, bought>>

\* The answer reaches the page, readable or not.
SettlementAnswered(t) ==
  /\ t.paid
  /\ Ends(t, Settled(state, t.pool))
  /\ envelopes' = envelopes \ {t.pool}
  /\ bought' = bought \cup {<<t.sender, t.pool>>}
  /\ UNCHANGED <<address, chainVars, calls>>

\* No envelope, no wallet, a prompt declined, a refusal, or no answer at all:
\* a group that was sent is then in flight with nobody waiting for it.
SettlementFails(t) ==
  /\ \/ Ends(t, SettleFailed(state))
     \/ /\ t.pool \in envelopes
        /\ t.sender # None
        /\ ~t.paid
        /\ Ends(t, [SettleFailed(state) EXCEPT !.effects =
                      @ \cup {[kind |-> "IN_FLIGHT", pool |-> t.pool, sender |-> t.sender]}])
  /\ UNCHANGED <<envelopes, address, chainVars, calls, bought>>

InFlightEnds(t) ==
  /\ JoinLands(t.pool, t.sender) \/ UNCHANGED chainVars
  /\ tasks' = BagRemove(tasks, t)
  /\ UNCHANGED <<state, url, envelopes, address, calls, bought>>

-----------------------------------------------------------------------------
(* sendAction.                                                             *)

\* refundBatchSize.
RefundBatchSize(r) ==
  Max({1, Min({BatchCeiling, Len(r.payers) - r.cursor})})

\* The seats a call names in its accounts.
Named(action, r, roster, sender) ==
  CASE action = "refund_next" -> RefundWindow(r, RefundBatchSize(r)) \cap DOMAIN roster.payers
    [] action = "claim_refund" -> SeatsOf(roster, sender)
    [] OTHER -> {}

\* compose, on a reading of its own: the call the wallet is asked to sign.
Compose(t) ==
  /\ t.sender # None
  /\ t.built = None
  /\ t.tx = 0
  /\ \E view \in Views(t.pool) :
       LET r == view.record
           reading == [pool |-> t.pool, wallet |-> t.sender, record |-> r,
                       roster |-> view.roster, fee |-> TRUE, more |-> FALSE]
       IN  /\ r # None
           /\ t.action \in Offered(reading)
           /\ view.round + Validity <= MaxRound
           /\ Goes(t, [t EXCEPT !.built =
                 [action |-> t.action, pool |-> t.pool, count |-> RefundBatchSize(r),
                  seats |-> Named(t.action, r, view.roster, t.sender),
                  lastValid |-> view.round + Validity, fate |-> "unsent", at |-> 0]])
  /\ UNCHANGED <<envelopes, address, chainVars, calls, bought>>

\* ACTION_UNCONFIRMED.
EndsUnconfirmed(t, tx, lastValid) ==
  Ends(t, ActionUnconfirmed(state, t.action, t.pool, [tx |-> tx, lastValid |-> lastValid]))

\* Signed and sent: admitted with the answer on its way, or no answer at all,
\* admitted or not.  A node that answers with an error did not admit it.
Submit(t) ==
  LET tx == Len(calls) + 1 IN
  /\ t.built # None
  /\ tx <= MaxCalls
  /\ \/ /\ round < t.built.lastValid
        /\ calls' = Append(calls, [t.built EXCEPT !.fate = "travelling"])
        /\ \/ Goes(t, [t EXCEPT !.built = None, !.tx = tx])
           \/ EndsUnconfirmed(t, tx, t.built.lastValid)
     \/ /\ calls' = Append(calls, [t.built EXCEPT !.fate = "never"])
        /\ EndsUnconfirmed(t, tx, t.built.lastValid)
  /\ UNCHANGED <<envelopes, address, chainVars, bought>>

\* No wallet, nothing to compose, a prompt declined, a submission refused: the
\* call never leaves.
SendFails(t) ==
  /\ t.tx = 0
  /\ Ends(t, ActionEnded(state, t.action, t.pool))
  /\ UNCHANGED <<envelopes, address, chainVars, calls, bought>>

\* waitForConfirmation, and the one question asked when it throws.
WaitEnds(t) ==
  /\ t.tx # 0
  /\ \/ /\ calls[t.tx].fate \in {"committed", "dropped"}
        /\ Ends(t, ActionEnded(state, t.action, t.pool))
     \/ EndsUnconfirmed(t, t.tx, calls[t.tx].lastValid)
  /\ UNCHANGED <<envelopes, address, chainVars, calls, bought>>

-----------------------------------------------------------------------------
(* findMyPools.                                                            *)

FindAnswered(t) ==
  /\ Ends(t, MyPoolsFound(state, t.wallet)) \/ Ends(t, MyPoolsUnavailable(state, t.wallet))
  /\ UNCHANGED <<envelopes, address, chainVars, calls, bought>>

-----------------------------------------------------------------------------
(* The page is loaded at any address: App mounts and opens what it names.  *)

Init ==
  \E pool \in Pool \cup {None}, wallet \in Wallet \cup {None} :
    LET mounted == IF pool = None THEN OpenedEntry(initialState)
                                  ELSE OpenedPool(initialState, pool)
    IN  /\ url = pool
        /\ state = mounted.state
        /\ address = wallet
        /\ tasks = BegunAll(mounted.effects)
        /\ envelopes = {}
        /\ round = 1
        /\ blocks = <<InitialRecord>>
        /\ calls = <<>>
        /\ bought = {}

Others ==
  \/ \E pool \in Pool :
       \/ OthersCallLands(pool) \/ OtherJoins(pool)
       \/ DeadlinePasses(pool) \/ ReleaseLands(pool)
  \/ EmptyBlock

Effects ==
  \/ \E t \in Running("READ_POOL") :
       ReadBoxes(t) \/ transactionFate(t) \/ ReadAnswered(t) \/ ReadFails(t)
  \/ \E t \in Running("REQUEST_QUOTE") : QuoteAnswered(t)
  \/ \E t \in Running("VERIFY_QUOTE") : QuoteChecked(t)
  \/ \E t \in Running("BUILD_AND_SIGN") :
       SeatSettles(t) \/ SettlementAnswered(t) \/ SettlementFails(t)
  \/ \E t \in Running("IN_FLIGHT") : InFlightEnds(t)
  \/ \E t \in Running("SEND_ACTION") :
       Compose(t) \/ Submit(t) \/ SendFails(t) \/ WaitEnds(t)
  \/ \E t \in Running("FIND_MY_POOLS") : FindAnswered(t)

User ==
  \/ \E pool \in Pool \cup {None} : Open(pool)
  \/ \E wallet \in Wallet \cup {None} : ChangeWallet(wallet)
  \/ AskQuote \/ Buy \/ Act \/ FindSeats

Next ==
  \/ Others
  \/ \E tx \in DOMAIN calls : Commit(tx) \/ Drop(tx)
  \/ Effects
  \/ User \/ WalletSeen \/ Refresh

Spec == Init /\ [][Next]_vars

-----------------------------------------------------------------------------
(* What must be true.                                                      *)

\* What is on screen was read for the pool on screen and the wallet the
\* machine knows, and the list of pools was found for that wallet, whatever
\* was in flight when the buyer moved on or changed wallet.
ReadingIsOfScreen ==
  /\ state.circumstances # None =>
       /\ state.circumstances.pool = state.screen
       /\ state.circumstances.wallet = state.wallet
  /\ state.myPools # None => state.myPools = state.wallet

\* A spinner always has a request behind it whose end will stop it: none is
\* left turning by an answer that was dropped.
SpinnerHasReader ==
  /\ state.reading =>
       \E t \in Running("READ_POOL") : t.pool = state.screen /\ t.wallet = state.wallet
  /\ state.finding => \E t \in Running("FIND_MY_POOLS") : t.wallet = state.wallet

\* One refund-path call at a time over every pool: while a call is being sent
\* or may still land, the lock is held for it, and no second one exists.
LockHolds ==
  LET landing == {tx \in DOMAIN calls : CanLand(calls[tx])}
      sending == Running("SEND_ACTION")
  IN  /\ \A t \in sending :
           /\ Completes(state, t.action, t.pool)
           /\ ~Unconfirmed(state)
           /\ tasks[t] = 1
           /\ sending = {t}
           /\ landing \subseteq {t.tx}
      /\ \A tx \in landing :
           /\ Completes(state, calls[tx].action, calls[tx].pool)
           /\ Unconfirmed(state) => state.sending.call.tx = tx

\* What a record read after a committed call shows of it.
Reflects(c, call) ==
  \/ c.record = None
  \/ call.action = "expire" /\ c.record.state \notin {"OPEN", "FUNDED"}
  \/ /\ call.action = "refund_next"
     /\ c.record.state # "EXPIRED"
     /\ \A i \in call.seats : i <= c.record.cursor
  \/ call.action = "claim_refund" /\ call.seats \cap c.roster.owed = {}

\* The lock on a call that landed is let go by a reading that shows what it
\* did, never by one that would put the same button back.
ReleaseShowsCall ==
  [][/\ Unconfirmed(state)
     /\ state'.sending = None
     /\ state.screen = state.sending.pool
     /\ calls[state.sending.call.tx].fate = "committed"
     => Reflects(state'.circumstances, calls[state.sending.call.tx])]_vars

\* The seats the page's wallet holds, is owed for, and had as the page loaded.
OwedOnScreen ==
  LET r == Pools[state.screen] IN
  {i \in DOMAIN r.payers : r.payers[i] = state.wallet /\ i \in r.owed}

SeatsAtLoad ==
  LET r == InitialRecord[state.screen] IN
  {i \in DOMAIN r.payers : r.payers[i] = state.wallet}

StoppedReading == state.screen # None /\ state.wallet # None /\ ~ShouldPoll(state)

\* The refresh never stops on a buyer who is owed for a seat they held when the
\* page was loaded, one that every block since then shows: not on a finished pass
\* that skipped them, nor on a record and a roster read any number of blocks apart
\* (isTerminal of machine.ts).
PollsWhileOwed == StoppedReading => OwedOnScreen \cap SeatsAtLoad = {}

\* As the code states it (machine.ts:395), whenever the seat was bought: a refresh
\* that stopped has nothing left to tell this buyer.  It does not hold of answers
\* four blocks apart (README, section 6).
PollingStopsOnlyWhenDone == StoppedReading => OwedOnScreen = {}

\* The address bar and the machine name the same pool, after every answer that
\* moves either of them.
ScreenFollowsUrl == url = state.screen

\* The purchase on screen is the one in flight: exactly one request for a
\* waiting state, about the quote the buyer confirmed, and none at rest.  So a
\* buyer's consent is never spent twice.
OneQuestionAtATime ==
  LET asked(kind) == {t \in Running(kind) : kind = "REQUEST_QUOTE" \/ t.pool = state.quote}
      alone(kind) == \E t \in asked(kind) : Running(kind) = {t} /\ tasks[t] = 1
  IN  /\ IF state.purchase = "QUOTING" THEN alone("REQUEST_QUOTE")
                                      ELSE Running("REQUEST_QUOTE") = {}
      /\ IF state.purchase = "CHECKING" THEN alone("VERIFY_QUOTE")
                                       ELSE Running("VERIFY_QUOTE") = {}
      /\ IF state.purchase = "SETTLING" THEN alone("BUILD_AND_SIGN")
                                       ELSE Running("BUILD_AND_SIGN") = {}

\* After a settlement the buyer who paid is never shown a pool they hold no
\* seat in, unless as one whose seat is still being confirmed.
SeatNotDenied ==
  \A sold \in bought :
    /\ sold = <<state.wallet, state.screen>>
    /\ state.circumstances # None
    => \/ IsConfirmingSeat(state)
       \/ state.circumstances.record = None
       \/ HasSeat(state.circumstances)

-----------------------------------------------------------------------------
(* What must happen.  The network answers some reading of the pool on      *)
(* screen and of a call's pool in the end, blocks keep coming, and the     *)
(* browser runs what it was asked to run.                                  *)

\* A task reading what the page shows now.
Reading(pool) ==
  {t \in Running("READ_POOL") : t.pool = pool /\ t.wallet = state.wallet}

\* A read asked for again and again is answered in full, once.
AnswersReads(pool) ==
  /\ SF_vars(\E t \in Reading(pool) : ReadBoxes(t))
  /\ SF_vars(\E t \in Reading(pool) : t.view # None /\ transactionFate(t))
  /\ SF_vars(\E t \in Reading(pool) : t.fate # "unasked" /\ ReadBoxes(t))
  /\ SF_vars(\E t \in Reading(pool) : ReadAnswered(t))

\* Every other request ends, one way or another.
AnswersOrFails(kind) == WF_vars(Effects /\ Running(kind)' # Running(kind))

FairSpec ==
  /\ Spec
  /\ WF_vars(WalletSeen)
  /\ SF_vars(Refresh)
  /\ WF_vars(EmptyBlock)
  /\ \A kind \in {"REQUEST_QUOTE", "VERIFY_QUOTE", "BUILD_AND_SIGN", "SEND_ACTION"} :
       AnswersOrFails(kind)
  /\ \A pool \in Pool : AnswersReads(pool)
  /\ WF_vars(\E t \in Running("READ_POOL") :
               t \notin Reading(t.pool) /\ (ReadAnswered(t) \/ ReadFails(t)))

\* A call nobody saw confirm does not hold the lock for ever: while a pool is
\* on screen, a reading lets it go at the latest once it cannot land.
UnconfirmedReleased == Unconfirmed(state) ~> (~Unconfirmed(state) \/ state.screen = None)
=============================================================================
