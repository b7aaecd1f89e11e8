---------------------------- MODULE PoolMachine ----------------------------
(***************************************************************************)
(* The pool page's state machine (web/src/pool/machine.ts): a pure         *)
(* function from a state and an event to a state and the effects to run.   *)
(* This module has no variables: each operator below is one event of       *)
(* `reduce`, and returns a result, the next state with the set of effects  *)
(* and the path to navigate to.  PoolPage runs it.                         *)
(*                                                                         *)
(* Messages shown and no decision read are left out: errors, receipts,     *)
(* transaction ids, the route's reason for declining.  RECEIPT_UNREADABLE  *)
(* is then SETTLED, and a quote is the pool it names (Clients compares its *)
(* other fields).                                                          *)
(***************************************************************************)
EXTENDS Integers, Sequences, FiniteSets, SequencesExt

CONSTANTS
  Pool,         \* agreement ids the page may open
  Wallet,       \* addresses that connect
  None,         \* undefined, null, and the entry screen's absent pool
  BatchCeiling  \* REFUND_BATCH_CEILING

-----------------------------------------------------------------------------
(* A reading of a pool, and what view.ts concludes from it.  Its `record`, *)
(* None when the box is gone, and its `roster` were answered one by one,   *)
(* perhaps blocks apart; `wallet` is whom it was read for, `fee` whether   *)
(* that wallet can pay one, and `more` that the pool was released and the  *)
(* link to its edition has not been found yet.  Of a record, `payers` and  *)
(* `owed` stand for its counters: the seats sold, unclaimed and held for.  *)

SeatsOf(roster, who) == {i \in DOMAIN roster.payers : roster.payers[i] = who}

HasSeat(c) == c.wallet # None /\ SeatsOf(c.roster, c.wallet) # {}

IsOwed(c) ==
  c.record # None /\ HasSeat(c) /\ SeatsOf(c.roster, c.wallet) \cap c.roster.owed # {}

IsSkipped(c) ==
  IsOwed(c) /\ \E i \in SeatsOf(c.roster, c.wallet) : i <= c.record.cursor

Action == {"expire", "refund_next", "claim_refund", "close"}

Offered(c) ==
  {action \in Action :
     /\ c.record # None
     /\ c.fee
     /\ \/ action = "expire" /\ c.record.late /\ c.record.state \in {"OPEN", "FUNDED"}
        \/ action = "refund_next" /\ c.record.state \in {"EXPIRED", "REFUNDING"}
        \/ action = "claim_refund" /\ IsSkipped(c) /\ c.record.state \in {"EXPIRED", "REFUNDING", "REFUNDED"}
        \/ action = "close" /\ c.record.state = "REFUNDED" /\ c.record.owed = {}}

\* A finished pass is the end, whoever it skipped.
IsTerminal_PassFinished(c) ==
  \/ c.record = None /\ ~c.more
  \/ c.record # None /\ c.record.state = "RELEASED" /\ ~c.more
  \/ c.record # None /\ c.record.state = "REFUNDED"

IsTerminal(c) ==
  \/ c.record = None /\ ~c.more
  \/ c.record # None /\ c.record.state = "RELEASED" /\ ~c.more
  \/ /\ c.record # None
     /\ c.record.state = "REFUNDED"
     /\ ~IsOwed(c)
     /\ Offered(c) = {}

-----------------------------------------------------------------------------
(* The state, and what is asked of it.                                     *)

initialState ==
  [wallet |-> None, screen |-> None, purchase |-> "IDLE", quote |-> None,
   reading |-> FALSE, circumstances |-> None, awaiting |-> None,
   sending |-> None, finding |-> FALSE, myPools |-> None]

\* A call was submitted and not seen to confirm.
Unconfirmed(s) == s.sending # None /\ s.sending.call # None

ShouldPoll(s) ==
  /\ s.screen # None
  /\ \/ Unconfirmed(s)
     \/ s.awaiting # None
     \/ s.circumstances # None => ~IsTerminal(s.circumstances)

IsConfirmingSeat(s) == s.awaiting # None /\ s.awaiting = s.screen

Result(s, effects, path) == [state |-> s, effects |-> effects, path |-> path]

Only(s) == Result(s, {}, None)

-----------------------------------------------------------------------------
(* readPool, showing and intoPaidPool.                                     *)

\* The pools a read is asked of: the one on screen, and the one of a call
\* that may still land.
PoolsToRead(s) ==
  ({s.screen} \cup (IF Unconfirmed(s) THEN {s.sending.pool} ELSE {})) \ {None}

ReadEffect(s, pool) ==
  [kind |-> "READ_POOL", pool |-> pool, wallet |-> s.wallet,
   call |-> IF Unconfirmed(s) /\ s.sending.pool = pool THEN s.sending.call
                                                       ELSE None]

readPool(s) ==
  Result([s EXCEPT !.reading = @ \/ s.screen # None],
         {ReadEffect(s, pool) : pool \in PoolsToRead(s)}, None)

withoutPool(s) == [s EXCEPT !.circumstances = None, !.reading = FALSE]

showing(s, pool) ==
  IF s.screen = pool THEN s ELSE [withoutPool(s) EXCEPT !.screen = pool]

\* The address bar is left behind.
intoPaidPool_SameUrl(s, pool) ==
  readPool([showing(s, pool) EXCEPT !.purchase = "IDLE", !.quote = None,
                                    !.awaiting = pool])

intoPaidPool(s, pool) ==
  LET read == readPool([showing(s, pool) EXCEPT
                          !.purchase = "IDLE", !.quote = None, !.awaiting = pool])
  IN  IF s.screen = pool THEN read ELSE [read EXCEPT !.path = pool]

\* Every reading is heard.
forWallet_Any(s, wallet) == TRUE

forWallet(s, wallet) == wallet = s.wallet

-----------------------------------------------------------------------------
(* The wallet and the router.                                              *)

\* WALLET_CONNECTED clears what was read for another wallet, and asks nothing.
WalletIs_NoRead(s, wallet) ==
  IF s.wallet = wallet THEN Only(s)
  ELSE Only([s EXCEPT !.wallet = wallet, !.circumstances = None,
                      !.myPools = None, !.finding = FALSE])

\* WALLET_CONNECTED, and WALLET_DISCONNECTED for None.
WalletIs(s, wallet) ==
  IF s.wallet = wallet THEN Only(s)
  ELSE readPool([s EXCEPT !.wallet = wallet, !.circumstances = None,
                          !.myPools = None, !.finding = FALSE])

OpenedEntry(s) == Only([withoutPool(s) EXCEPT !.screen = None])

OpenedPool(s, pool) == readPool(showing(s, pool))

-----------------------------------------------------------------------------
(* Buying.                                                                 *)

\* A new pass may start while the wallet prompt is open.
MayQuote_Settling == {"IDLE", "UNAVAILABLE", "CONFIRM", "SETTLING"}

MayQuote == {"IDLE", "UNAVAILABLE", "CONFIRM"}

QuoteRequested(s) ==
  IF s.purchase \notin MayQuote THEN Only(s)
  ELSE Result([s EXCEPT !.purchase = "QUOTING", !.quote = None],
              {[kind |-> "REQUEST_QUOTE"]}, None)

QuoteReceived(s, pool) ==
  LET next == showing([s EXCEPT !.purchase = "CONFIRM", !.quote = pool], pool) IN
  IF s.purchase # "QUOTING" THEN Only(s)
  ELSE IF s.screen = pool THEN Result(next, {}, pool)
  ELSE [readPool(next) EXCEPT !.path = pool]

QuoteRefused(s) ==
  IF s.purchase # "QUOTING" THEN Only(s)
  ELSE Only([s EXCEPT !.purchase = "UNAVAILABLE", !.quote = None])

QuoteFailed(s) ==
  IF s.purchase # "QUOTING" THEN Only(s)
  ELSE Only([s EXCEPT !.purchase = "IDLE", !.quote = None])

BuyRequested(s) ==
  IF s.purchase # "CONFIRM" \/ s.quote = None \/ s.wallet = None THEN Only(s)
  ELSE Result([s EXCEPT !.purchase = "CHECKING"],
              {[kind |-> "VERIFY_QUOTE", pool |-> s.quote]}, None)

QuoteVerified(s) ==
  IF s.purchase # "CHECKING" \/ s.quote = None THEN Only(s)
  ELSE Result([s EXCEPT !.purchase = "SETTLING"],
              {[kind |-> "BUILD_AND_SIGN", pool |-> s.quote]}, None)

QuoteStale(s) ==
  IF s.purchase # "CHECKING" THEN Only(s)
  ELSE Only([s EXCEPT !.purchase = "IDLE", !.quote = None])

QuoteUnverifiable(s) ==
  IF s.purchase # "CHECKING" THEN Only(s)
  ELSE Only([s EXCEPT !.purchase = "CONFIRM"])

Settled(s, pool) == intoPaidPool(s, pool)

SettleFailed(s) ==
  IF s.purchase # "SETTLING" THEN Only(s)
  ELSE Only([s EXCEPT !.purchase = "IDLE", !.quote = None])

-----------------------------------------------------------------------------
(* Reading.                                                                *)

\* The lock goes with a reading that is final for the call it holds for.
Released(s, pool, finalFor) ==
  IF Unconfirmed(s) /\ s.sending.pool = pool /\ finalFor = s.sending.call.tx
    THEN [s EXCEPT !.sending = None] ELSE s

ReadReceived(s, c, finalFor) ==
  LET base == Released(s, c.pool, finalFor)
      resolved == c.pool = s.awaiting /\ (HasSeat(c) \/ c.record = None)
  IN
  IF ~forWallet(s, c.wallet) THEN Only(s)
  ELSE IF c.pool # s.screen THEN Only(base)
  ELSE Only([base EXCEPT !.reading = FALSE, !.circumstances = c,
                         !.awaiting = IF resolved THEN None ELSE @])

ReadFailed(s, pool, wallet) ==
  IF ~forWallet(s, wallet) \/ pool # s.screen THEN Only(s)
  ELSE Only([s EXCEPT !.reading = FALSE])

-----------------------------------------------------------------------------
(* Acting.                                                                 *)

ActionRequested(s, action) ==
  IF \/ s.sending # None
     \/ s.screen = None
     \/ s.circumstances = None
    THEN Only(s)
  ELSE IF action \notin Offered(s.circumstances) THEN Only(s)
  ELSE Result([s EXCEPT !.sending = [action |-> action, pool |-> s.screen,
                                     call |-> None]],
              {[kind |-> "SEND_ACTION", action |-> action, pool |-> s.screen]}, None)

\* Whether a completion belongs to the call in flight.
Completes(s, action, pool) ==
  s.sending # None /\ s.sending.action = action /\ s.sending.pool = pool

\* ACTION_SENT, and ACTION_FAILED: both release the lock and read again.
ActionEnded(s, action, pool) ==
  LET released == [s EXCEPT !.sending = None] IN
  IF ~Completes(s, action, pool) THEN Only(s)
  ELSE IF pool # s.screen THEN Only(released)
  ELSE readPool(released)

\* The wait ran out, so the lock is let go.
ActionUnconfirmed_Released(s, action, pool, call) == ActionEnded(s, action, pool)

ActionUnconfirmed(s, action, pool, call) ==
  IF ~Completes(s, action, pool) THEN Only(s)
  ELSE readPool([s EXCEPT !.sending.call = call])

-----------------------------------------------------------------------------
(* Looking for the pools a wallet joined.  myPools is the wallet they were *)
(* found for.                                                              *)

MyPoolsRequested(s) ==
  IF s.wallet = None THEN Only(s)
  ELSE Result([s EXCEPT !.finding = TRUE],
              {[kind |-> "FIND_MY_POOLS", wallet |-> s.wallet]}, None)

MyPoolsFound(s, wallet) ==
  IF wallet # s.wallet THEN Only(s)
  ELSE Only([s EXCEPT !.finding = FALSE, !.myPools = wallet])

MyPoolsUnavailable(s, wallet) ==
  IF wallet # s.wallet THEN Only(s) ELSE Only([s EXCEPT !.finding = FALSE])
=============================================================================
