# Earnest: models, checks and proofs

Earnest sells deliverables against an escrow on Algorand.  A buyer, or a pool of buyers,
pays USDC into an application account; the account pays the beneficiary once the condition
of the agreement is met, or gives every payer their own share back.  This directory holds
TLA+ modules translated from the code, the TLC instances that check them, and proofs that
TLAPS checks.  Line numbers are of the files under `src/`.

To run one check: `tlc -workers 2 -config Pool.cfg MCClients` (section 4 names the module of each
configuration).  To check the proofs: `tlapm EscrowProofs.tla`, and the same for `Sums`,
`SettlementProofs`, `QuotesProofs`, `OneWorkerProofs`, `PoolPageProofs`, `OneAtATimeProofs` and
`OperatorsProofs`.  `PROJECT.json` lists the components, the runs, one mutant per property, the source lines
of every definition, the findings, the hazards and the theorems.

## 1. Inventory

### The parts and the state each keeps

| Part | Source | State | Operations |
|---|---|---|---|
| Escrow contract | `contracts/smart_contracts/escrow/contract.py` | admin, paused, agreement_count; per agreement one record box and one roster box; one USDC and one ALGO balance for all | opt_in_asset, set_paused, set_admin, create_agreement, join, release_hash, release_quorum, expire, refund_next, claim_refund, close |
| Quote pricing | `api/pricing.py` | create_lock, one per process; rolling window per source | the two pricing passes of `POST /pin`, the create behind the first |
| Job store | `api/jobs.py` | tables jobs and create_intents, SQLite, one commit per method | create_quote, find_reusable_quote, count_unfunded, transition, mint_job_id, the intents |
| Middleware app | `api/app.py`, `api/payment_group.py` | none of its own | gates, pin and index handlers, group check; settlement follows the handler |
| Pool pricing | `api/pool.py` | none: reads the chain | the pinned pool, its 402 |
| Algod client | `api/escrow.py` | none | box reads; create, expire, refund_next, close, release calls |
| Boot | `api/config.py`, `routes.py`, `server.py`, `deps.py`, `web.py` | settings, read once | refuse to boot on a bad setting |
| Operator scripts | `agents/*.py` | none: each run reads the chain | open a pool, release an edition, expire, drain, close, join by hand |
| Pool page | `web/src/pool/*`, `web/src/ui/App.tsx`, `router.ts`, `wallet.tsx` | the machine's state, effects in flight, remembered 402s, address bar, wallet | browse, connect, buy a seat, expire / refund / claim, find my seats |
| Chain reader of the page | `web/src/chain/*` | none | boxes to a reading, a reading to a call |
| Payment builder | `web/src/payment/*` | none | one transfer and one join in a group |
| Delivery page | `web/src/machine.ts`, `api.ts` | the one-buyer machine | quote, pay, upload, resolve |
| Deployment | `contracts/.../deploy_config.py` | none | create, fund, opt in |

### How they interact

A buyer's client asks a paid route without paying and gets a 402 whose offer is an agreement on
chain: a new one for `POST /pin` (pricing.py creates it there and then, parking a deposit), the
pinned pool for `POST /index`.  The client signs an atomic group, transfer and `join`, and asks
again with it.  The middleware verifies the payment, runs the handler, which answers, and only
then settles the group on chain.  The contract is the only shared state that matters for money;
the job store is shared by the workers of the middleware; the page talks to a public node that may
lag and answers readings in any order.  After the deadline anyone may call expire, refund_next and
close; `pool_ops.py` and the page are two clients of those calls.

### What is hard here

* **Contract.** Calls are atomic, but their order is anyone's.  Three counters and a roster are
  kept by hand over batches and claims, while each wallet loses and regains the ability to receive;
  all agreements share two balances; release and expire compete at a deadline; fees may rise.
* **Quotes.** One create spans several awaits, two commits and a group on chain.  It can be
  cancelled by the client, time out, outlive its worker, or find another creator took its id.
* **Settlement.** The gate, the price and the payment read the pinned pool one after the other, with
  anybody's calls in between; the handler's answer and its write come before the money moves; a group may
  carry several transfers and several joins, and `join` sees only part of it.
* **Operators.** A script is a sequence of requests: what it decided on may be gone when its call arrives, a
  second run may be under way, and the answer to a call may never come.
* **Pool page.** Readings, searches, quotes, settlements and calls are all in flight at once, and
  outlive the screen and the wallet they were asked for; the node lags; a submission may have no
  answer; two tabs and other people send the same permissionless calls.
* **Clients.** Each re-implements a part of the contract's rules, to the second and to the seat.

### What makes each part correct

* Contract: every share goes to the beneficiary, all together, or back to its payer, once; balances
  are what the records say; no call order traps a share; every funded agreement is decided.
* Quotes: no parked deposit is lost sight of; one open quote per file; the ceiling holds; whoever is
  charged has the seat and the job; every request is answered.
* Pool page: what is shown is about this pool and this wallet; one call at a time; one consent, one
  payment; the page goes on reading while its buyer is owed; no lock or spinner stays for ever.
* Settlement: no payment is taken without a seat, no receipt names a pool the buyer did not, and one transfer
  buys one seat.
* Operators: a call is refused only for what moved since it was read, nobody opens a second pool beside one
  they saw, and a released pool keeps the link to its bytes.
* Clients: what they offer, send, serve or withhold is what the contract takes or refuses.

`PROJECT.json` lists the hazards line by line, with the property that watches each or a note.

## 2. Plan

In the order in which the modules were planned and written, the most important behaviour first.

| # | Module | Composes | Status |
|---|---|---|---|
| 1 | `Escrow`: the contract | - | checked |
| 2 | `EscrowProofs`: types, accounting, balances, exits, close, the refinement; `Sums`: sums over finite sets | `Escrow` | proved |
| 3 | `EscrowPromise`, refined by `Escrow` | `Escrow` | checked and proved |
| 4 | `Quotes`: pricing of `/pin`, job store, limiter; `QuotesProofs`, `OneWorkerProofs` | - | checked and proved |
| 5 | `Clients`: every client's rules against the contract's; proofs in `OperatorsProofs` | `Escrow` | checked and proved |
| 6 | `PoolMachine`, `PoolPage`; `PoolPageProofs`, `OneAtATimeProofs` | - | checked, most of it proved |
| 7 | `JoinGroups`: groups of several transfers and joins; proofs in `SettlementProofs` | - | checked and proved |
| 8 | `Boot`, `Settlement`: settings, guards and the paid `/index` route; `SettlementProofs` | `JoinGroups` | checked and proved |
| 9 | `Operators`: the scripts request by request; `OperatorsProofs` | `Clients`, so `Escrow` | checked and proved |

One module of the first plan was dropped: the delivery machine (web/src/machine.ts), since nothing mounts it
at this commit.  What would come next, by proof: `PollsWhileOwed`, from `HistoryInv` (every block since the
page was loaded shows the seats held then) and one fact more, that a reading of a record and a roster from
different blocks still shows them.

## 3. The modules

### Escrow

One action per method.  A call is one atomic group: its asserts are the guard, its writes and inner
transactions the step, and a call that would abort is no step.  `Init` is the state after bootstrap.

* `usdc` and `algo` are balances of the ledger; `algo` is counted above the account's own 0.2 ALGO base.
  `agreements` and `roster` are functions over the boxes that exist.
* `canReceive` are the accounts opted in and not frozen; `Fickle` ones lose and regain that at any time.
* An inner payment costs `minFee` out of `algo`, and a step that would leave `algo` below the boxes'
  minimum balance is refused (`CanPay`), as the ledger refuses it.
* `RefundNext` pays the payable seats of a window and skips the rest in one step; `ClaimRefund` pays one
  skipped seat; `Close` deletes both boxes and returns box MBR and what the fee reserve has left.
* `Offers` and `Payments` are the arguments calls are made with, wrong ones included.

Left out: an account whose address is the application's own as beneficiary or payer; the close-out of a
balance at opt-out (a wallet keeps its balance while it cannot receive); a freeze of the application's own
holding; donations to the application; groups with several joins (`JoinGroups` has them).  A condition that is
neither hash nor quorum, and hashes of another length, are excluded by the type of an offer.  The asset
opted into is USDC.

`EscrowPromise` knows deals, people and one purse: all shares to the beneficiary in one step, or each share
back to its payer once.  `Escrow!Promise` is the refinement mapping: a person is held for while their seat's
amount stands.  `MCEscrowDeposits` adds an account book that charges each step to the agreement whose boxes
it writes.

### Quotes

A request is a task of a worker, and its place is the await it stands at.  What runs between two awaits is
one step; a commit to the store is a step of its own, since a crash may fall between two.

| Actions | Code |
|---|---|
| Arrive, Enter | open_quote up to the lock; reuse, ceiling and the first chain read under it |
| ReadNextId, RecordIntent, Submit, Land, Confirm | next_agreement_id, record_create_intent, create_hash_agreement, the network, the id it returned |
| WriteRow, ClearIntended, ClearActual | create_quote, the two deletions of intents |
| Fail, TimeOut, Disconnect, Crash | an exception, the wait given up, the client gone (`_run_to_completion`), the worker gone |
| Reprice, CheckMint, Mint | the paid pass, require_join_call, mint_job_id |
| Settle, SettleFails | the facilitator, after the handler |
| CreateElsewhere, JoinDirectly, Tick | others on the same chain, time |

Abstractions: composing and submitting a create is one step; the reuse test and the ceiling are read in one
step, no await standing between them; the group check is reduced to which agreement the group joins
(`Settlement` has it whole); a token is the request that was answered with it.  The limiter's lists are sets of
times per source in each worker, each time with the request it is of: the clock goes one way, so that the last
of a list decides is that none is fresh.  A request it turns away is not added.

### Clients

Pure decisions of the clients, as operators over the state of `Escrow`, compared with the contract's guards
(`ExpirePasses`, `JoinPasses` and their like, the very conjuncts of its actions) in every state it reaches: the page's verdicts and the calls it composes (view.ts,
calls.ts), the guards of pool_ops.py and release_edition.py, the pool the server offers (pool.py) and the
page's comparison of a quote with the chain.  Each decides on a fresh reading: stale ones are for
`Operators`, `Settlement` and `PoolPage`.  Two clocks are told apart: the contract and the page go by the chain's,
the served pool is judged by the server's own (pool.py:188, taken before the box is asked for), which may be up to
`Drift` before or behind.  `SoldIsJoinable` is asked at every such moment and excepts the deadline that lies
between the two, where no code can know.
The contract's pause is left aside where pool.py's own docstring leaves it.

### PoolMachine and PoolPage

`PoolMachine` is the reducer of web/src/pool/machine.ts: an operator per event, from a state to a state, a
set of effects and an address to go to.  `PoolPage` runs it.  An effect is a task that takes its steps
between events and ends by dispatching one: a reading reads the boxes, asks for the fate of an unconfirmed
call, and answers or fails; a quote is asked for, checked, signed and settled; a call is composed on a reading
of its own, signed, submitted and waited for.  The chain is the pool half of `Escrow` without the money, seen
through nodes up to `Lag` blocks behind: a reading's record may be of one block, its roster and clock of
another, since `readPoolBoxes` asks for them one by one (`Views`); other callers, other buyers, the deadline, a
release and empty blocks move it.

Abstractions: messages and receipts on screen are left out; a settlement whose receipt cannot be read is one
that settled; a build that cannot read the chain is left out, and so is the mounted flag of a React effect;
NAVIGATE, the render it causes and the OPENED_POOL of that render are one step; the only addresses are the entry screen
and the pools, so a step back to one that is no route, which moves the address bar and dispatches nothing, is left
out; a wallet has at most one seat per pool, which is `DistinctPayers`; an
HTTP error in answer to a submission means it was not admitted; others' seats are anonymous.

### JoinGroups

One atomic group, executed leg by leg and undone as a whole when a leg fails.  `Begin` signs any group of
`Groups`; `Pay`, `Transfer` and `Join` are its legs, `Abort` and `Commit` its two ends; while it runs nothing
else moves.  Around it the clock, a pause, an expiry and a freeze of the application's holding.  The part of
`join` that concerns the group is whole: the transfer it names by position may stand before or after the call,
and the scan for a second use of that transfer passes over calls that carry fewer than three arguments
(contract.py:429).  Of an agreement only what `join` reads and writes is kept, and of a transfer neither close-out
nor rekeying: that `join` refuses both (contract.py:416-419) is in `Escrow`, as a payment that is `bare`.

### Boot and Settlement

`Boot` is the settings of api/config.py as a function from an environment, and every guard of the boot as a
predicate over them, in the order server.py runs them; it has no state.  `Settlement` starts servers from
environments, most of them one mistake away from a good one, and follows the conversations of its clients:

| Actions | Code |
|---|---|
| Start | server.py: load, guard, assemble, verify; a crash or a restart, which drops what was being served |
| Ask, Gate, PriceUnpaid | the client's paths, the availability gate, the price callable and the 402 |
| PayByHand, PayPlain, PayHandmade | join_client_manual, plain_settle_fallback, any other signed group |
| PricePaid, Handle, Settle, SettleFails | the facilitator's check, the handler of /index, the settlement after it |
| SettleDirect | fallback_direct_settle: a group that never sees the server |

Each of gate, price and handler reads the pinned pool anew, and a reading may fail.  Each takes the server's clock
first and then asks for the boxes (pool.py:188-190), so a step judges the boxes of now at any moment up to `Drift`
from the chain's.  The handmade groups a client may sign include two transfers with the one join that names the
first.  The chain is `JoinGroups`,
with other buyers' groups.  The facilitator is modelled as this code counts on it: it accepts a group one of whose
transfers is the payment required, and may refuse any.  Bodies and queries are reduced to the pool they name and
to whether they can be read.

### Operators

create_pool, release_edition and pool_ops request by request, with everybody's calls of `Escrow` in between.
`run` says what each shell's script has left to do and what it has read; a step is one request to algod and what
the code decides on the answer.  The clock is `Escrow`'s `now`, and the flags that count days or minutes count
ticks.  `Scenes` are bounds: the command lines each shell runs and the agreements opened elsewhere.  `GiveUp` is
every way a run ends at a request: refused, crashed, unanswered.  A call sent and not heard of again is a run that
stays where it is while the other shell runs another.  Gateways are good, blank or for a path that is not allowed;
a manifest is its edition, its file and the hash of each file; `released` and `scanned` are history that two
properties read, no script does.  The releases of the `/pin` server are not followed: nothing served makes them.

## 4. The runs

In the MC modules the sets of offers, transfers, groups, requests and environments are definitions of their own, and
what replaces a constant only names one: TLC evaluates the former once and the latter at every use, and a value built
anew for an action is sorted in place by the workers that share it, which can make a run fail by chance.

| Run (module) | States | What it asks |
|---|---|---|
| pool (MCClients) | 24,864 | One pool of three seats, one seat on a hash, a quorum of two, in every order of calls, with unreliable accounts and two admins.  The record, the roster and the counters agree (`Accounting`), nothing unpaid is deleted (`ClosedOwesNobody`), release and expire exclude each other, no share is trapped; under fairness every funded agreement is decided and every payer who keeps being able to receive is refunded.  In every state of it, the page's buttons are right (`ButtonsAreRight`), `pool_ops expire` lets through what the contract takes (`ExpireGuardExact`), and what is sold can be joined (`SoldIsJoinable`) |
| pair (MCEscrow) | 150,464 | Two differently priced agreements in one account, the minimum fee rising at any time: the contract implements `EscrowPromise`, and the account holds what the records say (`Conserved`), its ALGO for as long as the fee stays |
| fee_rise (MCEscrowDeposits) | violated | `OwnDeposit`: no agreement spends more than its own deposit, whatever the fee does |
| one_worker (MCQuotes) | 1,006,080 | The shipped deployment: one worker, crashes, timeouts, disconnections, another creator.  Parked deposits stay findable, one open quote per file, quotes are real, a payment for a quote still open is taken (`LiveQuoteIsTaken`), whoever is charged holds the job, and a job stuck FUNDED belongs to nobody charged |
| quotes_live (MCQuotes) | 475,694 | The ceiling, that every request is answered, with late groups too, and that the limiter turns away nobody who has not had a minute's quota |
| lost_orphan (MCQuotes) | violated | `OrphanIsFindable` when a create is confirmed after its wait was given up |
| page_calls (MCPoolPage) | 824,741 | Two wallets take turns on one pool under refund, with a lagging node and a call: one call at a time, the lock let go only by a reading that shows the call (`ReleaseShowsCall`), and reading goes on while the buyer is owed for a seat held when the page was loaded (`PollsWhileOwed`) |
| page_buying (MCPoolPage) | 556,595 | A pool's last seat bought and a search for one's pools asked, while the page browses that pool and a full one and its wallet comes and goes: nothing shown is another's, no spinner is orphaned, the address bar follows the money, and one consent is one question |
| page_live (MCPoolPage) | 36,417 | One expired pool with this wallet on its roster: the lock of an unconfirmed call is let go in the end |
| seat_denied (MCPoolPage) | violated | `SeatNotDenied`: who was told they bought is not told they hold no seat |
| settlement (MCSettlement) | 1,147,978 | One seat bought from a server restarted with good and bad settings: a payment of one transfer and its seat go together (`NothingStranded`, `SettledHoldsSeat`), the 402 can be paid, a receipt comes to nothing only for what nobody asked, and one transfer buys one seat |
| scripts (MCOperators) | 1,247,376 | Two shells: pools are opened beside one another only in a race no scan can see, calls are refused only for what moved, drain always knows its next step, and a released pool keeps its link |

### Bounds, and why they are enough

* **Escrow and Clients.** Three seats and batches of two give a full batch, a clamped last one, a skip in either,
  and claims between them; two agreements give another's money to be touched.  Deadlines of 1 and 2 with a clock
  to 2 give before, at and after.  Offers include the near misses create_agreement must refuse, payments one of
  each kind join must refuse.  The proofs below carry the counters to every size.
* **Quotes.** Two requests meet for one file or for two, from one source or from two; two agreements let a
  predicted id be taken by another creator; a window of one second, and a limiter's minute of one or two, give
  before, at and after their ends.  Symmetry over requests, files and workers is used only in the safety runs,
  whose properties name none of them.
* **Pool page.** Two effects may be running when the user or a timer acts; they start others, and the superseded
  go on.  One call, whose validity ends within the run's blocks.  Two wallets on one pool (page_calls), or one
  that comes and goes over two (page_buying), not both at once: no code relates the two, and the
  properties proved hold for any number of either.  Blocks are counted, so a run stops at its last one.  The
  node lags in page_calls (by one block) and seat_denied, whose properties compare a reading with what came before it.  A
  wallet that may be unable to pay a fee (`Poor`) is in page_live alone, where it keeps a button from being
  offered and so a page from being at rest.
* **Settlement.** One client with a server and one beside it; two pools of two seats, so that a pool fills, closes
  and is replaced by another; groups of up to four legs, each a shape the contract or the handler must tell from
  the builder's, among them a second transfer no join names.  A drift of one tick, the clock's whole range, has the
  server on either side of a deadline.  The proofs cover groups of any length and any drift.
* **Scripts.** Two shells with one command line each, since three runs interleave as two do; two agreements, as
  many as create_pool's scan must tell apart; a clock of two ticks in which a day is two and a minute one.
* CHECK_DEADLOCK is off for Quotes (all requests may be answered and the clock at its bound), PoolPage (the page
  may be at rest with the blocks at their bound) and scripts (the scene may be over).

### Fairness

* **Escrow.** No code schedules the permissionless calls; the contract counts on whoever is owed making
  them.  The clock advances; somebody settles an agreement that can be settled and moves the cursor; the payer
  of a skipped seat keeps claiming it, which needs strong fairness because their wallet comes and goes.
  Nothing is asked of the admin or of the verifier, and nobody has to join.
* **Quotes.** The event loop runs every task it has, and the network decides every submitted group.
* **PoolPage.** The browser runs its timer and its effects; blocks keep coming; a reading asked for again and
  again is answered in full once (strong fairness, since a reading may fail any number of times).  The user is
  never obliged to act.

## 5. What is proved

Every theorem is for all constants that satisfy the ASSUMEs of the module it is about.

### EscrowProofs: any number of accounts, agreements, seats, prices, fees and offers

* `TypeCorrect`: `Spec => []TypeOK`.  Balances and sums of a record are naturals, so no subtraction of the
  code goes below zero.  One lemma per action.
* `AccountingAlways`: `Spec => []Accounting`.
* from it `HeldIsOwedAlways`, `UnclaimedIsSkippedAlways`, `DistinctPayersAlways`, whose properties are parts or
  consequences of `Accounting` and have no run of their own;
* `ClosedOwesNobodyAlways`: the action property that no step deletes a roster with an unpaid seat;
* `ConservedAlways`, `ReleaseOrExpireAlways` and `NoTrappedShareAlways`, below.

The argument.  None of the three counters' invariants is inductive alone: that `claim_refund` may subtract one
from `unclaimed_seats` depends on the seat being behind the cursor and unpaid, that the cursor may be zero before
the pass and at the end after it depends on the state, and what `refund_next` subtracts from `total_held` depends on
every seat ahead of the cursor still holding exactly one share.  `Accounting` states all of it for one record and
its roster (`Sound` == `Staged`, `Seating`, `HeldExact`, `SkipsExact`).  The pure lemmas (`SoundNew`, `SoundJoin`,
`SoundRelease`, `SoundExpire`, `SoundRefund`, `SoundClaim`) say that each method's record and roster are `Sound` when
the ones before were; the action lemmas lift them to the boxes; `Invariant` is the induction over
`IInv == TypeOK /\ Accounting`.  The three named invariants and `Closable => nobody owed` are arithmetic from it.
The seats of one record are counted, by cardinalities of finite sets; the products of a price and a cardinality are
handled by two small lemmas, because the solvers treat them as opaque.

**Across agreements: `ConservedAlways`.**  What the application holds is a sum over all live agreements, and each call
changes one summand.  `Balanced` says it of both assets: the USDC is the sum of `total_held`; the ALGO, for as long as
the fee is the one the deposits were priced at, the funding plus the sum of what is left of each deposit.  One lemma
per call says which summand goes by how much, `Sums` what that does to the sum.  The models write their sums with
`SumFunction` of the community modules, a fold; that a fold over a finite set is the value at an element plus the
fold over the rest is an induction on the set, which the prover cannot take over an operator.  `Sums` proves it over sets of
sets instead: if it failed somewhere it would fail on a smallest set, and does not.

**Exits: `ReleaseOrExpireAlways` and `NoTrappedShareAlways`.**  The guards of the contract are definitions of their own
(`ExpirePasses`, ...) and conjuncts of its actions, so that a property can speak of a call being possible without
ENABLED.  That release and expire exclude each other follows from `Accounting` (a funded record has every seat taken,
and its hash or its quorum is set).  That no share is trapped takes `Balanced` as well, since a call that pays needs the
ALGO for its inner transactions: the theorem is `Spec => [](minFee = InitialFee => NoTrappedShare)`, and the run
fee_rise is why its hypothesis is there.

**The contract implements EscrowPromise** (the end of `EscrowProofs`).
`KeepsPromiseAlways`: `Spec => KeepsPromise`, where `KeepsPromise` is `EscrowPromise`'s specification under the
mapping of `Escrow`.  Each record maps to a deal (`DealOf`): a person is held for as long as the amount of their seat
stands.  The proof uses `IInv` for both sides of each step and has one lemma per call: create
offers a deal, join funds it by one person's share, a release delivers all shares at once, expire calls it off,
refund_next and claim_refund return shares to those they are held for, close forgets a deal that holds nothing.
What needs `IInv`: that seats count people (no account sits twice), that the sum a release or a batch pays is the
price times the people it pays, and that a closed record held nothing.  A refund_next whose window has nobody
payable, and every other call, is a stutter.

### PoolPageProofs: any pools, wallets, blocks, and any number of effects running

`ScreenFollowsUrlAlways`, `ReadingIsOfScreenAlways` and `SpinnerHasReaderAlways`.  The machine's part of `IInv`
(`Coherent`) is kept by each event on its own, whatever effect ends with it and however late; `Follows` says what a
result may be, in terms of the state before: the page stays where it is unless the result names another pool, and a
spinner that turns after it was asked for by it or was turning for the same pool and wallet before.  The rest is
about the bag of effects: that each says what it is for (`Tagged`: a settlement moves the page to the pool its effect
names), and that an effect which ends while its spinner turns is one that stops it (`Stops`).  `DispatchKeeps`
carries all of it through a dispatch and the navigation that may follow; one lemma per effect then applies it.

### OneAtATimeProofs: the same, for what may be done only once at a time

`OneQuestionAtATimeAlways`, `LockHoldsAlways` and `ReleaseShowsCallAlways`, on top of `PoolPageProofs`.

* `QuestionInv`: of the effects that ask for a quote, verify it or build and sign, one is out at most, once, and
  it is the one the machine's purchase waits for, about the quote it remembers.  An event either leaves the
  purchase alone and asks nothing (`Aside`), or ends the question that is out and may ask the next (`Asks`); one
  lemma per effect says which.
* `LockInv`: the lock of the machine, the effect that sends a call, and the calls a block may still take are at most
  one and the same (`LockFor`): before the call has an id, while it is sent, and after its effect gave up on it.
  A lock held for a call nobody saw confirm goes only with a reading that is final for that call, so what a
  reading in flight knows must be true of it: a call told as confirmed or dropped is (`Told`), and a box seen gone is
  gone, no round seen is ahead of the chain's (`Seen`).  That this stays so as blocks come is `ChainInv`: a box once
  gone stays gone, and no later round is an earlier one.

* `ShownInv`, for `ReleaseShowsCall`: the lock is let go by a reading whose round is late enough, and what must be
  shown is that such a reading, made of boxes and a roster read apart, has the call's effect in it.  `HistoryInv` says
  what blocks keep: a record only goes on (`Onward`: its end is never taken back, its refund cursor never goes down,
  a seat it has passed and no longer owes is never owed again), so what a call did is in every block from the one that took it
  (`Traced`).  `Knows` carries this to what a request in flight has read or built: its boxes are those of a block,
  and the call it sends is aimed at a record that was there, at a cursor that has not gone down since.

`PageAssumption` excludes only confusions of kinds (that the value for nothing is a pool, a wallet, a number or
a lock) and, of the records pools start with, those that are none of the contract's: an unknown state, or a refund
cursor past the last payer.

### QuotesProofs: any number of workers, requests, files and sources, every fault

`TypeCorrect`, `QuotesAreReal`, `LimitedOnlyIfSo` and `OneOfEach` (no run of its own: in each
worker one request creates and one mints).  All faults at once: crashes, timeouts, disconnections, late groups, other creators.

The argument is about ids.  `next_agreement_id` is read before the group is composed, read again for the boxes the
group names, and the group lands as that second id or not at all.  `CreateInv` follows one create through these
moments: the ids it goes by are on chain or next (`IdsKnown`), an agreement on chain is the one its maker's group
named, for its maker's bytes, and a group still travelling has made none (`Made`), a request told that its create
landed is the maker (`Told`), and a row once written stays (`Written`).  `QuoteIsReal` follows row by row.  What a
price hands out is the lowest reusable id; that there is a lowest is `MinIsLeast`, the one place where an induction
on numbers is needed, and it is the library's well-foundedness.
`LimiterInv` says that each time in a worker's list is that of a request let in then for that source and not turned
away since; every other step passes the limiter by (`Beyond`), so the times that turn a request away inject into
the requests that the property counts.

### OneWorkerProofs: the deployment the Dockerfile starts

`ASSUME OneWorker` says that there is one worker: `create_lock` is a lock of one process, and the Dockerfile (line
102) starts uvicorn without workers.  Under it, for any number of requests, files and sources:

* `OneQuoteEach` and `CeilingIsKept`: one open quote per file, and never more rows unfunded than the ceiling.
  `QuoteInv` says that while a request holds the lock and has not written its row, its file has no open quote and
  the ceiling is not reached (`Vacant`), which the row it then writes needs.
* `LiveQuotesAreTaken`: a buyer whose group joins the agreement of its 402 is refused only once that quote's window is
  over or its row was funded.  Which agreement a payment is for is looked up again by the paid pass and by the
  handler; `OfferInv` says that the lookup finds the one the 402 named while that is open, because a row that is over stays
  over (`RowsStay`) and one worker has one open quote per file.  The window runs from before the create
  (pricing.py:327, 377): a create slower than the window hands out a quote that is over at birth, and that buyer is
  refused, not charged.
* `ChargedHolds` and `StuckOwesNobody`: `PayInv` says that the request at the end of its mint has the row of the
  agreement its group joins to itself, and after the mint holds it (`Minting`), that a funded row has such a holder
  (`Funded`), and that who was charged and who sits on chain are the requests that settled (`Seated`).
* `OrphansAreFindable`: under the further hypothesis that no group is confirmed after its wait was given up
  (`"late" \notin Faults`), which the run lost_orphan shows to be needed: without it the property fails in the
  code.  `OrphanInv` adds that while a create is under way no other agreement of this middleware has an id from the
  predicted one on, no row has either, and its intent stands (`Alone`), so clearing the intents under the
  predicted and the actual id takes nothing another deposit needs.

### SettlementProofs: groups of any length, any clients, inputs and environments

First the ledger on its own.  `GroupTypes` (no transfer overdraws, no seat goes to anything but an account), `OneTransferOneSeatAlways` and
`EveryJoinPaidAlways` (`EveryJoinPaid` has no run of its own).  That no two executed joins name one transfer is not
inductive: the scan passes over calls of fewer than three arguments.  `IInv == TypeOK /\ Shown /\ Apart` adds that no
such call was ever executed, because `join` itself reads both arguments, so the scan does see every join before it
that counts.

Then the sale: `ReceiptHasSeat`, `NothingStrandedAlways`, `OffersArePayable`, `ReceiptsFailOnlyIf` and
`OneTransferOneSeatServed`, all properties of the run.  A restart may come between any two steps.  The invariant,
`SaleInv`:

* `ServerInv`: what serves has passed its guards; from `_check_network_application` and
  `_check_app_account_ready` together it follows that it is paid in this ledger's USDC into the application's own
  account, which is what makes an offer payable, but for a deadline
  the chain passed within the drift of the server's clock.
* `Conversations` says what is known of a request at each place on its way, and `Settling` that the group the ledger
  executes is the one the handler looked at.  From both, when the group is through, its one join was executed
  (`BuyerJoins`), by the account that paid and in the pool of the receipt.
* `LedgerInv` adds to the invariant of the ledger what a group has done since the last one ended: whoever
  executed a join sits (`JoinersSit`), nobody who sat before loses the seat (`KeptAreSeated`), and what no leg has
  moved is as it was (`Unmoved`), which is why a builder's group fails only for what `ReceiptFailsOnlyIf` lists.
* `MoneyInv`, for `NothingStranded`: while a group runs the application may hold more than its seats are worth, or
  less, since a transfer may stand before the join that names it or after it.  `Accounted` carries the difference leg by
  leg, from the balances and rosters the group found (`saved`): what legs have brought and what executed joins have
  claimed, two sums that agree when a group of one transfer with the join that names it is through.  What others give
  away without the server is in the balances the next group finds.  Of a group of several transfers the property says
  nothing, and section 6 shows why.  The sums need what `GroupAssumption` says, that pools are finitely many.

`SettlementAssumption` says that clients and the facilitator are accounts, that the address of another application
is none of them, that the groups clients and others sign are among the groups there are, and that no failed reading
of a body counts as read; `PayHandmade` signs no transfer of another's.

### OperatorsProofs: the clients' decisions, and any number of shells, command lines and calls in between

First what `Clients` says of a reading taken this instant, on top of `EscrowProofs`.

* `ExpireGuardExactAlways`: the guard's copy of the expire rules, its rescue of a filled agreement included, is the
  contract's, on every record `Accounting` allows.
* `SoldIsJoinableAlways`: what a pool must look like to be served, and what the page compares, are together what
  `join` asks of a newcomer, at any moment within `Drift` of the chain's clock that is on the same side of the deadline.
* `ButtonsAreRightAlways`: `Spec => [](minFee = InitialFee => ButtonsAreRight)`.  A button is offered on counters; that
  its call is taken needs the seats and the balances behind them (`Accounting`, `Balanced`), as does that one is left
  for whoever is owed.  The hypothesis on the fee is that of `NoTrappedShareAlways`, and needed for the same reason.

Then the scripts: `OnePoolUnlessRacedAlways`, `DrainKnowsItsWayAlways` and `LinkKeptAlways`.

A script decides on what it read some requests ago.  `Onward` is what no call of anybody undoes: an id is given
once; a record keeps its terms, is never open again, and goes through its refunds in one direction (`Later`); the
clock does not go back.  One lemma per call of the contract proves it, another that it keeps the shape of records
(`BoxInv`).  `RunsInv` then says what each run knows, only in terms that `Onward` keeps:

* `Scans`: no agreement that create_pool's scan has passed is an open pool now (`Passed`), nor will be; `Beheld`
  remembers it for the pool created, which is `OnePoolUnlessRaced`.
* `Drains`: between drain's reading of a record, its call and its second reading, the record went on as far as the
  call takes it (`Moved`), or somebody else took it further; so neither "nothing advanced" nor an unknown
  state is ever met.
* `Releases`: what release_edition checked of the manifest, of the agreement's hash and of the bytes at the gateways
  is about the note it will send; `NoteNamesFile` says that this note leads to the manifest's file.

`CallsRefusedOnlyIfAlways` needs, beside what a run read, that what it sends would pass if nothing moved: so the
contract's own invariants hold under the scripts (`Chain`: `IInv`, `Balanced`, the fee the deposits were priced at,
an application that can receive; each script's call is a call of `Escrow`, `ScriptIsAround`), and `Kept` adds to
`Onward` what a caller counts on of a record (its verifier and hash; its payers once it is not open; closable stays
closable; a release is final, and a funded record becomes nothing else before its deadline).  `Sends` then says what a
run at its call knows of it, one part per kind of call: the deposit is the one required (`create`), the record read is
the one the guard let through (`Expires`), the accounts named cover the window cut from the cursor that was read
(`Refunds`), what is closed is closable (`Closes`), and the hash, the verifier and the deadline of a release are
those compared while the gateways were asked (`Delivers`).

`ScriptAssumption` says that the ceiling measured for the page is no larger than the contract's, that the treasury,
the verifier and the keys are accounts, and that the admin's key is there.  `SceneAssumption` is what the command
line's parser makes of arguments and what the encoder takes: they are of their command, a length is a number,
prices and seats are not negative, a hash has 32 bytes.  Neither excludes a create the contract refuses: no script
looks at a zero price or hash (`NeverValid`), and `CallsRefusedOnlyIf` says so; that there is a seat is checked by
create_hash_agreement before anything is sent (escrow.py:367).

### Only model-checked

* All liveness.
* `PollsWhileOwed` of `PoolPage`, at the one block of lag of page_calls.  The stronger claim of the code,
  `PollingStopsOnlyWhenDone`, is of seats bought while the page is open as well, and does not hold (section 6).

## 6. What the runs found

* **fee_rise** (code). `close` prices the reserve it returns, and the fees it takes off, at the minimum fee
  of the moment and not at the deposit's (contract.py:806).  A fee that rises in between makes an agreement
  return more than it has left, at another's expense.
* **lost_orphan** (code). The wait for a create's confirmation is shorter than its group's validity.  Confirmed
  late, while the next create runs, it takes the id predicted for that one, whose success deletes both
  intents (pricing.py:374): the first agreement's deposit is in neither table.
* **seat_denied** (documentation). Readings of the pool page are not ordered: one begun before a purchase and
  answered after the reading that showed the seat denies it until the next tick (machine.ts:828, and the
  comment at machine.ts:170).

Read in the code and not kept as runs:

* require_join_call counts the joins of a group and looks at the sender of its first transfer only
  (payment_group.py:141).  The only case it must catch, says payment_group.py:26, is a group without a join; a group of
  two transfers and one join is another, in which the second transfer stays with the application and on no roster.
  The buyer signed both, and a facilitator may refuse such a group, which nothing here counts on.  `JoinKeepsAll`
  asks what `NothingStranded` asks of one transfer of every group, and TLC breaks it under Settlement.cfg.
* machine.ts:395 says the refresh stops when the chain has nothing further to say to this buyer.  `isTerminal`
  (machine.ts:446) judges a record and a roster that may be some blocks apart: a buyer joins in the last block before
  the deadline, expire and a whole refund pass that skips them follow, and the finished record is paired with the
  roster from before the join.  That reading owes the buyer nothing and the page stops.  A settlement reported as made
  starts the reading again, since the page then awaits a seat; one reported as failed, or made elsewhere, does not,
  until the pool is opened again.  It takes answers four blocks apart: TLC breaks `PollingStopsOnlyWhenDone` on one
  such pool with `Lag` at 4, `MaxRound` at 5, `Does` {"buy"} and one effect at a time.  `PollsWhileOwed` is what is
  left of it, of seats held as the page loaded.
* contract.py:611 says exactly one of release_quorum and expire can pass at any moment; before the deadline of a
  filled agreement whose beneficiary cannot receive neither does (`ReleaseOrExpire` checks that never both do).
* check_releasable (release_edition.py:299) cannot see the beneficiary's holding: `CallsRefusedOnlyIf` therefore
  allows a release to be refused for it.
* The ceiling and the mint are guarded by a lock of one process: `CeilingHolds`, `OneQuotePerFile` and what is
  said of payments are claimed, and proved, for the one worker the Dockerfile runs.
* machine.ts:341 says a reading is prompted after every event that may have changed the pool; at machine.ts:434 the
  prompt depends on what is on screen at that moment.
* With the pin route on, `build_deps` opens the store and decodes the key (deps.py:57) before `verify_startup` has
  looked at the rest: a configuration refused there was held for a moment by a process that never served.
* app.py:322 says a buyer whose pool closes between gate and price gets a 402 naming the closed agreement; the price
  callable reads the pool again and raises, which is answered with a 500 (`PriceUnpaid`).
* pricing.py:47 says the limiter keeps one source from reaching the ceiling; a QUOTED row is never abandoned and
  `count_unfunded` has no window, so a source within its quota reaches it in three minutes.
* create_pool.py:33 says exactly one pool is open at a time; two runs that overlap open two, which is the race
  `OnePoolUnlessRaced` leaves out.
* deploy_config.py: a run that ends between create and funding is not repaired by running it again.
* seat_accounts.py:49 says what return_seats gives back; the fees of the moves are not in it, and two provisioning
  runs at once overwrite each other's keys.
* INDEX_SEATS=1 boots, and names an agreement of one seat that the route then never serves.

## 7. What is not modelled

* **Seat wallets of the demo** (agents/seat_accounts.py): test wallets on TestNet, one transaction after another,
  each decided by a balance just read; it calls nothing of the contract.
* **Test vector generators and bootstrap, the spike contract and its page**: outside the product.
* **The delivery page** (web/src/machine.ts): nothing mounts it; only its types and its list of job states are
  imported.  What api.ts asks of the server is in `PoolPage`'s effects.
* **Web configuration, branding and screens**: a build's settings, and presentation of states the machine decides.
* **Deployment**: create, fund and opt in, once; `Escrow` starts after it.
* Left out of parts that are modelled: the job store's `find_by_hash` and the states after FUNDED, which no served
  code reaches; finding and caching of static files; opt_in_asset.py, which opts a wallet in; the byte layout and the
  search of the history in the page's chain reader; messages and receipts on screen.

The facilitator, algod and the gateways are modelled only by what the code sees of them.
