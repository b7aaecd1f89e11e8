----------------------------- MODULE Settlement -----------------------------
(***************************************************************************)
(* One seat bought through POST /index: the availability gate, the price,  *)
(* the facilitator's check, the handler and only then the settlement, each *)
(* with its own reading of the chain or none, while the pools move, the    *)
(* server restarts with other settings, and others join without it.  The   *)
(* chain is JoinGroups; what a server may be started with is Boot.         *)
(*                                                                         *)
(* A request is one conversation of a client: `at` says where its next     *)
(* step is taken.  Reading the chain and deciding on it is one step: the   *)
(* code between two awaits.  The clock such a reading goes by is not the   *)
(* chain's: the server reads its own, before it asks for the box.          *)
(***************************************************************************)
EXTENDS JoinGroups, Functions

CONSTANTS
  Client,   \* accounts that buy through the server
  FeePayer, \* the facilitator's account
  Rivals,   \* groups that others sign and send without the server
  Direct,   \* groups a client may send without it
  Handmade, \* groups a client may sign instead of a builder's
  Inputs,   \* [path, query, body, read]: how a paid request may be sent
  Env,      \* environments the server may be started in
  Garbage,  \* see Boot
  Drift     \* bound: how far a moment of the server's is from the chain's

INSTANCE Boot

\* No id named, or no receipt.
None == -1

VARIABLES
  server,  \* what runs, the settings it read and what it holds
  req      \* one conversation per client

allVars == <<vars, server, req>>

\* One application's address is no other account's, no reading of a body is its
\* own success, and what is signed is among the groups there are.
ASSUME SettlementAssumption ==
  /\ Client \cup {FeePayer} \subseteq Account
  /\ ApplicationAddress(2) \notin Account \cup {App}
  /\ Rivals \cup Direct \cup Handmade \subseteq Groups
  /\ \A input \in Inputs : input.read # "ok"
  /\ Drift \in Nat

NoQuote == [network |-> "none"]

\* Where a conversation may be: with the client, in the server, on the chain.
AtClient == {"idle", "refused", "quoted", "settled", "unsettled"}
InServer == {"asked", "gated", "verified", "answered"}

PlainInput == [path |-> "/index", query |-> None, body |-> None,
               read |-> "whole"]

Idling == [at |-> "idle", reason |-> "none", quote |-> NoQuote, group |-> <<>>,
           input |-> PlainInput, receipt |-> None]

\* The client has a receipt, and the payment is settled or never will be.
Over(outcome, receipt) == [Idling EXCEPT !.at = outcome, !.receipt = receipt]

Down == [at |-> "down"]

Refused(reason) == [Idling EXCEPT !.at = "refused", !.reason = reason]

InitSettlement ==
  /\ Init
  /\ server = Down
  /\ req = [c \in Client |-> Idling]

-----------------------------------------------------------------------------
(* The server starts: api/server.py, from top to bottom.                   *)

\* What this ledger says of an account and an asset: every account is funded.
Receives == {<<a, "usdc">> : a \in canReceive}

\* A configuration that can be read, assembled, and stands every guard.
Boots(env) ==
  /\ Loadable(env)
  /\ LET s == LoadSettings(env) IN
       BeforeAssembly(s) /\ Assembles(s) /\ VerifyStartup(s, Receives)

Served(env) ==
  [at |-> "up", settings |-> LoadSettings(env), held |-> Held(LoadSettings(env))]

\* A restart, or a crash, or the next attempt after a boot refused.  What the
\* server was doing is dropped, and nobody answers.
Start(env) ==
  /\ Idle
  /\ server' = IF Boots(env) THEN Served(env) ELSE Down
  /\ req' = [c \in Client |->
               CASE req[c].at = "answered" -> Over("unsettled", req[c].receipt)
                 [] req[c].at \in InServer \ {"answered"} -> Refused("no_answer")
                 [] OTHER -> req[c]]
  /\ UNCHANGED vars

-----------------------------------------------------------------------------
(* The server's passes over a request.                                     *)

Up == Idle /\ server.at = "up"

Serving == server.settings

\* What time.time() may have been when the server read it, before it asked for
\* the box: its clock is ahead of the latest block's, or behind it, and the
\* answer takes its time.
Moments == (now - Drift)..(now + Drift)

\* read_pinned_pool, given that a node answers.  An agreement is OPEN until its
\* seats are taken or somebody expires it, past its deadline too.
Servable(p, moment) ==
  /\ p \in Pool \ expired
  /\ Len(roster[p]) < Seats[p]
  /\ Deadline[p] > moment
  /\ Seats[p] > 1
  /\ Seats[p] = Serving.index_seats
  /\ Price[p] = Serving.index_share_price_micro

\* A reading of the pinned pool, when the node may not answer.  No chain is
\* read when no pool is configured.
PinnedPool(answers, moment) ==
  CASE Serving.index_agreement_id <= 0         -> "no_pool_open"
    [] Serving.index_agreement_id > 0 /\ ~answers -> "pool_status_unavailable"
    [] OTHER -> IF Servable(Serving.index_agreement_id, moment) THEN "open" ELSE "no_pool_open"

Moves(c, r) == /\ req' = [req EXCEPT ![c] = r]
               /\ UNCHANGED <<vars, server>>

\* The client's pages take no POST, and where there is no bundle the router
\* knows none of their paths.
ClientPath == IF Serving.web_dist_dir = "absent" THEN "not_found" ELSE "method_not_allowed"

\* The bundle's layer is the outermost, then the gate: paths that normalise to
\* /index are gated alike, and a path under the client's pages goes no further.
Gate(c, answers, moment) ==
  /\ Up /\ req[c].at = "asked"
  /\ Moves(c, CASE req[c].input.path = "/app/index" -> Refused(ClientPath)
                [] req[c].input.path # "/app/index" ->
                     IF PinnedPool(answers, moment) = "open" THEN [req[c] EXCEPT !.at = "gated"]
                     ELSE Refused(PinnedPool(answers, moment)))

\* The requirements a payment was made for, against the ones of this pass: the
\* extra, and with it the agreement, is not compared.
Matches(q, p) == /\ q.network = p.network /\ q.asset = p.asset
                 /\ q.payTo = p.payTo /\ q.amount = p.amount

\* The facilitator, as far as this code counts on it: a transfer of the group
\* is the payment required.
PaysQuote(g, q) ==
  \E k \in 1..Len(g) : /\ g[k].kind = "axfer" /\ g[k].receiver = q.payTo
                       /\ g[k].asset = q.asset /\ g[k].amount = q.amount

Quoted == QuoteFor(Serving, Serving.index_agreement_id,
                   Price[Serving.index_agreement_id])

\* The price callable reads the pool again, on the unpaid pass and on the paid
\* one; whatever it raises is a generic 500.
PriceUnpaid(c, answers, moment) ==
  /\ Up /\ req[c].at = "gated" /\ req[c].group = <<>>
  /\ Moves(c, IF PinnedPool(answers, moment) # "open" THEN Refused("failed_to_process")
              ELSE [Idling EXCEPT !.at = "quoted", !.quote = Quoted])

\* The facilitator may refuse for reasons of its own.
PricePaid(c, answers, moment, verifies) ==
  /\ Up /\ req[c].at = "gated" /\ req[c].group # <<>>
  /\ Moves(c,
       CASE PinnedPool(answers, moment) # "open" -> Refused("failed_to_process")
         [] PinnedPool(answers, moment) = "open" ->
              IF verifies /\ Matches(req[c].quote, Quoted) /\ PaysQuote(req[c].group, Quoted)
                THEN [req[c] EXCEPT !.at = "verified", !.quote = Quoted]
                ELSE Refused("payment_refused"))

-----------------------------------------------------------------------------
(* The handler of /index.                                                  *)

\* The query and the body name different pools.
BodyConflict(input) ==
  /\ input.query # None /\ input.body # None /\ input.query # input.body

RequestedId(input) == IF input.body # None THEN input.body ELSE input.query

Joins(g) == {k \in 1..Len(g) : g[k].kind = "join" /\ g[k].args >= 1}

Transfers(g) == {k \in 1..Len(g) : g[k].kind = "axfer"}

\* A join of any agreement will do.
RequireJoinCall_AnyPool(g, id) ==
  /\ Cardinality(Joins(g)) = 1
  /\ \A k \in Joins(g) : /\ g[k].args > 1
                         /\ Transfers(g) # {} => g[k].sender = g[Min(Transfers(g))].sender

\* require_join_call: exactly one join, of this agreement, by the sender of
\* the first transfer.
RequireJoinCall(g, id) ==
  /\ Cardinality(Joins(g)) = 1
  /\ \A k \in Joins(g) :
       /\ g[k].args > 1
       /\ g[k].pool = id
       /\ Transfers(g) # {} => g[k].sender = g[Min(Transfers(g))].sender

\* The handler's answer, the reason of a refusal or "ok"; `read` is what can be
\* made of the body.
IndexAnswer(input, g, id) ==
  IF input.read # "whole" THEN input.read
  ELSE IF BodyConflict(input) THEN "conflicting_agreement_id"
  ELSE IF RequestedId(input) \notin {None, id} THEN "different_pool"
  ELSE IF ~RequireJoinCall(g, id) THEN "payment_group_incomplete"
  ELSE "ok"

\* A path with more slashes is redirected, and a redirect is no error.
Answer_Redirects(input, g, id) ==
  IF input.path # "/index" THEN "ok" ELSE IndexAnswer(input, g, id)

\* A path with more slashes is paid for like the route and is not the route.
Answer(input, g, id) ==
  IF input.path # "/index" THEN "not_found" ELSE IndexAnswer(input, g, id)

\* After the payment is verified, before it is settled.  Nothing is settled on
\* an answer of 400 or more.
Handle(c) ==
  /\ Up /\ req[c].at = "verified"
  /\ LET answer == Answer(req[c].input, req[c].group, req[c].quote.pool)
     IN Moves(c, IF answer = "ok"
                   THEN [req[c] EXCEPT !.at = "answered", !.receipt = req[c].quote.pool]
                   ELSE Refused(answer))

\* The middleware hands the group to the facilitator, which submits it.
Settle(c) ==
  /\ Up /\ req[c].at = "answered"
  /\ Begin(req[c].group)
  /\ req' = [req EXCEPT ![c].at = "settling"]
  /\ UNCHANGED server

\* The facilitator does not, or cannot be reached.
SettleFails(c) ==
  /\ Up /\ req[c].at = "answered"
  /\ Moves(c, Over("unsettled", req[c].receipt))

-----------------------------------------------------------------------------
(* The clients.                                                            *)

Payment(sender) ==
  [kind |-> "pay", sender |-> sender, receiver |-> sender, asset |-> "other",
   amount |-> 0, pool |-> None + 1, payment |-> 0, args |-> 0]

PaymentTo(sender, q) ==
  [Payment(sender) EXCEPT !.kind = "axfer", !.receiver = q.payTo,
                          !.asset = q.asset, !.amount = q.amount]

JoinCall(sender, pool, payment) ==
  [Payment(sender) EXCEPT !.kind = "join", !.receiver = App, !.pool = pool,
                          !.payment = payment, !.args = 3]

RoleOrder == [fee_payer_first |-> <<"fee_payer", "axfer", "app_call">>,
              axfer_first     |-> <<"axfer", "fee_payer", "app_call">>]

\* The index of the payment in the default order, whatever the order is.
PaymentIndex_Fixed(variant) == 2

\* role_order.index("axfer").
PaymentIndex(variant) ==
  CHOOSE k \in 1..3 : RoleOrder[variant][k] = "axfer"

\* build_join_group: the facilitator's leg, the buyer's transfer and the call
\* that names it by its place.
BuildJoinGroup(variant, buyer, q, pool) ==
  LET txn == [fee_payer |-> Payment(FeePayer), axfer |-> PaymentTo(buyer, q),
              app_call  |-> JoinCall(buyer, pool, PaymentIndex(variant))]
  IN [k \in 1..3 |-> txn[RoleOrder[variant][k]]]

\* build_plain_group: a settlement with no call in it.
BuildPlainGroup(buyer, q) == <<PaymentTo(buyer, q), Payment(FeePayer)>>

\* A first, unpaid request; the path is the only part of it that matters.
Ask(c, path) ==
  /\ Up /\ req[c].at \in AtClient \ {"quoted"}
  /\ Moves(c, [Idling EXCEPT !.at = "asked", !.input.path = path])

\* The same request with a group signed for the 402 in hand.
Pay402(c, g, input) ==
  /\ Up /\ req[c].at = "quoted"
  /\ Moves(c, [req[c] EXCEPT !.at = "asked", !.group = g, !.input = input])

\* join_client_manual: the pool it names is its own argument, not the 402's.  It
\* names one in the query only; other clients of this route send a body.
PayByHand(c) ==
  \E variant \in DOMAIN RoleOrder, pool \in Pool, input \in Inputs :
    /\ req[c].quote.network = "test"
    /\ Pay402(c, BuildJoinGroup(variant, c, req[c].quote, pool), input)

\* plain_settle_fallback.
PayPlain(c) ==
  \E input \in Inputs :
    /\ req[c].quote.network = "test"
    /\ Pay402(c, BuildPlainGroup(c, req[c].quote), input)

\* Whatever it makes up, a client signs no transfer but its own.
PayHandmade(c) ==
  \E g \in Handmade, input \in Inputs :
    /\ \A k \in Transfers(g) : g[k].sender = c
    /\ Pay402(c, g, input)

\* The 402 is thrown away.
GiveUp(c) == Idle /\ req[c].at = "quoted" /\ Moves(c, Idling)

\* fallback_direct_settle: a group handed to the facilitator, or to a node,
\* without the server.
SettleDirect(c, g) ==
  /\ req[c].at \in AtClient \ {"quoted"}
  /\ Begin(g)
  /\ req' = [req EXCEPT ![c] = [Idling EXCEPT !.at = "direct"]]
  /\ UNCHANGED server

-----------------------------------------------------------------------------

\* A group ends, and whoever waited for it hears of it.
Concluded(outcome) ==
  [c \in Client |->
     CASE req[c].at = "settling" -> Over(outcome, req[c].receipt)
       [] req[c].at = "direct"   -> Idling
       [] OTHER                  -> req[c]]

ChainStep ==
  /\ \/ (Pay \/ Transfer \/ Join) /\ UNCHANGED req
     \/ Commit /\ req' = Concluded("settled")
     \/ Abort /\ req' = Concluded("unsettled")
  /\ UNCHANGED server

ServerStep(c) ==
  \/ \E answers \in BOOLEAN, moment \in Moments :
       \/ Gate(c, answers, moment)
       \/ PriceUnpaid(c, answers, moment)
       \/ \E verifies \in BOOLEAN : PricePaid(c, answers, moment, verifies)
  \/ Handle(c) \/ Settle(c) \/ SettleFails(c)

ClientStep(c) ==
  \/ \E path \in {i.path : i \in Inputs} : Ask(c, path)
  \/ PayByHand(c) \/ PayPlain(c) \/ PayHandmade(c) \/ GiveUp(c)
  \/ \E g \in Direct : SettleDirect(c, g)

NextSettlement ==
  \/ ChainStep
  \/ \E c \in Client : ServerStep(c) \/ ClientStep(c)
  \/ \E env \in Env : Start(env)
  \/ /\ Around \/ \E g \in Rivals : Begin(g)
     /\ UNCHANGED <<server, req>>

SpecSettlement == InitSettlement /\ [][NextSettlement]_allVars

-----------------------------------------------------------------------------
(* What must be true.                                                      *)

\* What the application holds beside the price of the seats of a roster.
Beside(balances, seated) ==
  balances[App] - SumFunction([p \in Pool |-> Price[p] * Len(seated[p])])

\* The payment of a request that was answered is now settled.
Settles(c) == req[c].at = "settling" /\ req'[c].at = "settled"

\* A payment settled through the server is the price of the seats its group
\* took, to the unit: nothing of it is left with the application, where no
\* roster and no refund would reach it.  The handler is the only thing that
\* stops a payment without a join, and it must stop it before it settles.  It
\* counts the joins and not the transfers: a group of several is the buyer's.
NothingStranded ==
  [][\A c \in Client : Settles(c) /\ (\A k, l \in Transfers(group) : k = l) =>
       Beside(usdc, roster) = Beside(saved.usdc, saved.roster)]_allVars

\* The same of every group, as payment_group.py's "the only case that needs
\* catching here is the one the chain never sees" has it.  The code does not keep
\* it: a second transfer no join names passes its check (README, section 6).
JoinKeepsAll ==
  [][\A c \in Client : Settles(c) =>
       Beside(usdc, roster) = Beside(saved.usdc, saved.roster)]_allVars

\* A receipt is for the pool the buyer named, in the query or in the body, and
\* whoever has one and whose payment settled holds a seat in that pool, even
\* when the server was restarted with another between the 402 and the payment.
SettledHoldsSeat ==
  \A c \in Client : req[c].receipt # None =>
    /\ {req[c].input.query, req[c].input.body} \subseteq {None, req[c].receipt}
    /\ req[c].at = "settled" => c \in SeatedIn(req[c].receipt)

\* The 402 a client can pay: a transfer and join built from it would pass the
\* contract in the state the 402 was made in, unless the buyer has a seat or
\* no money or the contract is paused or frozen, which the server does not ask,
\* or the deadline went by on the chain within the drift of the server's clock.
OfferIsPayable ==
  [][\A c \in Client : req[c].at = "gated" /\ req'[c].at = "quoted" =>
       \A variant \in DOMAIN RoleOrder :
         LET q == req'[c].quote
             g == BuildJoinGroup(variant, c, q, q.pool)
         IN \A k \in 1..Len(g) :
              /\ g[k].kind = "axfer" => g[k].asset = "usdc" /\ g[k].receiver = App
              /\ g[k].kind = "join" => \/ paused \/ c \in SeatedIn(q.pool)
                                       \/ now - Deadline[q.pool] \in 0..(Drift - 1)
                                       \/ JoinPasses(g, k)]_allVars

\* A receipt for a group of the builder's comes to nothing only for what the
\* handler does not ask: its buyer was seated already, or had not the money, or
\* the pool closed, or the contract was paused or its holding frozen meanwhile.
ReceiptFailsOnlyIf ==
  [][\A c \in Client : req[c].at = "settling" /\ req'[c].at = "unsettled" =>
       LET p == req[c].receipt IN
         \/ \A variant \in DOMAIN RoleOrder :
              req[c].group # BuildJoinGroup(variant, c, req[c].quote, p)
         \/ paused \/ canReceive # Account \cup {App}
         \/ c \in {saved.roster[p][s] : s \in 1..Len(saved.roster[p])}
         \/ p \in expired \/ now >= Deadline[p]
         \/ Len(saved.roster[p]) = Seats[p]
         \/ saved.usdc[c] < Price[p]]_allVars
=============================================================================
