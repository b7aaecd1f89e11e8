----------------------------- MODULE JoinGroups -----------------------------
(***************************************************************************)
(* One atomic transaction group against the escrow's pools: several        *)
(* transfers and several joins, in any order, executed leg by leg and      *)
(* undone as a whole when a leg fails.  Escrow reduces the group around    *)
(* join to one transfer and one call; here is the part of join that looks  *)
(* at the rest of its group: the transfer it names, which may come before  *)
(* it or after it, and the scan of the calls before it.  Of an agreement   *)
(* only what join reads and writes is kept, for agreements on a hash, and  *)
(* a seat is a payer: its amount is the price.                             *)
(*                                                                         *)
(* Positions in a group are counted from 1 here, from 0 in the code.       *)
(***************************************************************************)
EXTENDS Integers, Sequences, FiniteSets, FiniteSetsExt

CONSTANTS
  Account,    \* every account but the application's own
  App,        \* the application account
  Pool,       \* agreement ids, all open at the start
  Price,      \* share_price, by pool
  Seats,      \* max_seats = min_seats, by pool
  Deadline,   \* by pool
  Funds,      \* USDC each account starts with
  Groups,     \* transaction groups somebody may sign
  MaxTime     \* bound on the clock

Kinds == {"pay", "axfer", "join"}

\* One leg: the facilitator's fee payment, a transfer, or a call of join with
\* its two arguments; `args` counts the call's arguments, the selector's one
\* included.
Leg == [kind: Kinds, sender: Account \cup {App}, receiver: Account \cup {App},
        asset: {"usdc", "other"}, amount: Nat, pool: Nat, payment: Nat, args: Nat]

ASSUME GroupAssumption ==
  /\ App \notin Account
  /\ Pool \subseteq Nat \ {0} /\ IsFiniteSet(Pool)
  /\ Price \in [Pool -> Nat \ {0}]
  /\ Seats \in [Pool -> Nat \ {0}]
  /\ Deadline \in [Pool -> Nat]
  /\ Funds \in Nat /\ MaxTime \in Nat
  /\ Groups \subseteq Seq(Leg)
  /\ \A g \in Groups : \A k \in 1..Len(g) : g[k].sender \in Account

VARIABLES
  now,
  paused,
  canReceive, \* accounts opted in to USDC and not frozen
  usdc,       \* balances, the application's included
  roster,     \* payers of each pool, in the order of their seats
  expired,    \* pools somebody called expire on
  group,      \* the group being executed, empty if none
  leg,        \* the leg it is at, 0 if none
  saved       \* balances and rosters when the last group ended

chainVars == <<now, paused, canReceive, expired>>
vars == <<now, paused, canReceive, usdc, roster, expired, group, leg, saved>>

Balances == [Account \cup {App} -> Nat]

Rosters == [Pool -> Seq(Account)]

TypeOK ==
  /\ now \in Nat
  /\ paused \in BOOLEAN
  /\ canReceive \subseteq Account \cup {App}
  /\ usdc \in Balances
  /\ roster \in Rosters
  /\ expired \subseteq Pool
  /\ group \in Seq(Leg)
  /\ \A k \in 1..Len(group) : group[k].sender \in Account
  /\ leg \in 0..(Len(group) + 1)
  /\ saved \in [usdc: Balances, roster: Rosters]

Idle == leg = 0

Init ==
  /\ now = 0
  /\ paused = FALSE
  /\ canReceive = Account \cup {App}
  /\ usdc = [a \in Account \cup {App} |-> IF a = App THEN 0 ELSE Funds]
  /\ roster = [p \in Pool |-> <<>>]
  /\ expired = {}
  /\ group = <<>>
  /\ leg = 0
  /\ saved = [usdc |-> usdc, roster |-> roster]

-----------------------------------------------------------------------------
(* One group.                                                              *)

Begin(g) ==
  /\ Idle
  /\ group' = g
  /\ leg' = 1
  /\ UNCHANGED <<chainVars, usdc, roster, saved>>

\* The pool takes joins: its state is OPEN until the quota is met or somebody
\* expires it.
Open(p) ==
  /\ p \in Pool \ expired
  /\ Len(roster[p]) < Seats[p]
  /\ now < Deadline[p]

SeatedIn(p) == {roster[p][s] : s \in 1..Len(roster[p])}

\* What join asserts of the transaction its payment_index names.
Pays(t, join) ==
  /\ t.kind = "axfer"
  /\ t.asset = "usdc"
  /\ t.receiver = App
  /\ t.sender = join.sender
  /\ t.amount = Price[join.pool]

\* A scan that takes three arguments to be all a join can carry.
Scanned_ExactCount(g, k) ==
  {i \in 1..(k - 1) : g[i].kind = "join" /\ g[i].args = 3}

\* The joins before position k that the scan sees: a call carries its
\* selector and two arguments, or more.
Scanned(g, k) == {i \in 1..(k - 1) : g[i].kind = "join" /\ g[i].args >= 3}

\* The assertions of join, for the call at position k.
JoinPasses(g, k) ==
  LET join == g[k] IN
  /\ ~paused
  /\ join.args >= 3
  /\ join.payment # k
  /\ Open(join.pool)
  /\ join.payment \in 1..Len(g)
  /\ Pays(g[join.payment], join)
  /\ \A i \in Scanned(g, k) : g[i].payment # join.payment
  /\ join.sender \notin SeatedIn(join.pool)

\* The ledger's own conditions on a transfer.
TransferPasses(t) ==
  t.asset = "usdc" => /\ {t.sender, t.receiver} \subseteq canReceive
                      /\ t.amount <= usdc[t.sender]

Moved(t) ==
  IF t.asset = "usdc" /\ t.sender # t.receiver
    THEN [usdc EXCEPT ![t.sender] = @ - t.amount, ![t.receiver] = @ + t.amount]
    ELSE usdc

LegPasses ==
  \/ group[leg].kind = "pay"
  \/ group[leg].kind = "axfer" /\ TransferPasses(group[leg])
  \/ group[leg].kind = "join" /\ JoinPasses(group, leg)

Running == leg \in 1..Len(group)

Pay ==
  /\ Running /\ group[leg].kind = "pay"
  /\ leg' = leg + 1
  /\ UNCHANGED <<chainVars, usdc, roster, group, saved>>

Transfer ==
  /\ Running /\ group[leg].kind = "axfer"
  /\ TransferPasses(group[leg])
  /\ usdc' = Moved(group[leg])
  /\ leg' = leg + 1
  /\ UNCHANGED <<chainVars, roster, group, saved>>

Join ==
  /\ Running /\ group[leg].kind = "join"
  /\ JoinPasses(group, leg)
  /\ roster' = [roster EXCEPT ![group[leg].pool] = Append(@, group[leg].sender)]
  /\ leg' = leg + 1
  /\ UNCHANGED <<chainVars, usdc, group, saved>>

\* A leg that fails undoes the group.
Abort ==
  /\ Running /\ ~LegPasses
  /\ usdc' = saved.usdc
  /\ roster' = saved.roster
  /\ group' = <<>>
  /\ leg' = 0
  /\ UNCHANGED <<chainVars, saved>>

Commit ==
  /\ leg > Len(group)
  /\ group' = <<>>
  /\ leg' = 0
  /\ saved' = [usdc |-> usdc, roster |-> roster]
  /\ UNCHANGED <<chainVars, usdc, roster>>

Execute == Pay \/ Transfer \/ Join \/ Abort \/ Commit

-----------------------------------------------------------------------------
(* Around the group: nothing moves while one is executed.                  *)

Tick ==
  /\ Idle /\ now < MaxTime
  /\ now' = now + 1
  /\ UNCHANGED <<paused, canReceive, usdc, roster, expired, group, leg, saved>>

SetPaused(value) ==
  /\ Idle
  /\ paused' = value
  /\ UNCHANGED <<now, canReceive, usdc, roster, expired, group, leg, saved>>

\* By the creator while nobody has joined, by anyone from the deadline on.
Expire(p) ==
  /\ Idle
  /\ p \notin expired
  /\ roster[p] = <<>> \/ now >= Deadline[p]
  /\ expired' = expired \cup {p}
  /\ UNCHANGED <<now, paused, canReceive, usdc, roster, group, leg, saved>>

\* The issuer freezes a holding of the application account, or thaws it.
Freeze(value) ==
  /\ Idle
  /\ canReceive' = IF value THEN canReceive \ {App} ELSE canReceive \cup {App}
  /\ UNCHANGED <<now, paused, usdc, roster, expired, group, leg, saved>>

Around ==
  \/ Tick
  \/ \E value \in BOOLEAN : SetPaused(value) \/ Freeze(value)
  \/ \E p \in Pool : Expire(p)

Next ==
  \/ \E g \in Groups : Begin(g)
  \/ Execute
  \/ Around

Spec == Init /\ [][Next]_vars

-----------------------------------------------------------------------------
(* What must be true.                                                      *)

\* The joins of the group that have been executed.
Executed == {k \in 1..Len(group) : k < leg /\ group[k].kind = "join"}

\* One transfer funds one seat: however many joins a group carries, for
\* however many pools and in whatever order, no two that pass name the same
\* transfer.  The scan of one join sees only the calls before it.
OneTransferOneSeat ==
  \A j, k \in Executed : group[j].payment = group[k].payment => j = k

\* Every join that passes is paid by a transfer of its group from its own
\* caller to the application, of its pool's price, wherever in the group.
EveryJoinPaid ==
  \A k \in Executed :
    LET t == group[group[k].payment] IN
      /\ group[k].payment \in 1..Len(group)
      /\ t.kind = "axfer" /\ t.asset = "usdc"
      /\ t.sender = group[k].sender /\ t.receiver = App
      /\ t.amount = Price[group[k].pool]
=============================================================================
