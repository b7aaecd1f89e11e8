------------------------- MODULE SettlementProofs --------------------------
(***************************************************************************)
(* Proofs about Settlement, for any number of clients, accounts and pools, *)
(* any groups and inputs they may bring, and any environments the server   *)
(* may be started in, restarts and crashes at any point included.          *)
(*                                                                         *)
(* That a receipt means a seat does not follow from the handler's check    *)
(* alone: between the check and the ledger the invariant carries the group *)
(* that was checked to the group that is executed (Said, Settling), from   *)
(* its one join to a seat (JoinersSit, BuyerJoins), and the seat past      *)
(* every group that fails after it (Kept, KeptAreSeated). That an offer    *)
(* can be paid and a receipt fails only for what nobody asked needs the    *)
(* settings of a server that booted (ServerInv) and that a group finds     *)
(* balances and seats where the last one left them (Unmoved).  That a      *)
(* settled payment leaves nothing behind is reckoned leg by leg, from the  *)
(* balances the last group left (Accounted).                               *)
(***************************************************************************)
EXTENDS Settlement, Sums, FiniteSetTheorems, WellFoundedInduction, TLAPS

-----------------------------------------------------------------------------
(* The groups on their own, for every set of groups anybody may sign.      *)
(*                                                                         *)
(* That no two executed joins name one transfer is not inductive: the scan *)
(* of a join passes over calls of fewer than three arguments, so what is   *)
(* needed besides is that no such call was ever executed.                  *)

\* What an executed join has shown of itself.
Shown ==
  \A k \in Executed :
    /\ group[k].args >= 3
    /\ group[k].payment \in 1..Len(group)
    /\ Pays(group[group[k].payment], group[k])

\* What it has shown beside the joins before it.
Apart ==
  \A j, k \in Executed : j < k => group[j].payment # group[k].payment

IInv == TypeOK /\ Shown /\ Apart

-----------------------------------------------------------------------------

\* Every state is well typed: no transfer overdraws, no seat is given to
\* anything but an account, a failed group leaves what was there before.
LEMMA InitIInv == Init => IInv
<1> SUFFICES ASSUME Init PROVE IInv
  OBVIOUS
<1>1. usdc \in Balances /\ roster \in Rosters
  BY GroupAssumption DEF Init, Balances, Rosters
<1>2. group \in Seq(Leg) /\ Len(group) = 0
  BY DEF Init
<1>3. TypeOK
  <2>1. saved \in [usdc : Balances, roster : Rosters]
    BY <1>1 DEF Init
  <2>2. \A k \in 1..Len(group) : group[k].sender \in Account
    BY <1>2
  <2>3. now \in Nat /\ leg \in 0..(Len(group) + 1)
    BY <1>2 DEF Init
  <2>4. paused \in BOOLEAN
    BY DEF Init
  <2>5. canReceive \subseteq Account \cup {App} /\ expired \subseteq Pool
    BY DEF Init
  <2> QED
    BY <1>1, <1>2, <2>1, <2>2, <2>3, <2>4, <2>5 DEF TypeOK
<1>4. Executed = {}
  BY <1>2 DEF Executed
<1> QED
  BY <1>3, <1>4 DEF IInv, Shown, Apart

\* A transfer of a leg that the ledger takes leaves balances natural.
LEMMA MovedBalances ==
  ASSUME usdc \in Balances, NEW t \in Leg, TransferPasses(t)
  PROVE  Moved(t) \in Balances
<1>1. t.sender \in Account \cup {App} /\ t.receiver \in Account \cup {App} /\ t.amount \in Nat
  BY DEF Leg
<1>2. CASE t.asset = "usdc" /\ t.sender # t.receiver
  <2>1. usdc[t.sender] - t.amount \in Nat
    BY <1>1, <1>2 DEF TransferPasses, Balances
  <2>2. usdc[t.receiver] + t.amount \in Nat
    BY <1>1 DEF Balances
  <2> QED
    BY <1>1, <1>2, <2>1, <2>2 DEF Moved, Balances
<1>3. CASE ~(t.asset = "usdc" /\ t.sender # t.receiver)
  BY <1>3 DEF Moved
<1> QED
  BY <1>2, <1>3

\* The leg a running group is at is a leg.
LEMMA CurrentLeg ==
  ASSUME TypeOK, Running
  PROVE  /\ group[leg] \in Leg
         /\ group[leg].sender \in Account
         /\ leg + 1 \in 0..(Len(group) + 1)
  BY DEF TypeOK, Running

\* Executing one more leg that is no join adds no executed join.
LEMMA SameExecuted ==
  ASSUME TypeOK, Running, group[leg].kind # "join",
         group' = group, leg' = leg + 1
  PROVE  Executed' = Executed
<1>1. \A k \in 1..Len(group) : (k < leg + 1 /\ group[k].kind = "join")
                                 <=> (k < leg /\ group[k].kind = "join")
  BY DEF TypeOK, Running
<1> QED
  BY <1>1 DEF Executed

\* Whoever signed it: what the invariant says is not about the set of groups.
LEMMA BeginAnyStep ==
  ASSUME IInv, NEW g \in Seq(Leg), \A k \in 1..Len(g) : g[k].sender \in Account, Begin(g)
  PROVE  IInv'
<1>2. Len(g) \in Nat
  OBVIOUS
<1>3. TypeOK'
  BY <1>2 DEF Begin, IInv, TypeOK, chainVars
<1>4. Executed' = {}
  BY DEF Begin, Executed
<1> QED
  BY <1>3, <1>4 DEF IInv, Shown, Apart

LEMMA BeginStep == ASSUME IInv, NEW g \in Groups, Begin(g) PROVE IInv'
<1>1. g \in Seq(Leg) /\ \A k \in 1..Len(g) : g[k].sender \in Account
  BY GroupAssumption
<1> QED
  BY <1>1, BeginAnyStep

LEMMA PayStep == ASSUME IInv, Pay PROVE IInv'
<1>1. Running /\ TypeOK
  BY DEF Pay, IInv
<1>2. TypeOK'
  BY <1>1, CurrentLeg DEF Pay, TypeOK, chainVars
<1>3. Executed' = Executed
  BY <1>1, SameExecuted DEF Pay
<1> QED
  BY <1>2, <1>3 DEF IInv, Shown, Apart, Pay, Pays

LEMMA TransferStep == ASSUME IInv, Transfer PROVE IInv'
<1>1. Running /\ TypeOK
  BY DEF Transfer, IInv
<1>2. usdc' \in Balances
  BY <1>1, CurrentLeg, MovedBalances DEF Transfer, TypeOK
<1>3. TypeOK'
  BY <1>1, <1>2, CurrentLeg DEF Transfer, TypeOK, chainVars
<1>4. Executed' = Executed
  BY <1>1, SameExecuted DEF Transfer
<1> QED
  BY <1>3, <1>4 DEF IInv, Shown, Apart, Transfer, Pays

\* The one step that matters: the call is scanned against every join executed
\* before it, since each of those carried three arguments or more.
LEMMA JoinStep == ASSUME IInv, Join PROVE IInv'
<1>1. Running /\ TypeOK /\ JoinPasses(group, leg) /\ group' = group /\ leg' = leg + 1
  BY DEF Join, IInv
<1>2. TypeOK'
  <2>1. group[leg].pool \in Pool /\ group[leg].sender \in Account
    BY <1>1, CurrentLeg DEF JoinPasses, Open
  <2>2. roster' \in Rosters
    BY <1>1, <2>1 DEF Join, TypeOK, Rosters
  <2> QED
    BY <1>1, <2>2, CurrentLeg DEF Join, TypeOK, chainVars
<1>3. Executed' = Executed \cup {leg}
  <2>1. leg \in 1..Len(group) /\ group[leg].kind = "join"
    BY DEF Join, Running
  <2>2. \A k \in 1..Len(group) : k < leg + 1 <=> (k < leg \/ k = leg)
    BY <2>1 DEF IInv, TypeOK
  <2> QED
    BY <1>1, <2>1, <2>2 DEF Executed
<1>4. /\ group[leg].args >= 3
      /\ group[leg].payment \in 1..Len(group)
      /\ Pays(group[group[leg].payment], group[leg])
  BY <1>1 DEF JoinPasses
<1>5. Shown'
  BY <1>1, <1>3, <1>4 DEF IInv, Shown, Pays
<1>6. \A j \in Executed : j < leg /\ group[j].payment # group[leg].payment
  <2> TAKE j \in Executed
  <2>1. j \in 1..Len(group) /\ j < leg /\ group[j].kind = "join" /\ group[j].args >= 3
    BY DEF Executed, IInv, Shown
  <2>2. j \in Scanned(group, leg)
    BY <2>1, <1>1 DEF Scanned, Running
  <2> QED
    BY <2>1, <2>2, <1>1 DEF JoinPasses
<1>7. Apart'
  <2>1. leg \in Nat /\ \A j \in Executed : j \in Nat
    BY <1>1 DEF Executed, TypeOK
  <2> SUFFICES ASSUME NEW j \in Executed \cup {leg}, NEW k \in Executed \cup {leg}, j < k
               PROVE  group[j].payment # group[k].payment
    BY <1>1, <1>3 DEF Apart
  <2>2. CASE k = leg
    BY <1>6, <2>1, <2>2
  <2>3. CASE k \in Executed /\ j \in Executed
    BY <2>3 DEF IInv, Apart
  <2>4. CASE k \in Executed /\ j = leg
    BY <1>6, <2>1, <2>4
  <2> QED
    BY <2>2, <2>3, <2>4
<1> QED
  BY <1>2, <1>5, <1>7 DEF IInv

LEMMA EndStep == ASSUME IInv, Abort \/ Commit PROVE IInv'
<1>1. TypeOK'
  <2>1. group' = <<>> /\ leg' = 0 /\ UNCHANGED chainVars
    BY DEF Abort, Commit
  <2>2. usdc' \in Balances /\ roster' \in Rosters
          /\ saved' \in [usdc : Balances, roster : Rosters]
    BY DEF Abort, Commit, IInv, TypeOK
  <2>3. group' \in Seq(Leg) /\ Len(group') = 0
    BY <2>1
  <2>4. \A k \in 1..Len(group') : group'[k].sender \in Account
    BY <2>3
  <2> QED
    BY <2>1, <2>2, <2>3, <2>4 DEF IInv, TypeOK, chainVars
<1>2. Executed' = {}
  BY DEF Abort, Commit, Executed
<1> QED
  BY <1>1, <1>2 DEF IInv, Shown, Apart

LEMMA AroundStep == ASSUME IInv, Around PROVE IInv'
<1>1. TypeOK' /\ group' = group /\ leg' = leg
  BY DEF Around, Tick, SetPaused, Expire, Freeze, IInv, TypeOK
<1> QED
  BY <1>1 DEF IInv, Shown, Apart, Executed, Pays

LEMMA NextIInv == IInv /\ [Next]_vars => IInv'
<1> SUFFICES ASSUME IInv, [Next]_vars PROVE IInv'
  OBVIOUS
<1>1. CASE \E g \in Groups : Begin(g)
  BY <1>1, BeginStep
<1>2. CASE Execute
  BY <1>2, PayStep, TransferStep, JoinStep, EndStep DEF Execute
<1>3. CASE Around
  BY <1>3, AroundStep
<1>4. CASE UNCHANGED vars
  BY <1>4 DEF vars, IInv, TypeOK, Shown, Apart, Executed, Pays
<1> QED
  BY <1>1, <1>2, <1>3, <1>4 DEF Next

LEMMA Invariance == Spec => []IInv
  BY InitIInv, NextIInv, PTL DEF Spec

\* Balances stay natural and seats stay accounts, whatever groups are signed.
THEOREM GroupTypes == Spec => []TypeOK
<1>1. IInv => TypeOK
  BY DEF IInv
<1> QED
  BY <1>1, Invariance, PTL

\* No two joins of one group are funded by one transfer, however many joins
\* it carries, wherever they stand and however their calls are padded.
THEOREM OneTransferOneSeatAlways == Spec => []OneTransferOneSeat
<1>1. ASSUME IInv PROVE OneTransferOneSeat
  <2> SUFFICES ASSUME NEW j \in Executed, NEW k \in Executed,
                      group[j].payment = group[k].payment
               PROVE  j = k
    BY DEF OneTransferOneSeat
  <2>1. j \in Int /\ k \in Int
    BY DEF Executed
  <2> QED
    BY <1>1, <2>1 DEF IInv, Apart
<1> QED
  BY <1>1, Invariance, PTL

\* Every executed join is paid by a transfer of its group, of its price, from
\* its own caller to the application.
THEOREM EveryJoinPaidAlways == Spec => []EveryJoinPaid
<1>1. ASSUME IInv PROVE EveryJoinPaid
  BY <1>1 DEF IInv, Shown, EveryJoinPaid, Pays
<1> QED
  BY <1>1, Invariance, PTL

-----------------------------------------------------------------------------
(* The server and its clients around the groups.                           *)

\* Who had a seat when the last group ended.
Kept(p) == {saved.roster[p][s] : s \in 1..Len(saved.roster[p])}

\* No leg of this kind has been executed.
NoneYet(kind) == \A k \in 1..Len(group) : k < leg => group[k].kind # kind

\* Nobody loses a seat to a group that runs, and no pool has too many.
KeptAreSeated == \A p \in Pool : Kept(p) \subseteq SeatedIn(p)

NoneOverfull ==
  \A p \in Pool : Len(roster[p]) <= Seats[p] /\ Len(saved.roster[p]) <= Seats[p]

\* Whoever has executed a join has the seat.
JoinersSit ==
  \A k \in Executed :
    \E p \in Pool : p = group[k].pool /\ group[k].sender \in SeatedIn(p)

\* What a group has not moved is where the last one left it.
Unmoved ==
  /\ NoneYet("axfer") => usdc = saved.usdc
  /\ NoneYet("join") => roster = saved.roster

LedgerInv == IInv /\ KeptAreSeated /\ NoneOverfull /\ JoinersSit /\ Unmoved

\* A server that serves has passed its guards.
ServerInv ==
  server.at = "up" =>
    /\ server.settings.app_account = App
    /\ server.settings.usdc_asa_id = "usdc"
    /\ BeforeAssembly(server.settings)
    /\ server.held = Held(server.settings)

\* What the contract asks of a transfer.
Sound(q) == /\ q.asset = "usdc" /\ q.payTo = App
            /\ q.pool \in Pool /\ q.amount = Price[q.pool]

\* A group of c's: its transfers, if it has any, are its own.
OwnGroup(c, g) ==
  /\ g \in Seq(Leg)
  /\ \A k \in 1..Len(g) : /\ g[k].sender \in Account
                          /\ g[k].kind = "axfer" => g[k].sender = c

\* A record with the fields of a conversation.
Conversation(r) ==
  DOMAIN r = {"at", "reason", "quote", "group", "input", "receipt"}

Priced == {"quoted", "verified", "answered", "settling"}

\* What is true of a conversation of c, whatever the ledger does.
Said(c, r) ==
  /\ Conversation(r)
  /\ OwnGroup(c, r.group)
  /\ r.input.read # "ok"
  /\ r.at \in Priced => Sound(r.quote)
  /\ r.at \in {"verified", "answered", "settling"} => Transfers(r.group) # {}
  /\ r.at \in {"answered", "settling"} =>
       r.receipt = r.quote.pool /\ RequireJoinCall(r.group, r.receipt)
  /\ r.receipt # None =>
       /\ r.at \in {"answered", "settling", "settled", "unsettled"}
       /\ r.receipt \in Pool
       /\ {r.input.query, r.input.body} \subseteq {None, r.receipt}

Conversations ==
  /\ DOMAIN req = Client
  /\ \A c \in Client : Said(c, req[c])

\* The group being executed is that of whoever is settling.
Settling ==
  \A c \in Client : req[c].at = "settling" => ~Idle /\ group = req[c].group

Seated ==
  \A c \in Client :
    req[c].at = "settled" /\ req[c].receipt # None => c \in Kept(req[c].receipt)

\* All of it: the invariant of the sale of one seat.
SaleInv == LedgerInv /\ ServerInv /\ Conversations /\ Settling /\ Seated

-----------------------------------------------------------------------------
(* The ledger, whatever group it is given.                                 *)

\* The pools start empty, and nothing runs.
LEMMA InitLedger == Init => LedgerInv
<1> SUFFICES ASSUME Init PROVE LedgerInv
  OBVIOUS
<1>1. IInv
  BY InitIInv
<1>2. \A p \in Pool : roster[p] = <<>> /\ saved.roster[p] = <<>> /\ Seats[p] \in Nat
  BY GroupAssumption DEF Init
<1>3. Executed = {}
  BY DEF Init, Executed
<1>4. usdc = saved.usdc /\ roster = saved.roster
  BY DEF Init
<1>5. KeptAreSeated /\ NoneOverfull
  BY <1>2 DEF KeptAreSeated, NoneOverfull, Kept, SeatedIn
<1> QED
  BY <1>1, <1>3, <1>4, <1>5 DEF LedgerInv, JoinersSit, Unmoved

\* Nothing that a group leaves alone, or undoes, disturbs who sits where.
LEMMA SeatsUnmoved ==
  ASSUME LedgerInv, UNCHANGED <<roster, saved>>
  PROVE  KeptAreSeated' /\ NoneOverfull'
<1>1. KeptAreSeated'
  <2>1. \A p \in Pool : Kept(p)' = Kept(p) /\ SeatedIn(p)' = SeatedIn(p)
    BY DEF Kept, SeatedIn
  <2> QED
    BY <2>1 DEF LedgerInv, KeptAreSeated
<1>2. NoneOverfull'
  BY DEF LedgerInv, NoneOverfull
<1> QED
  BY <1>1, <1>2

LEMMA JoinersUnmoved ==
  ASSUME LedgerInv, UNCHANGED <<roster, group>>, Executed' = Executed
  PROVE  JoinersSit'
  BY DEF LedgerInv, JoinersSit, SeatedIn

\* A group that begins has done nothing yet, whoever signed it.
LEMMA BeginKeeps ==
  ASSUME LedgerInv, NEW g \in Seq(Leg), \A k \in 1..Len(g) : g[k].sender \in Account, Begin(g)
  PROVE  LedgerInv'
<1>1. IInv'
  BY BeginAnyStep DEF LedgerInv
<1>2. Executed' = {}
  BY DEF Begin, Executed
<1>3. usdc = saved.usdc /\ roster = saved.roster
  BY DEF Begin, Idle, LedgerInv, Unmoved, NoneYet, IInv, TypeOK
<1>4. UNCHANGED <<usdc, roster, saved>>
  BY DEF Begin
<1> QED
  BY <1>1, <1>2, <1>3, <1>4, SeatsUnmoved DEF LedgerInv, JoinersSit, Unmoved

\* One leg more has been executed, of its own kind.
LEMMA OneMoreLeg ==
  ASSUME LedgerInv, Running, leg' = leg + 1, group' = group, NEW kind
  PROVE  NoneYet(kind)' <=> NoneYet(kind) /\ group[leg].kind # kind
<1>1. leg \in 1..Len(group) /\ Len(group) \in Nat
  BY DEF Running, LedgerInv, IInv, TypeOK
<1>2. \A k \in 1..Len(group) : k < leg + 1 <=> k < leg \/ k = leg
  BY <1>1
<1> QED
  BY <1>1, <1>2 DEF NoneYet

LEMMA PayKeeps == ASSUME LedgerInv, Pay PROVE LedgerInv'
<1>1. IInv' /\ Running /\ Executed' = Executed
  BY PayStep, SameExecuted DEF LedgerInv, IInv, Pay
<1>2. UNCHANGED <<usdc, roster, saved, group>> /\ leg' = leg + 1
  BY DEF Pay
<1>3. Unmoved'
  BY <1>1, <1>2, OneMoreLeg DEF LedgerInv, Unmoved
<1> QED
  BY <1>1, <1>2, <1>3, SeatsUnmoved, JoinersUnmoved DEF LedgerInv

LEMMA TransferKeeps == ASSUME LedgerInv, Transfer PROVE LedgerInv'
<1>1. IInv' /\ Running /\ Executed' = Executed
  BY TransferStep, SameExecuted DEF LedgerInv, IInv, Transfer
<1>2. UNCHANGED <<roster, saved, group>> /\ leg' = leg + 1 /\ group[leg].kind = "axfer"
  BY DEF Transfer
<1>3. Unmoved'
  BY <1>1, <1>2, OneMoreLeg DEF LedgerInv, Unmoved
<1> QED
  BY <1>1, <1>2, <1>3, SeatsUnmoved, JoinersUnmoved DEF LedgerInv

\* One more seat in the pool the call names, and the seats there were.
LEMMA JoinSeats ==
  ASSUME LedgerInv, Join, NEW q, q = group[leg].pool
  PROVE  /\ q \in Pool
         /\ Len(roster[q]) < Seats[q]
         /\ Len(roster'[q]) = Len(roster[q]) + 1
         /\ group[leg].sender \in {roster'[q][s] : s \in 1..Len(roster'[q])}
         /\ \A p \in Pool : SeatedIn(p) \subseteq SeatedIn(p)'
         /\ \A p \in Pool : p # q => roster'[p] = roster[p]
<1>1. PICK a : a = group[leg].sender
  OBVIOUS
<1>2. q \in Pool /\ Len(roster[q]) < Seats[q]
  BY DEF Join, JoinPasses, Open
<1>3. a \in Account /\ roster \in [Pool -> Seq(Account)]
  BY <1>1, CurrentLeg DEF Join, LedgerInv, IInv, TypeOK, Rosters
<1>4. roster' = [roster EXCEPT ![q] = Append(@, a)]
  BY <1>1 DEF Join
<1>5. roster'[q] = Append(roster[q], a) /\ \A p \in Pool : p # q => roster'[p] = roster[p]
  BY <1>2, <1>3, <1>4
<1>6. roster[q] \in Seq(Account)
  BY <1>2, <1>3
<1>7. /\ Len(roster'[q]) = Len(roster[q]) + 1
      /\ roster'[q][Len(roster[q]) + 1] = a
      /\ \A s \in 1..Len(roster[q]) : roster'[q][s] = roster[q][s]
  BY <1>3, <1>5, <1>6
<1>8. Len(roster[q]) \in Nat
  BY <1>6
<1>9. a \in {roster'[q][s] : s \in 1..Len(roster'[q])}
  BY <1>7, <1>8
<1>10. SeatedIn(q) \subseteq SeatedIn(q)'
  <2> SUFFICES ASSUME NEW s \in 1..Len(roster[q])
               PROVE  roster[q][s] \in {roster'[q][i] : i \in 1..Len(roster'[q])}
    BY DEF SeatedIn
  <2>1. s \in 1..Len(roster'[q]) /\ roster'[q][s] = roster[q][s]
    BY <1>7, <1>8
  <2> QED
    BY <2>1
<1>11. \A p \in Pool : p # q => SeatedIn(p) \subseteq SeatedIn(p)'
  BY <1>5 DEF SeatedIn
<1> QED
  BY <1>1, <1>2, <1>5, <1>7, <1>9, <1>10, <1>11

LEMMA JoinKeeps == ASSUME LedgerInv, Join PROVE LedgerInv'
<1>1. IInv' /\ Running /\ group' = group /\ leg' = leg + 1 /\ UNCHANGED <<usdc, saved>>
  BY JoinStep DEF LedgerInv, Join
<1>2. PICK q : q = group[leg].pool
  OBVIOUS
<1>3. KeptAreSeated'
  <2>1. \A p \in Pool : Kept(p)' = Kept(p)
    BY <1>1 DEF Kept
  <2>2. \A p \in Pool : SeatedIn(p) \subseteq SeatedIn(p)'
    BY <1>2, JoinSeats
  <2> QED
    BY <2>1, <2>2 DEF LedgerInv, KeptAreSeated
<1>4. NoneOverfull'
  <2> SUFFICES ASSUME NEW p \in Pool PROVE Len(roster'[p]) <= Seats[p]
    BY <1>1 DEF LedgerInv, NoneOverfull
  <2>1. Seats[p] \in Nat /\ Len(roster[p]) \in Nat /\ Len(roster[p]) <= Seats[p]
    BY GroupAssumption DEF LedgerInv, NoneOverfull, IInv, TypeOK, Rosters
  <2>2. CASE p = q
    BY <1>2, <2>1, <2>2, JoinSeats
  <2>3. CASE p # q
    BY <1>2, <2>1, <2>3, JoinSeats
  <2> QED
    BY <2>2, <2>3
<1>5. JoinersSit'
  <2> SUFFICES ASSUME NEW k \in Executed'
               PROVE  \E p \in Pool : p = group[k].pool /\ group[k].sender \in SeatedIn(p)'
    BY <1>1 DEF JoinersSit
  <2>1. k \in Executed \/ k = leg
    BY <1>1 DEF Executed, LedgerInv, IInv, TypeOK
  <2>2. CASE k \in Executed
    <3>1. PICK p \in Pool : p = group[k].pool /\ group[k].sender \in SeatedIn(p)
      BY <2>2 DEF LedgerInv, JoinersSit
    <3>2. SeatedIn(p) \subseteq SeatedIn(p)'
      BY <1>2, JoinSeats
    <3> QED
      BY <3>1, <3>2
  <2>3. CASE k = leg
    <3>1. q \in Pool /\ group[k].sender \in SeatedIn(q)'
      BY <1>2, <2>3, JoinSeats DEF SeatedIn
    <3> QED
      BY <1>2, <2>3, <3>1
  <2> QED
    BY <2>1, <2>2, <2>3
<1>6. Unmoved'
  BY <1>1, OneMoreLeg DEF LedgerInv, Unmoved, Join
<1> QED
  BY <1>1, <1>3, <1>4, <1>5, <1>6 DEF LedgerInv

\* Failed or not, a group that ends leaves what is saved.
LEMMA EndKeeps == ASSUME LedgerInv, Abort \/ Commit PROVE LedgerInv'
<1>1. IInv' /\ Executed' = {}
  BY EndStep DEF LedgerInv, Abort, Commit, Executed
<1>2. usdc' = saved'.usdc /\ roster' = saved'.roster
  BY DEF Abort, Commit
<1>3. KeptAreSeated'
  BY <1>2 DEF KeptAreSeated, Kept, SeatedIn
<1>4. NoneOverfull'
  BY <1>2 DEF Abort, Commit, LedgerInv, NoneOverfull
<1> QED
  BY <1>1, <1>2, <1>3, <1>4 DEF LedgerInv, JoinersSit, Unmoved

LEMMA AroundKeeps == ASSUME LedgerInv, Around \/ UNCHANGED vars PROVE LedgerInv'
<1>1. UNCHANGED <<usdc, roster, group, leg, saved>>
  BY DEF Around, Tick, SetPaused, Expire, Freeze, vars
<1>2. Executed' = Executed /\ (NoneYet("axfer")' <=> NoneYet("axfer"))
        /\ (NoneYet("join")' <=> NoneYet("join"))
  BY <1>1 DEF Executed, NoneYet
<1>3. IInv'
  <2>1. CASE Around
    BY <2>1, AroundStep DEF LedgerInv
  <2>2. CASE UNCHANGED vars
    BY <2>2, NextIInv DEF LedgerInv
  <2> QED
    BY <2>1, <2>2
<1> QED
  BY <1>1, <1>2, <1>3, SeatsUnmoved, JoinersUnmoved DEF LedgerInv, Unmoved

-----------------------------------------------------------------------------
(* The server.                                                             *)

\* What the guards of a boot leave standing of the settings.
LEMMA BootsRight ==
  ASSUME LedgerInv, NEW env, Boots(env)
  PROVE  LET s == LoadSettings(env) IN
           /\ s.app_account = App /\ s.usdc_asa_id = "usdc"
           /\ BeforeAssembly(s)
<1> DEFINE s == LoadSettings(env)
<1>1. BeforeAssembly(s) /\ NetworkApplication(s) /\ AppAccountReady(s, Receives)
  BY DEF Boots, VerifyStartup
<1> HIDE DEF s
<1>2. PICK a \in canReceive : <<s.app_account, s.usdc_asa_id>> = <<a, "usdc">>
  BY <1>1 DEF AppAccountReady, Receives
<1>3. s.app_account \in Account \cup {App} /\ s.usdc_asa_id = "usdc"
  BY <1>2 DEF LedgerInv, IInv, TypeOK
<1>4. s.app_account = ApplicationAddress(s.app_id)
  BY <1>1 DEF NetworkApplication
<1>5. s.app_account = App
  BY <1>3, <1>4, SettlementAssumption DEF ApplicationAddress
<1> QED
  BY <1>1, <1>3, <1>5 DEF s

\* A process that comes up serves from settings that passed every guard.
LEMMA StartServes ==
  ASSUME LedgerInv, NEW env, Start(env)
  PROVE  ServerInv'
<1>1. CASE Boots(env)
  <2>1. server' = Served(env)
    BY <1>1 DEF Start
  <2>2. server'.settings = LoadSettings(env) /\ server'.held = Held(LoadSettings(env))
    BY <2>1 DEF Served
  <2> QED
    BY <1>1, <2>2, BootsRight DEF ServerInv
<1>2. CASE ~Boots(env)
  BY <1>2 DEF Start, Down, ServerInv
<1> QED
  BY <1>1, <1>2

\* What an open reading of the pinned pool says of it, and the quote made of it.
LEMMA QuoteIsSound ==
  ASSUME ServerInv, Up, NEW answers \in BOOLEAN, NEW moment \in Moments,
         PinnedPool(answers, moment) = "open"
  PROVE  /\ Sound(Quoted)
         /\ Quoted.pool \notin expired /\ Len(roster[Quoted.pool]) < Seats[Quoted.pool]
         /\ Deadline[Quoted.pool] > moment
<1>1. Servable(Serving.index_agreement_id, moment)
  BY DEF PinnedPool
<1>2. Quoted.pool = Serving.index_agreement_id /\ Quoted.asset = Serving.usdc_asa_id
        /\ Quoted.payTo = Serving.app_account /\ Quoted.amount = Price[Serving.index_agreement_id]
  BY DEF Quoted, QuoteFor
<1>3. Serving.usdc_asa_id = "usdc" /\ Serving.app_account = App
  BY DEF Up, Serving, ServerInv
<1> QED
  BY <1>1, <1>2, <1>3 DEF Servable, Sound

-----------------------------------------------------------------------------
(* The groups that are built.                                              *)

LEMMA Variants == DOMAIN RoleOrder = {"fee_payer_first", "axfer_first"}
  BY DEF RoleOrder

LEMMA PaymentPlace ==
  PaymentIndex("fee_payer_first") = 2 /\ PaymentIndex("axfer_first") = 1
  BY DEF PaymentIndex, RoleOrder

\* Three legs, of which the call names the place of the transfer.
LEMMA BuiltInOrder ==
  ASSUME NEW c, NEW q, NEW pool
  PROVE  /\ BuildJoinGroup("fee_payer_first", c, q, pool)
              = <<Payment(FeePayer), PaymentTo(c, q), JoinCall(c, pool, 2)>>
         /\ BuildJoinGroup("axfer_first", c, q, pool)
              = <<PaymentTo(c, q), Payment(FeePayer), JoinCall(c, pool, 1)>>
  BY PaymentPlace DEF BuildJoinGroup, RoleOrder

\* The three legs are well formed for a quote the server makes.
LEMMA LegsBuilt ==
  ASSUME NEW c \in Account, NEW q, Sound(q), NEW pool \in Pool, NEW place \in Nat
  PROVE  /\ Payment(FeePayer) \in Leg
         /\ PaymentTo(c, q) \in Leg
         /\ JoinCall(c, pool, place) \in Leg
<1>1. FeePayer \in Account
  BY SettlementAssumption
<1>2. Price[q.pool] \in Nat /\ pool \in Nat
  BY GroupAssumption DEF Sound
<1>3. None + 1 = 0
  BY DEF None
<1>4. q.amount \in Nat /\ q.asset = "usdc" /\ q.payTo = App
  BY <1>2 DEF Sound
<1>5. \A a \in Account : Payment(a) \in Leg
  BY <1>3 DEF Payment, Leg, Kinds
<1>6. PaymentTo(c, q) \in Leg
  <2> DEFINE made(kind, receiver, asset, amount) ==
               [kind |-> kind, sender |-> c, receiver |-> receiver, asset |-> asset,
                amount |-> amount, pool |-> 0, payment |-> 0, args |-> 0]
  <2>1. Payment(c) = made("pay", c, "other", 0)
    BY <1>3 DEF Payment
  <2>2. [Payment(c) EXCEPT !.kind = "axfer"] = made("axfer", c, "other", 0)
    BY <2>1
  <2>3. [made("axfer", c, "other", 0) EXCEPT !.receiver = q.payTo]
          = made("axfer", App, "other", 0)
    BY <1>4
  <2>4. [made("axfer", App, "other", 0) EXCEPT !.asset = q.asset]
          = made("axfer", App, "usdc", 0)
    BY <1>4
  <2>5. [made("axfer", App, "usdc", 0) EXCEPT !.amount = q.amount]
          = made("axfer", App, "usdc", q.amount)
    OBVIOUS
  <2>6. made("axfer", App, "usdc", q.amount) \in Leg
    BY <1>4 DEF Leg, Kinds
  <2>7. PaymentTo(c, q) =
          [[[[Payment(c) EXCEPT !.kind = "axfer"] EXCEPT !.receiver = q.payTo]
              EXCEPT !.asset = q.asset] EXCEPT !.amount = q.amount]
    BY DEF PaymentTo
  <2> HIDE DEF made
  <2> QED
    BY <2>2, <2>3, <2>4, <2>5, <2>6, <2>7
<1>7. JoinCall(c, pool, place) \in Leg
  <2> DEFINE made(kind, receiver, in, payment, args) ==
               [kind |-> kind, sender |-> c, receiver |-> receiver, asset |-> "other",
                amount |-> 0, pool |-> in, payment |-> payment, args |-> args]
             joining == [[Payment(c) EXCEPT !.kind = "join"] EXCEPT !.receiver = App]
  <2>1. Payment(c) = made("pay", c, 0, 0, 0)
    BY <1>3 DEF Payment
  <2>2. joining = made("join", App, 0, 0, 0)
    <3>1. [Payment(c) EXCEPT !.kind = "join"] = made("join", c, 0, 0, 0)
      BY <2>1
    <3>2. [made("join", c, 0, 0, 0) EXCEPT !.receiver = App] = made("join", App, 0, 0, 0)
      OBVIOUS
    <3> QED
      BY <3>1, <3>2
  <2>3. JoinCall(c, pool, place) =
          [[[joining EXCEPT !.pool = pool] EXCEPT !.payment = place] EXCEPT !.args = 3]
    BY DEF JoinCall
  <2> HIDE DEF joining
  <2>4. [joining EXCEPT !.pool = pool] = made("join", App, pool, 0, 0)
    BY <2>2
  <2>5. [made("join", App, pool, 0, 0) EXCEPT !.payment = place]
          = made("join", App, pool, place, 0)
    OBVIOUS
  <2>6. [made("join", App, pool, place, 0) EXCEPT !.args = 3]
          = made("join", App, pool, place, 3)
    OBVIOUS
  <2>7. made("join", App, pool, place, 3) \in Leg
    BY <1>2 DEF Leg, Kinds
  <2> HIDE DEF made
  <2> QED
    BY <2>3, <2>4, <2>5, <2>6, <2>7
<1> QED
  BY <1>1, <1>5, <1>6, <1>7

\* What the builders make pays with the buyer's own money.
LEMMA BuiltIsOwn ==
  ASSUME NEW c \in Account, NEW q, Sound(q), NEW pool \in Pool,
         NEW variant \in DOMAIN RoleOrder
  PROVE  OwnGroup(c, BuildJoinGroup(variant, c, q, pool))
<1> DEFINE f == Payment(FeePayer)
           t == PaymentTo(c, q)
           j(n) == JoinCall(c, pool, n)
<1>1. f \in Leg /\ t \in Leg /\ j(1) \in Leg /\ j(2) \in Leg
  BY LegsBuilt
<1>2. /\ f.kind = "pay" /\ f.sender \in Account /\ t.sender = c
      /\ j(1).kind = "join" /\ j(1).sender = c /\ j(2).kind = "join" /\ j(2).sender = c
  BY SettlementAssumption DEF Payment, PaymentTo, JoinCall
<1> HIDE DEF f, t, j
<1>3. OwnGroup(c, <<f, t, j(2)>>) /\ OwnGroup(c, <<t, f, j(1)>>)
  BY <1>1, <1>2 DEF OwnGroup, Transfers
<1>4. BuildJoinGroup(variant, c, q, pool) \in {<<f, t, j(2)>>, <<t, f, j(1)>>}
  BY Variants, BuiltInOrder DEF f, t, j
<1> QED
  BY <1>3, <1>4

LEMMA PlainIsOwn ==
  ASSUME NEW c \in Account, NEW q, Sound(q)
  PROVE  OwnGroup(c, BuildPlainGroup(c, q))
<1> DEFINE f == Payment(FeePayer)
           t == PaymentTo(c, q)
<1>1. q.pool \in Pool
  BY DEF Sound
<1>2. f \in Leg /\ t \in Leg
  BY <1>1, LegsBuilt
<1>3. f.kind = "pay" /\ f.sender \in Account /\ t.sender = c
  BY SettlementAssumption DEF Payment, PaymentTo
<1>4. BuildPlainGroup(c, q) = <<t, f>>
  BY DEF BuildPlainGroup
<1> HIDE DEF f, t
<1> QED
  BY <1>2, <1>3, <1>4 DEF OwnGroup, Transfers

-----------------------------------------------------------------------------
(* What a conversation may turn into.                                      *)

LEMMA IdlingIs ==
  /\ Conversation(Idling)
  /\ Idling.at = "idle" /\ Idling.group = <<>> /\ Idling.receipt = None
  /\ Idling.input = PlainInput
  /\ PlainInput.query = None /\ PlainInput.body = None /\ PlainInput.read # "ok"
  BY DEF Conversation, Idling, PlainInput

LEMMA EmptyIsOwn == ASSUME NEW c PROVE OwnGroup(c, <<>>)
  BY DEF OwnGroup, Transfers

LEMMA SaidIdling == ASSUME NEW c PROVE Said(c, Idling)
  BY IdlingIs, EmptyIsOwn DEF Said, Priced

LEMMA SaidRefused ==
  ASSUME NEW c, NEW reason
  PROVE  Said(c, Refused(reason)) /\ Refused(reason).at = "refused"
<1>1. Conversation(Refused(reason))
  BY DEF Refused, Idling, Conversation
<1>2. /\ Refused(reason).at = "refused" /\ Refused(reason).group = <<>>
      /\ Refused(reason).receipt = None /\ Refused(reason).input = PlainInput
  BY DEF Refused, Idling
<1> QED
  BY <1>1, <1>2, EmptyIsOwn, IdlingIs DEF Said, Priced

LEMMA SaidOver ==
  ASSUME NEW c, NEW outcome \in {"settled", "unsettled"}, NEW p, p \in Pool \cup {None}
  PROVE  /\ Said(c, Over(outcome, p))
         /\ Over(outcome, p).at = outcome /\ Over(outcome, p).receipt = p
<1>1. Conversation(Over(outcome, p))
  BY DEF Over, Idling, Conversation
<1>2. /\ Over(outcome, p).at = outcome /\ Over(outcome, p).group = <<>>
      /\ Over(outcome, p).receipt = p /\ Over(outcome, p).input = PlainInput
  BY DEF Over, Idling
<1> QED
  BY <1>1, <1>2, EmptyIsOwn, IdlingIs DEF Said, Priced

\* A request that has been paid for, or not, is on its way.
LEMMA SaidOnItsWay ==
  ASSUME NEW c, NEW r, Said(c, r), r.receipt = None, NEW place \in {"asked", "gated"}
  PROVE  Said(c, [r EXCEPT !.at = place]) /\ [r EXCEPT !.at = place].at = place
<1> DEFINE t == [r EXCEPT !.at = place]
<1>1. Conversation(r)
  BY DEF Said
<1>2. /\ Conversation(t) /\ t.at = place /\ t.group = r.group /\ t.receipt = None
      /\ t.input = r.input
  BY <1>1 DEF Conversation
<1> HIDE DEF t
<1>3. Said(c, t)
  BY <1>2 DEF Said, Priced
<1> QED
  BY <1>2, <1>3 DEF t

LEMMA SaidQuoted ==
  ASSUME NEW c, NEW q, Sound(q)
  PROVE  /\ Said(c, [Idling EXCEPT !.at = "quoted", !.quote = q])
         /\ [Idling EXCEPT !.at = "quoted", !.quote = q].at = "quoted"
<1> DEFINE t == [Idling EXCEPT !.at = "quoted", !.quote = q]
<1>1. /\ Conversation(t) /\ t.at = "quoted" /\ t.group = <<>> /\ t.receipt = None
      /\ t.quote = q /\ t.input = PlainInput
  BY DEF Idling, Conversation
<1> HIDE DEF t
<1>2. Said(c, t)
  BY <1>1, EmptyIsOwn, IdlingIs DEF Said
<1> QED
  BY <1>1, <1>2 DEF t

\* A payment the facilitator has verified carries a transfer.
LEMMA SaidVerified ==
  ASSUME NEW c, NEW r, Said(c, r), r.receipt = None, NEW q, Sound(q), PaysQuote(r.group, q)
  PROVE  /\ Said(c, [r EXCEPT !.at = "verified", !.quote = q])
         /\ [r EXCEPT !.at = "verified", !.quote = q].at = "verified"
<1> DEFINE t == [r EXCEPT !.at = "verified", !.quote = q]
<1>1. Conversation(r)
  BY DEF Said
<1>2. /\ Conversation(t) /\ t.at = "verified" /\ t.group = r.group /\ t.receipt = None
      /\ t.quote = q /\ t.input = r.input
  BY <1>1 DEF Conversation
<1> HIDE DEF t
<1>3. Transfers(t.group) # {}
  BY <1>2 DEF PaysQuote, Transfers
<1>4. Said(c, t)
  BY <1>2, <1>3 DEF Said, Priced
<1> QED
  BY <1>2, <1>4 DEF t

\* An answer of 200 is for a group with the call of the quoted pool.
LEMMA SaidAnswered ==
  ASSUME NEW c, NEW r, Said(c, r), r.at = "verified", RequireJoinCall(r.group, r.quote.pool),
         {r.input.query, r.input.body} \subseteq {None, r.quote.pool}
  PROVE  /\ Said(c, [r EXCEPT !.at = "answered", !.receipt = r.quote.pool])
         /\ [r EXCEPT !.at = "answered", !.receipt = r.quote.pool].at = "answered"
<1> DEFINE t == [r EXCEPT !.at = "answered", !.receipt = r.quote.pool]
<1>1. Conversation(r) /\ Sound(r.quote)
  BY DEF Said, Priced
<1>2. /\ Conversation(t) /\ t.at = "answered" /\ t.group = r.group
      /\ t.receipt = r.quote.pool /\ t.quote = r.quote /\ t.input = r.input
  BY <1>1 DEF Conversation
<1> HIDE DEF t
<1>3. Said(c, t)
  BY <1>1, <1>2 DEF Said, Priced, Sound
<1> QED
  BY <1>2, <1>3 DEF t

LEMMA SaidPaid ==
  ASSUME NEW c, NEW r, Said(c, r), r.receipt = None, NEW g, OwnGroup(c, g),
         NEW input, input.read # "ok"
  PROVE  /\ Said(c, [r EXCEPT !.at = "asked", !.group = g, !.input = input])
         /\ [r EXCEPT !.at = "asked", !.group = g, !.input = input].at = "asked"
<1> DEFINE t == [r EXCEPT !.at = "asked", !.group = g, !.input = input]
<1>1. Conversation(r)
  BY DEF Said
<1>2. /\ Conversation(t) /\ t.at = "asked" /\ t.group = g /\ t.receipt = None
      /\ t.input = input
  BY <1>1 DEF Conversation
<1> HIDE DEF t
<1>3. Said(c, t)
  BY <1>2 DEF Said, Priced
<1> QED
  BY <1>2, <1>3 DEF t

LEMMA SaidAsked ==
  ASSUME NEW c, NEW path
  PROVE  /\ Said(c, [Idling EXCEPT !.at = "asked", !.input.path = path])
         /\ [Idling EXCEPT !.at = "asked", !.input.path = path].at = "asked"
<1> DEFINE t == [Idling EXCEPT !.at = "asked", !.input.path = path]
<1>1. /\ Conversation(t) /\ t.at = "asked" /\ t.group = <<>> /\ t.receipt = None
      /\ t.input = [PlainInput EXCEPT !.path = path]
  BY DEF Idling, Conversation
<1>2. [PlainInput EXCEPT !.path = path].read # "ok"
  BY DEF PlainInput
<1> HIDE DEF t
<1>3. Said(c, t)
  BY <1>1, <1>2, EmptyIsOwn DEF Said, Priced
<1> QED
  BY <1>1, <1>3 DEF t

\* What an answer of 200 has looked at.
LEMMA AnsweredOk ==
  ASSUME NEW input, NEW g, NEW id, Answer(input, g, id) = "ok", input.read # "ok"
  PROVE  /\ RequireJoinCall(g, id)
         /\ {input.query, input.body} \subseteq {None, id}
<1>1. IndexAnswer(input, g, id) = "ok"
  BY DEF Answer
<1>2. /\ ~BodyConflict(input) /\ RequestedId(input) \in {None, id}
      /\ RequireJoinCall(g, id)
  BY <1>1 DEF IndexAnswer
<1> QED
  BY <1>2 DEF BodyConflict, RequestedId

-----------------------------------------------------------------------------
(* One step of one client or of the server.                                *)

LEMMA AsLedgerIs ==
  ASSUME SaleInv, UNCHANGED vars
  PROVE  /\ LedgerInv'
         /\ \A p \in Pool : Kept(p)' = Kept(p)
         /\ UNCHANGED <<group, leg>>
<1>1. LedgerInv'
  BY AroundKeeps DEF SaleInv
<1>2. UNCHANGED <<saved, group, leg>>
  BY DEF vars
<1> QED
  BY <1>1, <1>2 DEF Kept

\* A conversation moves on beside the ledger, and does not settle.
LEMMA MovesKeep ==
  ASSUME SaleInv, NEW c \in Client,
         \E r : Said(c, r) /\ r.at \notin {"settling", "settled"} /\ Moves(c, r)
  PROVE  SaleInv'
<1>1. PICK r : Said(c, r) /\ r.at \notin {"settling", "settled"} /\ Moves(c, r)
  OBVIOUS
<1>2. UNCHANGED vars /\ server' = server /\ req' = [req EXCEPT ![c] = r]
  BY <1>1 DEF Moves
<1>3. LedgerInv' /\ ServerInv'
  BY <1>2, AsLedgerIs DEF SaleInv, ServerInv
<1>4. DOMAIN req = Client
  BY DEF SaleInv, Conversations
<1>5. DOMAIN req' = Client /\ req'[c] = r /\ \A d \in Client : d # c => req'[d] = req[d]
  BY <1>2, <1>4
<1>6. Conversations'
  BY <1>1, <1>5 DEF SaleInv, Conversations
<1>7. Settling'
  <2> SUFFICES ASSUME NEW d \in Client, req'[d].at = "settling"
               PROVE  leg' # 0 /\ group' = req'[d].group
    BY DEF Settling, Idle
  <2>1. req'[d] = req[d]
    BY <1>1, <1>5
  <2> QED
    BY <1>2, <2>1, AsLedgerIs DEF SaleInv, Settling, Idle
<1>8. Seated'
  <2> SUFFICES ASSUME NEW d \in Client, req'[d].at = "settled", req'[d].receipt # None
               PROVE  \E p \in Pool : p = req'[d].receipt /\ d \in Kept(p)'
    BY DEF Seated
  <2>1. req'[d] = req[d]
    BY <1>1, <1>5
  <2>2. d \in Kept(req[d].receipt) /\ req[d].receipt \in Pool
    BY <2>1 DEF SaleInv, Seated, Conversations, Said
  <2> QED
    BY <1>2, <2>1, <2>2, AsLedgerIs
<1> QED
  BY <1>3, <1>6, <1>7, <1>8 DEF SaleInv

\* Nobody has a receipt before the handler's answer.
LEMMA NoReceiptYet ==
  ASSUME SaleInv, NEW c \in Client, req[c].at \in {"asked", "gated", "quoted", "verified"}
  PROVE  Said(c, req[c]) /\ req[c].receipt = None
  BY DEF SaleInv, Conversations, Said

LEMMA GateStep ==
  ASSUME SaleInv, NEW c \in Client, NEW answers \in BOOLEAN, NEW moment \in Moments,
         Gate(c, answers, moment)
  PROVE  SaleInv'
<1>1. Said(c, req[c]) /\ req[c].receipt = None
  BY NoReceiptYet DEF Gate
<1>2. CASE Moves(c, [req[c] EXCEPT !.at = "gated"])
  BY <1>1, <1>2, SaidOnItsWay, MovesKeep
<1>3. CASE \E reason : Moves(c, Refused(reason))
  BY <1>3, SaidRefused, MovesKeep
<1> QED
  BY <1>2, <1>3 DEF Gate

LEMMA PriceUnpaidStep ==
  ASSUME SaleInv, NEW c \in Client, NEW answers \in BOOLEAN, NEW moment \in Moments,
         PriceUnpaid(c, answers, moment)
  PROVE  SaleInv'
<1>1. CASE PinnedPool(answers, moment) # "open"
  <2>1. Moves(c, Refused("failed_to_process"))
    BY <1>1 DEF PriceUnpaid
  <2> QED
    BY <2>1, SaidRefused, MovesKeep
<1>2. CASE PinnedPool(answers, moment) = "open"
  <2>1. Moves(c, [Idling EXCEPT !.at = "quoted", !.quote = Quoted])
    BY <1>2 DEF PriceUnpaid
  <2>2. Sound(Quoted)
    BY <1>2, QuoteIsSound DEF PriceUnpaid, SaleInv
  <2> QED
    BY <2>1, <2>2, SaidQuoted, MovesKeep
<1> QED
  BY <1>1, <1>2

LEMMA PricePaidStep ==
  ASSUME SaleInv, NEW c \in Client, NEW answers \in BOOLEAN, NEW moment \in Moments,
         NEW verifies \in BOOLEAN, PricePaid(c, answers, moment, verifies)
  PROVE  SaleInv'
<1>1. Said(c, req[c]) /\ req[c].receipt = None
  BY NoReceiptYet DEF PricePaid
<1>2. CASE \E reason : Moves(c, Refused(reason))
  BY <1>2, SaidRefused, MovesKeep
<1>3. CASE /\ PinnedPool(answers, moment) = "open" /\ PaysQuote(req[c].group, Quoted)
           /\ Moves(c, [req[c] EXCEPT !.at = "verified", !.quote = Quoted])
  <2>1. Sound(Quoted)
    BY <1>3, QuoteIsSound DEF PricePaid, SaleInv
  <2> QED
    BY <1>1, <1>3, <2>1, SaidVerified, MovesKeep
<1> QED
  BY <1>2, <1>3 DEF PricePaid

LEMMA HandleStep == ASSUME SaleInv, NEW c \in Client, Handle(c) PROVE SaleInv'
<1>1. Said(c, req[c]) /\ req[c].receipt = None /\ req[c].at = "verified"
  BY NoReceiptYet DEF Handle
<1>2. CASE \E reason : Moves(c, Refused(reason))
  BY <1>2, SaidRefused, MovesKeep
<1>3. CASE /\ Answer(req[c].input, req[c].group, req[c].quote.pool) = "ok"
           /\ Moves(c, [req[c] EXCEPT !.at = "answered", !.receipt = req[c].quote.pool])
  <2>1. /\ RequireJoinCall(req[c].group, req[c].quote.pool)
        /\ {req[c].input.query, req[c].input.body} \subseteq {None, req[c].quote.pool}
    BY <1>1, <1>3, AnsweredOk DEF Said
  <2> QED
    BY <1>1, <1>3, <2>1, SaidAnswered, MovesKeep
<1> QED
  BY <1>2, <1>3 DEF Handle

LEMMA SettleFailsStep == ASSUME SaleInv, NEW c \in Client, SettleFails(c) PROVE SaleInv'
<1>1. req[c].receipt \in Pool \cup {None}
  BY DEF SaleInv, Conversations, Said
<1>2. Moves(c, Over("unsettled", req[c].receipt))
  BY DEF SettleFails
<1> QED
  BY <1>1, <1>2, SaidOver, MovesKeep

LEMMA AskStep == ASSUME SaleInv, NEW c \in Client, NEW path, Ask(c, path) PROVE SaleInv'
<1>1. Moves(c, [Idling EXCEPT !.at = "asked", !.input.path = path])
  BY DEF Ask
<1> QED
  BY <1>1, SaidAsked, MovesKeep

\* A group paid with is the client's own, whatever the input beside it.
LEMMA Pay402Step ==
  ASSUME SaleInv, NEW c \in Client, NEW g, OwnGroup(c, g), NEW input \in Inputs,
         Pay402(c, g, input)
  PROVE  SaleInv'
<1>1. Said(c, req[c]) /\ req[c].receipt = None
  BY NoReceiptYet DEF Pay402
<1>2. Moves(c, [req[c] EXCEPT !.at = "asked", !.group = g, !.input = input])
  BY DEF Pay402
<1>3. input.read # "ok"
  BY SettlementAssumption
<1>4. PICK q : q = req[c]
  OBVIOUS
<1> DEFINE r == [q EXCEPT !.at = "asked", !.group = g, !.input = input]
<1>5. Said(c, r)
  BY <1>1, <1>3, <1>4, SaidPaid
<1>6. r.at = "asked"
  BY <1>1, <1>4 DEF Said, Conversation
<1> HIDE DEF r
<1> QED
  BY <1>2, <1>4, <1>5, <1>6, MovesKeep DEF r

LEMMA PayStep402 ==
  ASSUME SaleInv, NEW c \in Client, PayByHand(c) \/ PayPlain(c) \/ PayHandmade(c)
  PROVE  SaleInv'
<1>1. c \in Account
  BY SettlementAssumption
<1>2. req[c].at = "quoted" => Sound(req[c].quote)
  BY DEF SaleInv, Conversations, Said, Priced
<1>3. CASE PayByHand(c)
  <2>1. PICK variant \in DOMAIN RoleOrder, pool \in Pool, input \in Inputs :
          Pay402(c, BuildJoinGroup(variant, c, req[c].quote, pool), input)
    BY <1>3 DEF PayByHand
  <2>2. Sound(req[c].quote)
    BY <1>2, <2>1 DEF Pay402
  <2>3. OwnGroup(c, BuildJoinGroup(variant, c, req[c].quote, pool))
    BY <1>1, <2>2, BuiltIsOwn
  <2> QED
    BY <2>1, <2>3, Pay402Step
<1>4. CASE PayPlain(c)
  <2>1. PICK input \in Inputs : Pay402(c, BuildPlainGroup(c, req[c].quote), input)
    BY <1>4 DEF PayPlain
  <2>2. Sound(req[c].quote)
    BY <1>2, <2>1 DEF Pay402
  <2>3. OwnGroup(c, BuildPlainGroup(c, req[c].quote))
    BY <1>1, <2>2, PlainIsOwn
  <2> QED
    BY <2>1, <2>3, Pay402Step
<1>5. CASE PayHandmade(c)
  <2>1. PICK g \in Handmade, input \in Inputs :
          (\A k \in Transfers(g) : g[k].sender = c) /\ Pay402(c, g, input)
    BY <1>5 DEF PayHandmade
  <2>2. g \in Groups
    BY SettlementAssumption
  <2>3. g \in Seq(Leg) /\ \A k \in 1..Len(g) : g[k].sender \in Account
    BY <2>2, GroupAssumption
  <2>4. OwnGroup(c, g)
    BY <2>1, <2>3 DEF OwnGroup, Transfers
  <2> QED
    BY <2>1, <2>4, Pay402Step
<1> QED
  BY <1>3, <1>4, <1>5

LEMMA GiveUpStep == ASSUME SaleInv, NEW c \in Client, GiveUp(c) PROVE SaleInv'
<1>1. Moves(c, Idling)
  BY DEF GiveUp
<1> QED
  BY <1>1, SaidIdling, IdlingIs, MovesKeep

\* Whose group it is, its legs have senders and no seat is lost.
LEMMA OwnBegins ==
  ASSUME LedgerInv, NEW c, NEW g, OwnGroup(c, g), Begin(g)
  PROVE  LedgerInv' /\ leg' = 1 /\ group' = g /\ Idle /\ \A p \in Pool : Kept(p)' = Kept(p)
<1>1. LedgerInv'
  BY BeginKeeps DEF OwnGroup
<1> QED
  BY <1>1 DEF Begin, Kept

\* A group begins, and one conversation waits for it.
LEMMA BeginsKeep ==
  ASSUME SaleInv, NEW c \in Client, NEW g, Begin(g), LedgerInv', server' = server,
         NEW r, Said(c, r), r.at \in {"settling", "direct"},
         r.at = "settling" => g = r.group, req' = [req EXCEPT ![c] = r]
  PROVE  SaleInv'
<1>1. leg' = 1 /\ group' = g /\ Idle /\ \A p \in Pool : Kept(p)' = Kept(p)
  BY DEF Begin, Kept
<1>2. ServerInv'
  BY DEF SaleInv, ServerInv
<1>3. DOMAIN req' = Client /\ req'[c] = r /\ \A d \in Client : d # c => req'[d] = req[d]
  BY DEF SaleInv, Conversations
<1>4. Conversations'
  BY <1>3 DEF SaleInv, Conversations
<1>5. \A d \in Client : req[d].at # "settling"
  BY <1>1 DEF SaleInv, Settling
<1>6. Settling'
  BY <1>1, <1>3, <1>5 DEF Settling, Idle
<1>7. Seated'
  <2> SUFFICES ASSUME NEW d \in Client, req'[d].at = "settled", req'[d].receipt # None
               PROVE  \E p \in Pool : p = req'[d].receipt /\ d \in Kept(p)'
    BY DEF Seated
  <2>1. req'[d] = req[d]
    BY <1>3
  <2>2. d \in Kept(req[d].receipt) /\ req[d].receipt \in Pool
    BY <2>1 DEF SaleInv, Seated, Conversations, Said
  <2> QED
    BY <1>1, <2>1, <2>2
<1> QED
  BY <1>2, <1>4, <1>6, <1>7 DEF SaleInv

LEMMA SettleStep == ASSUME SaleInv, NEW c \in Client, Settle(c) PROVE SaleInv'
<1> DEFINE r == [req[c] EXCEPT !.at = "settling"]
<1>1. req' = [req EXCEPT ![c] = r]
  BY DEF Settle, SaleInv, Conversations
<1>2. Said(c, req[c]) /\ req[c].at = "answered"
  BY DEF SaleInv, Conversations, Settle
<1>3. /\ Conversation(r) /\ r.at = "settling" /\ r.group = req[c].group
      /\ r.receipt = req[c].receipt /\ r.quote = req[c].quote /\ r.input = req[c].input
  BY <1>2 DEF Said, Conversation
<1> HIDE DEF r
<1>4. Said(c, r)
  BY <1>2, <1>3 DEF Said, Priced
<1>5. Begin(req[c].group) /\ server' = server
  BY DEF Settle
<1>6. LedgerInv'
  BY <1>2, <1>5, OwnBegins DEF SaleInv, Said
<1> QED
  BY <1>1, <1>3, <1>4, <1>5, <1>6, BeginsKeep

LEMMA SettleDirectStep ==
  ASSUME SaleInv, NEW c \in Client, NEW g \in Direct, SettleDirect(c, g)
  PROVE  SaleInv'
<1> DEFINE r == [Idling EXCEPT !.at = "direct"]
<1>1. req' = [req EXCEPT ![c] = r] /\ Begin(g) /\ server' = server
  BY DEF SettleDirect
<1>2. g \in Groups
  BY SettlementAssumption
<1>3. LedgerInv'
  BY <1>1, <1>2, GroupAssumption, BeginKeeps DEF SaleInv
<1>4. Conversation(r) /\ r.at = "direct" /\ r.group = <<>> /\ r.receipt = None
        /\ r.input = PlainInput
  BY DEF Idling, Conversation
<1> HIDE DEF r
<1>5. Said(c, r)
  BY <1>4, EmptyIsOwn, IdlingIs DEF Said, Priced
<1> QED
  BY <1>1, <1>3, <1>4, <1>5, BeginsKeep

\* Numbers have a least one.
LEMMA MinIsLeast ==
  ASSUME NEW S, S \subseteq Nat, S # {}
  PROVE  Min(S) \in S /\ \A n \in S : Min(S) <= n
  <1> DEFINE R == {ss \in Nat \X Nat : ss[1] < ss[2]}
  <1>0. IsWellFoundedOn(R, Nat)
    BY NatLessThanWellFounded, Zenon DEF OpToRel
  <1> HIDE DEF R
  <1>1. PICK m \in S : \A n \in S : ~ (<<n, m>> \in R)
    BY <1>0, WFMin, Zenon
  <1>2. \A n \in S : m <= n
    <2> SUFFICES ASSUME NEW n \in S PROVE m <= n
      OBVIOUS
    <2>1. n \in Nat /\ m \in Nat
      OBVIOUS
    <2>2. <<n, m>> \in R <=> n < m
      BY <2>1 DEF R
    <2> QED
      BY <1>1, <2>1, <2>2
  <1> QED
    BY <1>2 DEF Min

\* The call a receipt was given for is one of the group's, and the client's own.
LEMMA BuyerJoins ==
  ASSUME NEW c, NEW r, Said(c, r), r.at = "settling"
  PROVE  \E k \in 1..Len(r.group) :
           /\ r.group[k].kind = "join" /\ r.group[k].pool = r.receipt
           /\ r.group[k].sender = c
<1> DEFINE g == r.group
<1>1. g \in Seq(Leg) /\ OwnGroup(c, g) /\ RequireJoinCall(g, r.receipt) /\ Transfers(g) # {}
  BY DEF Said, OwnGroup
<1>2. Joins(g) \subseteq 1..Len(g) /\ Transfers(g) \subseteq 1..Len(g) /\ Len(g) \in Nat
  BY <1>1 DEF Joins, Transfers
<1> HIDE DEF g
<1>3. PICK k : k \in Joins(g)
  <2>1. IsFiniteSet(1..Len(g))
    BY <1>2, FS_Interval
  <2>2. IsFiniteSet(Joins(g))
    BY <1>2, <2>1, FS_Subset
  <2>3. Cardinality(Joins(g)) = 1
    BY <1>1 DEF RequireJoinCall
  <2> QED
    BY <2>2, <2>3, FS_Singleton
<1>4. g[k].kind = "join" /\ g[k].pool = r.receipt /\ g[k].sender = g[Min(Transfers(g))].sender
  BY <1>1, <1>3 DEF RequireJoinCall, Joins
<1>5. Min(Transfers(g)) \in Transfers(g)
  <2>1. Transfers(g) \subseteq Nat
    BY <1>2
  <2> QED
    BY <1>1, <2>1, MinIsLeast
<1>6. g[Min(Transfers(g))].sender = c
  BY <1>1, <1>5 DEF OwnGroup, Transfers
<1> QED
  BY <1>2, <1>3, <1>4, <1>6 DEF g

\* What a client hears of a group that ends.
LEMMA ConcludedKeeps ==
  ASSUME SaleInv, NEW outcome \in {"settled", "unsettled"}, req' = Concluded(outcome)
  PROVE  /\ Conversations'
         /\ \A c \in Client : req'[c].at # "settling"
         /\ \A c \in Client : req'[c].at = "settled" =>
              \/ req'[c] = req[c]
              \/ /\ req[c].at = "settling" /\ outcome = "settled"
                 /\ req'[c].receipt = req[c].receipt
<1>1. DOMAIN req' = Client
  BY DEF Concluded
<1> SUFFICES ASSUME NEW c \in Client
             PROVE  /\ Said(c, req'[c]) /\ req'[c].at # "settling"
                    /\ req'[c].at = "settled" =>
                         \/ req'[c] = req[c]
                         \/ /\ req[c].at = "settling" /\ outcome = "settled"
                            /\ req'[c].receipt = req[c].receipt
  BY <1>1 DEF Conversations
<1>2. Said(c, req[c])
  BY DEF SaleInv, Conversations
<1>3. CASE req[c].at = "settling"
  <2>1. req'[c] = Over(outcome, req[c].receipt)
    BY <1>3 DEF Concluded
  <2>2. req[c].receipt \in Pool \cup {None}
    BY <1>2 DEF Said
  <2> QED
    BY <1>3, <2>1, <2>2, SaidOver
<1>4. CASE req[c].at = "direct"
  <2>1. req'[c] = Idling
    BY <1>4 DEF Concluded
  <2> QED
    BY <2>1, SaidIdling, IdlingIs
<1>5. CASE req[c].at \notin {"settling", "direct"}
  <2>1. req'[c] = req[c]
    BY <1>5 DEF Concluded
  <2>2. Said(c, req'[c])
    BY <1>2, <2>1
  <2>3. req'[c].at # "settling"
    BY <1>5, <2>1
  <2> QED
    BY <2>1, <2>2, <2>3
<1> QED
  BY <1>3, <1>4, <1>5

\* The group is through: every join of it was executed, the buyer's among them.
LEMMA CommitStep ==
  ASSUME SaleInv, Commit, req' = Concluded("settled"), server' = server
  PROVE  SaleInv'
<1>1. LedgerInv' /\ ServerInv' /\ Conversations'
  BY EndKeeps, ConcludedKeeps DEF SaleInv, ServerInv
<1>2. Settling'
  BY ConcludedKeeps DEF Settling
<1>3. Seated'
  <2> SUFFICES ASSUME NEW c \in Client, req'[c].at = "settled", req'[c].receipt # None
               PROVE  \E p \in Pool : p = req'[c].receipt /\ c \in Kept(p)'
    BY DEF Seated
  <2>0. \A p \in Pool : Kept(p)' = SeatedIn(p)
    BY DEF Commit, Kept, SeatedIn
  <2>1. CASE req'[c] = req[c]
    <3>1. req[c].receipt \in Pool /\ c \in Kept(req[c].receipt)
      BY <2>1 DEF SaleInv, Seated, Conversations, Said
    <3> QED
      BY <2>0, <2>1, <3>1 DEF SaleInv, LedgerInv, KeptAreSeated
  <2>2. CASE req[c].at = "settling" /\ req'[c].receipt = req[c].receipt
    <3>1. group = req[c].group /\ Said(c, req[c])
      BY <2>2 DEF SaleInv, Settling, Conversations
    <3>2. PICK k \in 1..Len(group) : /\ group[k].kind = "join"
                                     /\ group[k].pool = req[c].receipt
                                     /\ group[k].sender = c
      BY <2>2, <3>1, BuyerJoins
    <3>3. k \in Executed
      BY <3>2 DEF Commit, Executed, SaleInv, LedgerInv, IInv, TypeOK
    <3>4. PICK p \in Pool : p = group[k].pool /\ group[k].sender \in SeatedIn(p)
      BY <3>3 DEF SaleInv, LedgerInv, JoinersSit
    <3> QED
      BY <2>0, <2>2, <3>2, <3>4
  <2> QED
    BY <2>1, <2>2, ConcludedKeeps
<1> QED
  BY <1>1, <1>2, <1>3 DEF SaleInv

\* The group is undone, and nobody who was seated before it loses the seat.
LEMMA AbortStep ==
  ASSUME SaleInv, Abort, req' = Concluded("unsettled"), server' = server
  PROVE  SaleInv'
<1>1. LedgerInv' /\ ServerInv' /\ Conversations'
  BY EndKeeps, ConcludedKeeps DEF SaleInv, ServerInv
<1>2. Settling'
  BY ConcludedKeeps DEF Settling
<1>3. Seated'
  <2> SUFFICES ASSUME NEW c \in Client, req'[c].at = "settled", req'[c].receipt # None
               PROVE  \E p \in Pool : p = req'[c].receipt /\ c \in Kept(p)'
    BY DEF Seated
  <2>1. req'[c] = req[c]
    BY ConcludedKeeps
  <2>2. \A p \in Pool : Kept(p)' = Kept(p)
    BY DEF Abort, Kept
  <2>3. req[c].receipt \in Pool /\ c \in Kept(req[c].receipt)
    BY <2>1 DEF SaleInv, Seated, Conversations, Said
  <2> QED
    BY <2>1, <2>2, <2>3
<1> QED
  BY <1>1, <1>2, <1>3 DEF SaleInv

\* A restart answers nobody, and takes no seat from anybody.
LEMMA StartStep == ASSUME SaleInv, NEW env, Start(env) PROVE SaleInv'
<1>1. UNCHANGED vars /\ Idle
  BY DEF Start
<1>2. LedgerInv' /\ ServerInv'
  BY <1>1, AsLedgerIs, StartServes DEF SaleInv
<1>3. DOMAIN req' = Client
  BY DEF Start
<1>4. \A c \in Client : /\ Said(c, req'[c])
                        /\ req'[c].at # "settling"
                        /\ req'[c].at = "settled" => req'[c] = req[c]
  <2> SUFFICES ASSUME NEW c \in Client
               PROVE  /\ Said(c, req'[c]) /\ req'[c].at # "settling"
                      /\ req'[c].at = "settled" => req'[c] = req[c]
    OBVIOUS
  <2>1. Said(c, req[c]) /\ req[c].at # "settling"
    BY <1>1 DEF SaleInv, Conversations, Settling
  <2>2. CASE req[c].at = "answered"
    <3>1. req'[c] = Over("unsettled", req[c].receipt)
      BY <2>2 DEF Start
    <3>2. req[c].receipt \in Pool \cup {None}
      BY <2>1 DEF Said
    <3> QED
      BY <3>1, <3>2, SaidOver
  <2>3. CASE req[c].at \in InServer \ {"answered"}
    <3>1. req'[c] = Refused("no_answer")
      BY <2>3 DEF Start
    <3> QED
      BY <3>1, SaidRefused
  <2>4. CASE req[c].at \notin InServer
    <3>1. req'[c] = req[c]
      BY <2>4 DEF Start, InServer
    <3>2. Said(c, req'[c])
      BY <2>1, <3>1
    <3> QED
      BY <2>1, <3>1, <3>2
  <2> QED
    BY <2>2, <2>3, <2>4 DEF InServer
<1>5. Conversations' /\ Settling'
  BY <1>3, <1>4 DEF Conversations, Settling
<1>6. Seated'
  <2> SUFFICES ASSUME NEW c \in Client, req'[c].at = "settled", req'[c].receipt # None
               PROVE  \E p \in Pool : p = req'[c].receipt /\ c \in Kept(p)'
    BY DEF Seated
  <2>1. req'[c] = req[c]
    BY <1>4
  <2>2. req[c].receipt \in Pool /\ c \in Kept(req[c].receipt)
    BY <2>1 DEF SaleInv, Seated, Conversations, Said
  <2> QED
    BY <1>1, <2>1, <2>2, AsLedgerIs
<1> QED
  BY <1>2, <1>5, <1>6 DEF SaleInv

\* The ledger moves, and no conversation does.
LEMMA BesideStep ==
  ASSUME SaleInv, LedgerInv', UNCHANGED <<server, req>>, saved' = saved,
         Idle \/ (group' = group /\ leg' \in {leg, leg + 1})
  PROVE  SaleInv'
<1>1. ServerInv' /\ Conversations'
  BY DEF SaleInv, ServerInv, Conversations
<1>2. Settling'
  <2>1. CASE Idle
    BY <2>1 DEF SaleInv, Settling
  <2>2. CASE group' = group /\ leg' \in {leg, leg + 1}
    <3>1. leg \in Nat
      BY DEF SaleInv, LedgerInv, IInv, TypeOK
    <3> QED
      BY <2>2, <3>1 DEF SaleInv, Settling, Idle
  <2> QED
    BY <2>1, <2>2
<1>3. Seated'
  <2> SUFFICES ASSUME NEW c \in Client, req[c].at = "settled", req[c].receipt # None
               PROVE  \E p \in Pool : p = req[c].receipt /\ c \in Kept(p)'
    BY DEF Seated
  <2>1. req[c].receipt \in Pool /\ c \in Kept(req[c].receipt)
    BY DEF SaleInv, Seated, Conversations, Said
  <2>2. \A p \in Pool : Kept(p)' = Kept(p)
    BY DEF Kept
  <2> QED
    BY <2>1, <2>2
<1> QED
  BY <1>1, <1>2, <1>3 DEF SaleInv

LEMMA LegsStep ==
  ASSUME SaleInv, Pay \/ Transfer \/ Join, UNCHANGED <<server, req>>
  PROVE  SaleInv'
<1>1. LedgerInv'
  BY PayKeeps, TransferKeeps, JoinKeeps DEF SaleInv
<1>2. saved' = saved /\ group' = group /\ leg' = leg + 1
  BY DEF Pay, Transfer, Join
<1> QED
  BY <1>1, <1>2, BesideStep

LEMMA OthersStep ==
  ASSUME SaleInv, Around \/ \E g \in Rivals : Begin(g), UNCHANGED <<server, req>>
  PROVE  SaleInv'
<1>1. CASE Around
  <2>1. group' = group /\ leg' = leg /\ saved' = saved
    BY <1>1 DEF Around, Tick, SetPaused, Expire, Freeze
  <2>2. LedgerInv'
    BY <1>1, AroundKeeps DEF SaleInv
  <2> QED
    BY <2>1, <2>2, BesideStep
<1>2. CASE \E g \in Rivals : Begin(g)
  <2>1. PICK g \in Rivals : Begin(g)
    BY <1>2
  <2>2. g \in Groups
    BY SettlementAssumption
  <2>3. LedgerInv'
    BY <2>1, <2>2, GroupAssumption, BeginKeeps DEF SaleInv
  <2>4. Idle
    BY <2>1 DEF Begin
  <2>5. saved' = saved
    BY <2>1 DEF Begin
  <2> QED
    BY <2>3, <2>4, <2>5, BesideStep
<1> QED
  BY <1>1, <1>2

LEMMA SettlementInit == InitSettlement => SaleInv
<1> SUFFICES ASSUME InitSettlement PROVE SaleInv
  OBVIOUS
<1>1. LedgerInv /\ ServerInv
  BY InitLedger DEF InitSettlement, ServerInv, Down
<1>2. DOMAIN req = Client /\ \A c \in Client : req[c] = Idling
  BY DEF InitSettlement
<1>3. Conversations
  BY <1>2, SaidIdling DEF Conversations
<1>4. Settling /\ Seated
  BY <1>2, IdlingIs DEF Settling, Seated
<1> QED
  BY <1>1, <1>3, <1>4 DEF SaleInv

LEMMA SettlementNext == SaleInv /\ [NextSettlement]_allVars => SaleInv'
<1> SUFFICES ASSUME SaleInv, [NextSettlement]_allVars PROVE SaleInv'
  OBVIOUS
<1>1. CASE ChainStep
  BY <1>1, LegsStep, CommitStep, AbortStep DEF ChainStep
<1>2. ASSUME NEW c \in Client, ServerStep(c) PROVE SaleInv'
  BY <1>2, GateStep, PriceUnpaidStep, PricePaidStep, HandleStep, SettleStep, SettleFailsStep
     DEF ServerStep
<1>3. ASSUME NEW c \in Client, ClientStep(c) PROVE SaleInv'
  BY <1>3, AskStep, PayStep402, GiveUpStep, SettleDirectStep DEF ClientStep
<1>4. CASE \E env \in Env : Start(env)
  BY <1>4, StartStep
<1>5. CASE (Around \/ \E g \in Rivals : Begin(g)) /\ UNCHANGED <<server, req>>
  BY <1>5, OthersStep
<1>6. CASE UNCHANGED allVars
  <2>1. UNCHANGED vars /\ UNCHANGED <<server, req>>
    BY <1>6 DEF allVars
  <2>2. group' = group /\ leg' = leg /\ saved' = saved
    BY <2>1 DEF vars
  <2>3. LedgerInv'
    BY <2>1, AroundKeeps DEF SaleInv
  <2> QED
    BY <2>1, <2>2, <2>3, BesideStep
<1> QED
  BY <1>1, <1>2, <1>3, <1>4, <1>5, <1>6 DEF NextSettlement

\* The invariant holds in every state of a sale.
LEMMA SettlementInvariance == SpecSettlement => []SaleInv
  BY SettlementInit, SettlementNext, PTL DEF SpecSettlement

-----------------------------------------------------------------------------
(* The money.                                                              *)
(*                                                                         *)
(* While a group runs the application may hold more than its seats are     *)
(* worth, or less: a transfer may stand before the join that names it or   *)
(* after it. What the invariant carries is the difference, leg by leg, and *)
(* that nothing is left of it when the group is through.                   *)

\* A transfer of USDC to the application.
Deposits(t) == t.kind = "axfer" /\ t.asset = "usdc" /\ t.receiver = App

\* Every deposit of the group is named by a join of it.
Backed(g) ==
  \A k \in 1..Len(g) :
    Deposits(g[k]) => \E j \in 1..Len(g) : g[j].kind = "join" /\ g[j].payment = k

\* The price of the seats of a roster.
Sold(r) == SumFunction([p \in Pool |-> Price[p] * Len(r[p])])

\* Of each leg, what it has brought, and what the joins executed make of it.
Brought ==
  [k \in 1..Len(group) |-> IF k < leg /\ Deposits(group[k]) THEN group[k].amount ELSE 0]

Claimed ==
  [k \in 1..Len(group) |->
     IF \E j \in Executed : group[j].payment = k THEN group[k].amount ELSE 0]

\* What the application has more than when the last group ended, beside the
\* seats sold since, is what the group has brought and no join has named yet.
Accounted ==
  usdc[App] + SumFunction(Claimed) + Sold(saved.roster)
    = Sold(roster) + SumFunction(Brought) + saved.usdc[App]

MoneyInv == SaleInv /\ Accounted

\* The worth of a roster is a number, and another number for one seat more.
LEMMA SoldTypes ==
  ASSUME NEW r \in Rosters
  PROVE  /\ IsFiniteSet(Pool) /\ \A p \in Pool : Price[p] * Len(r[p]) \in Int
         /\ Sold(r) \in Int
<1> DEFINE worth == [p \in Pool |-> Price[p] * Len(r[p])]
<1>1. \A p \in Pool : Price[p] \in Nat /\ Len(r[p]) \in Nat
  BY GroupAssumption DEF Rosters
<1>2. IsFiniteSet(Pool) /\ DOMAIN worth = Pool
  BY GroupAssumption
<1>3. \A p \in Pool : Price[p] * Len(r[p]) \in Int
  BY <1>1
<1>4. \A p \in Pool : worth[p] \in Int
  BY <1>3
<1> HIDE DEF worth
<1>5. SumFunction(worth) \in Int
  BY <1>2, <1>4, SumIsInt DEF SumFunction
<1> QED
  BY <1>2, <1>3, <1>5 DEF Sold, worth

LEMMA SoldOneMore ==
  ASSUME NEW r \in Rosters, NEW q \in Rosters, NEW x \in Pool,
         Len(q[x]) = Len(r[x]) + 1, \A p \in Pool : p # x => q[p] = r[p]
  PROVE  Sold(q) = Sold(r) + Price[x]
<1> DEFINE f == [p \in Pool |-> Price[p] * Len(r[p])]
           g == [p \in Pool |-> Price[p] * Len(q[p])]
<1>1. IsFiniteSet(DOMAIN f) /\ DOMAIN g = DOMAIN f /\ x \in DOMAIN f
  BY SoldTypes
<1>2. \A p \in DOMAIN f : f[p] \in Int /\ g[p] \in Int /\ (p # x => g[p] = f[p])
  BY SoldTypes
<1>3. g[x] = f[x] + Price[x]
  <2>1. Price[x] \in Nat /\ Len(r[x]) \in Nat
    BY GroupAssumption DEF Rosters
  <2>2. \A m, n \in Nat : m * (n + 1) = m * n + m
    OBVIOUS
  <2>3. Price[x] * (Len(r[x]) + 1) = Price[x] * Len(r[x]) + Price[x]
    BY <2>1, <2>2
  <2> QED
    BY <2>3
<1>4. Sold(r) = SumFunction(f) /\ Sold(q) = SumFunction(g)
  BY DEF Sold
<1>5. Sold(r) \in Int /\ f[x] \in Int /\ Price[x] \in Int
  BY <1>2, SoldTypes, GroupAssumption
<1> HIDE DEF f, g
<1>6. SumFunction(g) = SumFunction(f) + g[x] - f[x]
  BY <1>1, <1>2, SumChanged
<1> QED
  BY <1>3, <1>4, <1>5, <1>6

\* Of a group's legs every reckoning is of numbers.
LEMMA LegsTypes ==
  ASSUME IInv
  PROVE  /\ IsFiniteSet(1..Len(group))
         /\ \A k \in 1..Len(group) : group[k].amount \in Nat
         /\ \A k \in 1..Len(group) : Brought[k] \in Int /\ Claimed[k] \in Int
         /\ SumFunction(Brought) \in Int /\ SumFunction(Claimed) \in Int
<1>1. IsFiniteSet(1..Len(group))
  BY FS_Interval DEF IInv, TypeOK
<1>2. \A k \in 1..Len(group) : group[k].amount \in Nat
  <2>1. \A k \in 1..Len(group) : group[k] \in Leg
    BY DEF IInv, TypeOK
  <2> QED
    BY <2>1 DEF Leg
<1>3. \A k \in 1..Len(group) : Brought[k] \in Int /\ Claimed[k] \in Int
  BY <1>2 DEF Brought, Claimed
<1>4. DOMAIN Brought = 1..Len(group) /\ DOMAIN Claimed = 1..Len(group)
  BY DEF Brought, Claimed
<1>5. SumFunction(Brought) \in Int /\ SumFunction(Claimed) \in Int
  BY <1>1, <1>3, <1>4, SumIsInt DEF SumFunction
<1> QED
  BY <1>1, <1>2, <1>3, <1>5

\* Before its first leg a group has brought nothing, and afterwards there is none.
LEMMA NothingBrought ==
  ASSUME leg \in {0, 1}, IsFiniteSet(1..Len(group)), Executed = {}
  PROVE  SumFunction(Brought) = 0 /\ SumFunction(Claimed) = 0
<1>1. \A k \in 1..Len(group) : Brought[k] = 0 /\ Claimed[k] = 0
  BY DEF Brought, Claimed
<1>2. DOMAIN Brought = 1..Len(group) /\ DOMAIN Claimed = 1..Len(group)
  BY DEF Brought, Claimed
<1> QED
  BY <1>1, <1>2, SumOfZeros DEF SumFunction

\* A transfer brings the application its amount, if it is one to it.
LEMMA TransferAccounted ==
  ASSUME SaleInv, Accounted, Transfer
  PROVE  Accounted'
<1> DEFINE t == group[leg]
<1>1. IInv /\ TypeOK /\ Running /\ t \in Leg /\ t.sender \in Account
  BY CurrentLeg DEF SaleInv, LedgerInv, IInv, Transfer
<1>2. group' = group /\ leg' = leg + 1 /\ roster' = roster /\ saved' = saved
      /\ t.kind = "axfer" /\ TransferPasses(t) /\ usdc' = Moved(t)
  BY DEF Transfer
<1>3. Executed' = Executed
  BY <1>1, <1>2, SameExecuted
<1>4. Claimed' = Claimed
  BY <1>2, <1>3 DEF Claimed
<1>5. leg \in 1..Len(group) /\ Len(group) \in Nat
  BY <1>1 DEF Running, TypeOK
<1>6. /\ DOMAIN Brought = 1..Len(group) /\ DOMAIN Brought' = 1..Len(group)
      /\ Brought[leg] = 0 /\ Brought'[leg] = (IF Deposits(t) THEN t.amount ELSE 0)
      /\ \A k \in 1..Len(group) : k # leg => Brought'[k] = Brought[k]
  <2>1. \A k \in 1..Len(group) : k # leg => (k < leg + 1 <=> k < leg)
    BY <1>5
  <2>2. ~(leg < leg) /\ leg < leg + 1
    BY <1>5
  <2> QED
    BY <1>2, <1>5, <2>1, <2>2 DEF Brought
<1>7. usdc'[App] = usdc[App] + Brought'[leg]
  <2>1. usdc \in [Account \cup {App} -> Nat] /\ t.sender # App /\ t.receiver \in Account \cup {App}
        /\ t.amount \in Nat
    BY <1>1, GroupAssumption DEF TypeOK, Balances, Leg
  <2>2. CASE Deposits(t)
    <3>1. usdc' = [usdc EXCEPT ![t.sender] = @ - t.amount, ![App] = @ + t.amount]
      BY <1>2, <2>1, <2>2 DEF Moved, Deposits
    <3> QED
      BY <1>6, <2>1, <2>2, <3>1
  <2>3. CASE ~Deposits(t)
    <3>1. t.asset # "usdc" \/ t.receiver # App
      BY <1>2, <2>3 DEF Deposits
    <3>2. usdc'[App] = usdc[App]
      BY <1>2, <2>1, <3>1 DEF Moved
    <3> QED
      BY <1>6, <2>1, <2>3, <3>2
  <2> QED
    BY <2>2, <2>3
<1>8. SumFunction(Brought') = SumFunction(Brought) + Brought'[leg] - Brought[leg]
  <2>1. \A k \in 1..Len(group) : Brought[k] \in Int
    BY <1>1, LegsTypes
  <2>2. Brought'[leg] \in Int
    BY <1>1, <1>6 DEF Leg
  <2>3. \A k \in 1..Len(group) : Brought[k] \in Int /\ Brought'[k] \in Int
    BY <1>6, <2>1, <2>2
  <2>4. IsFiniteSet(1..Len(group))
    BY <1>1, LegsTypes
  <2> QED
    BY <1>5, <1>6, <2>3, <2>4, SumChanged
<1>9. /\ SumFunction(Brought) \in Int /\ SumFunction(Claimed) \in Int
      /\ Sold(roster) \in Int /\ usdc[App] \in Int /\ Brought'[leg] \in Int
      /\ Sold(saved.roster) \in Int /\ saved.usdc[App] \in Int
  <2>1. Brought'[leg] \in Int
    BY <1>1, <1>6 DEF Leg
  <2>2. usdc[App] \in Int /\ saved.usdc[App] \in Int
    BY <1>1 DEF TypeOK, Balances
  <2>3. Sold(roster) \in Int /\ Sold(saved.roster) \in Int
    BY <1>1, SoldTypes DEF TypeOK
  <2> QED
    BY <1>1, <2>1, <2>2, <2>3, LegsTypes
<1> HIDE DEF t
<1>11. usdc[App] + SumFunction(Claimed) + Sold(saved.roster)
         = Sold(roster) + SumFunction(Brought) + saved.usdc[App]
  BY DEF Accounted
<1>12. usdc'[App] + SumFunction(Claimed) + Sold(saved.roster)
         = Sold(roster) + SumFunction(Brought') + saved.usdc[App]
  BY <1>6, <1>7, <1>8, <1>9, <1>11
<1> QED
  BY <1>2, <1>4, <1>12 DEF Accounted

\* A join takes the amount of the transfer it names, and no other join has.
LEMMA JoinAccounted ==
  ASSUME SaleInv, Accounted, Join
  PROVE  Accounted'
<1> DEFINE n == group[leg].payment
           x == group[leg].pool
<1>1. IInv /\ TypeOK /\ Running /\ LedgerInv /\ IInv'
  BY JoinStep DEF SaleInv, LedgerInv, IInv, Join
<1>2. /\ group' = group /\ leg' = leg + 1 /\ usdc' = usdc /\ saved' = saved
      /\ JoinPasses(group, leg) /\ group[leg].kind = "join"
  BY DEF Join
<1>3. /\ n \in 1..Len(group) /\ Deposits(group[n]) /\ group[n].amount = Price[x]
      /\ x \in Pool /\ Price[x] \in Nat
  BY <1>2, GroupAssumption DEF JoinPasses, Pays, Deposits, Open
<1>4. Executed' = Executed \cup {leg} /\ leg \notin Executed
  <2>1. leg \in 1..Len(group) /\ Len(group) \in Nat
    BY <1>1 DEF Running, TypeOK
  <2>2. \A k \in 1..Len(group) : k < leg + 1 <=> (k < leg \/ k = leg)
    BY <2>1
  <2> QED
    BY <1>2, <2>1, <2>2 DEF Executed
<1>5. \A j \in Executed : group[j].payment # n
  <2> SUFFICES ASSUME NEW j \in Executed, group[j].payment = n PROVE FALSE
    OBVIOUS
  <2>1. j \in Executed' /\ leg \in Executed' /\ j < leg
    BY <1>4 DEF Executed
  <2> QED
    BY <1>1, <1>2, <2>1 DEF IInv, Apart
<1>6. /\ DOMAIN Claimed = 1..Len(group) /\ DOMAIN Claimed' = 1..Len(group)
      /\ Claimed[n] = 0 /\ Claimed'[n] = Price[x]
      /\ \A k \in 1..Len(group) : k # n => Claimed'[k] = Claimed[k]
  BY <1>2, <1>3, <1>4, <1>5 DEF Claimed
<1>7. Brought' = Brought
  <2>1. leg \in 1..Len(group) /\ Len(group) \in Nat
    BY <1>1 DEF Running, TypeOK
  <2>2. \A k \in 1..Len(group) : k < leg + 1 <=> (k < leg \/ k = leg)
    BY <2>1
  <2>3. ~Deposits(group[leg])
    BY <1>2 DEF Deposits
  <2> QED
    BY <1>2, <2>1, <2>2, <2>3 DEF Brought
<1>8. SumFunction(Claimed') = SumFunction(Claimed) + Claimed'[n] - Claimed[n]
  <2>1. \A k \in 1..Len(group) : Claimed[k] \in Int
    BY <1>1, LegsTypes
  <2>2. \A k \in 1..Len(group) : Claimed[k] \in Int /\ Claimed'[k] \in Int
    BY <1>3, <1>6, <2>1
  <2>3. IsFiniteSet(1..Len(group))
    BY <1>1, LegsTypes
  <2> QED
    BY <1>3, <1>6, <2>2, <2>3, SumChanged
<1>9. Sold(roster') = Sold(roster) + Price[x]
  <2>1. roster \in Rosters /\ roster' \in Rosters
    BY <1>1 DEF IInv, TypeOK
  <2>2. Len(roster'[x]) = Len(roster[x]) + 1 /\ \A p \in Pool : p # x => roster'[p] = roster[p]
    BY <1>1, JoinSeats
  <2> QED
    BY <1>3, <2>1, <2>2, SoldOneMore
<1>10. /\ SumFunction(Brought) \in Int /\ SumFunction(Claimed) \in Int
       /\ Sold(roster) \in Int /\ usdc[App] \in Int
       /\ Sold(saved.roster) \in Int /\ saved.usdc[App] \in Int
  BY <1>1, LegsTypes, SoldTypes DEF TypeOK, Balances
<1> HIDE DEF n, x
<1>11. usdc[App] + SumFunction(Claimed) + Sold(saved.roster)
         = Sold(roster) + SumFunction(Brought) + saved.usdc[App]
  BY DEF Accounted
<1>12. usdc[App] + SumFunction(Claimed') + Sold(saved.roster)
         = Sold(roster') + SumFunction(Brought) + saved.usdc[App]
  <2>1. SumFunction(Claimed') = SumFunction(Claimed) + Price[x] /\ Price[x] \in Nat
    BY <1>3, <1>6, <1>8, <1>10
  <2> QED
    BY <1>9, <1>10, <1>11, <2>1
<1> QED
  BY <1>2, <1>7, <1>12 DEF Accounted

LEMMA PayAccounted ==
  ASSUME SaleInv, Accounted, Pay
  PROVE  Accounted'
<1>1. IInv /\ TypeOK /\ Running /\ group[leg].kind = "pay"
  BY DEF SaleInv, LedgerInv, IInv, Pay
<1>2. group' = group /\ leg' = leg + 1 /\ usdc' = usdc /\ roster' = roster /\ saved' = saved
  BY DEF Pay
<1>3. Claimed' = Claimed
  BY <1>1, <1>2, SameExecuted DEF Claimed
<1>4. Brought' = Brought
  <2>1. leg \in 1..Len(group) /\ Len(group) \in Nat
    BY <1>1 DEF Running, TypeOK
  <2>2. \A k \in 1..Len(group) : k < leg + 1 <=> (k < leg \/ k = leg)
    BY <2>1
  <2>3. ~Deposits(group[leg])
    BY <1>1 DEF Deposits
  <2> QED
    BY <1>2, <2>1, <2>2, <2>3 DEF Brought
<1> QED
  BY <1>2, <1>3, <1>4 DEF Accounted

\* Before its first leg, and when there is none, a group has moved nothing.
Fresh == SaleInv /\ leg \in {0, 1}

LEMMA FreshAccounted == Fresh => MoneyInv
<1> SUFFICES ASSUME SaleInv, leg \in {0, 1} PROVE MoneyInv
  BY DEF Fresh
<1>1. IInv /\ NoneYet("axfer") /\ NoneYet("join")
  BY DEF SaleInv, LedgerInv, IInv, TypeOK, NoneYet
<1>2. usdc = saved.usdc /\ roster = saved.roster
  BY <1>1 DEF SaleInv, LedgerInv, Unmoved
<1>3. Executed = {}
  BY <1>1 DEF Executed, IInv, TypeOK
<1>4. SumFunction(Brought) = 0 /\ SumFunction(Claimed) = 0
  BY <1>1, <1>3, LegsTypes, NothingBrought
<1>5. usdc[App] \in Int /\ Sold(roster) \in Int
  BY <1>1, SoldTypes DEF IInv, TypeOK, Balances
<1> QED
  BY <1>2, <1>4, <1>5 DEF MoneyInv, Accounted

\* When every leg is executed and every deposit named, what was brought is what
\* the joins took.
LEMMA CommitEven ==
  ASSUME MoneyInv, Commit, Backed(group)
  PROVE  Beside(usdc, roster) = Beside(saved.usdc, saved.roster)
<1>1. IInv /\ TypeOK /\ leg > Len(group) /\ Len(group) \in Nat
  BY DEF MoneyInv, SaleInv, LedgerInv, IInv, TypeOK, Commit
<1>2. \A k \in 1..Len(group) : k < leg
  BY <1>1 DEF TypeOK
<1>3. \A j \in 1..Len(group) : group[j].kind = "join" =>
        j \in Executed /\ group[j].payment \in 1..Len(group) /\ Deposits(group[group[j].payment])
  BY <1>1, <1>2 DEF Executed, IInv, Shown, Pays, Deposits
<1>4. \A k \in 1..Len(group) : Brought[k] = Claimed[k]
  <2> TAKE k \in 1..Len(group)
  <2>1. Deposits(group[k]) <=> \E j \in Executed : group[j].payment = k
    <3>1. CASE Deposits(group[k])
      BY <1>3, <3>1 DEF Backed
    <3>2. ASSUME NEW j \in Executed, group[j].payment = k PROVE Deposits(group[k])
      BY <1>3, <3>2 DEF Executed
    <3> QED
      BY <3>1, <3>2
  <2> QED
    BY <1>2, <2>1 DEF Brought, Claimed
<1>5. SumFunction(Brought) = SumFunction(Claimed)
  <2>1. DOMAIN Brought = 1..Len(group) /\ DOMAIN Claimed = 1..Len(group)
    BY DEF Brought, Claimed
  <2> QED
    BY <1>1, <1>4, <2>1, LegsTypes, SameSum DEF SumFunction
<1>6. /\ usdc[App] \in Int /\ Sold(roster) \in Int /\ SumFunction(Claimed) \in Int
      /\ saved.usdc[App] \in Int /\ Sold(saved.roster) \in Int
  BY <1>1, LegsTypes, SoldTypes DEF TypeOK, Balances
<1>7. usdc[App] - Sold(roster) = saved.usdc[App] - Sold(saved.roster)
  BY <1>5, <1>6 DEF MoneyInv, Accounted
<1> QED
  BY <1>7 DEF Beside, Sold

\* A group that begins or ends leaves none that has executed a leg.
LEMMA FreshStep ==
  ASSUME SaleInv', (\E g : Begin(g)) \/ Commit \/ Abort
  PROVE  MoneyInv'
<1>1. Fresh'
  BY DEF Fresh, Begin, Commit, Abort
<1> QED
  BY <1>1, FreshAccounted, PTL

\* Neither balances nor seats nor the group move.
LEMMA StillAccounted ==
  ASSUME MoneyInv, SaleInv', UNCHANGED <<usdc, roster, saved, group, leg>>
  PROVE  MoneyInv'
<1>1. Brought' = Brought /\ Claimed' = Claimed
  BY DEF Brought, Claimed, Executed
<1> QED
  BY <1>1 DEF MoneyInv, Accounted

LEMMA LegAccounted ==
  ASSUME MoneyInv, SaleInv', Pay \/ Transfer \/ Join
  PROVE  MoneyInv'
  BY PayAccounted, TransferAccounted, JoinAccounted DEF MoneyInv

\* What the handler has let through has a join, which names the one transfer.
LEMMA SettledBacked ==
  ASSUME MoneyInv, Commit, NEW c \in Client, req[c].at = "settling", group = req[c].group,
         \A k, l \in Transfers(group) : k = l
  PROVE  Backed(group)
<1>1. RequireJoinCall(group, req[c].receipt)
  BY DEF MoneyInv, SaleInv, Conversations, Said
<1>2. PICK j \in 1..Len(group) : group[j].kind = "join"
  <2>1. Cardinality(Joins(group)) = 1
    BY <1>1 DEF RequireJoinCall
  <2>2. Joins(group) # {}
    BY <2>1, FS_EmptySet
  <2> QED
    BY <2>2 DEF Joins
<1>3. IInv /\ leg > Len(group) /\ Len(group) \in Nat /\ leg \in Nat
  BY DEF MoneyInv, SaleInv, LedgerInv, IInv, TypeOK, Commit
<1>4. j \in Executed
  BY <1>2, <1>3 DEF Executed
<1>5. group[j].payment \in Transfers(group)
  BY <1>3, <1>4 DEF IInv, Shown, Pays, Transfers
<1>6. \A k \in 1..Len(group) : Deposits(group[k]) => k = group[j].payment
  BY <1>5 DEF Deposits, Transfers
<1> QED
  BY <1>2, <1>6 DEF Backed

LEMMA MoneyNext ==
  ASSUME MoneyInv, [NextSettlement]_allVars
  PROVE  MoneyInv'
<1>1. SaleInv'
  BY SettlementNext DEF MoneyInv
<1>2. CASE ChainStep
  BY <1>1, <1>2, LegAccounted, FreshStep DEF ChainStep
<1>3. ASSUME NEW c \in Client, ServerStep(c) PROVE MoneyInv'
  <2>1. CASE Settle(c)
    BY <1>1, <2>1, FreshStep DEF Settle
  <2>2. CASE ~Settle(c)
    <3>1. UNCHANGED vars
      BY <1>3, <2>2 DEF ServerStep, Gate, PriceUnpaid, PricePaid, Handle, SettleFails, Moves
    <3> QED
      BY <1>1, <3>1, StillAccounted DEF vars
  <2> QED
    BY <2>1, <2>2
<1>4. ASSUME NEW c \in Client, ClientStep(c) PROVE MoneyInv'
  <2>1. CASE \E g \in Direct : SettleDirect(c, g)
    BY <1>1, <2>1, FreshStep DEF SettleDirect
  <2>2. CASE ~\E g \in Direct : SettleDirect(c, g)
    <3>1. UNCHANGED vars
      BY <1>4, <2>2
         DEF ClientStep, Ask, PayByHand, PayPlain, PayHandmade, Pay402, GiveUp, Moves
    <3> QED
      BY <1>1, <3>1, StillAccounted DEF vars
  <2> QED
    BY <2>1, <2>2
<1>5. CASE \E env \in Env : Start(env)
  <2>1. UNCHANGED vars
    BY <1>5 DEF Start
  <2> QED
    BY <1>1, <2>1, StillAccounted DEF vars
<1>6. CASE Around
  <2>1. UNCHANGED <<usdc, roster, saved, group, leg>>
    BY <1>6 DEF Around, Tick, SetPaused, Expire, Freeze
  <2> QED
    BY <1>1, <2>1, StillAccounted
<1>7. CASE \E g \in Rivals : Begin(g)
  BY <1>1, <1>7, FreshStep
<1>8. CASE UNCHANGED allVars
  BY <1>1, <1>8, StillAccounted DEF allVars, vars
<1> QED
  BY <1>2, <1>3, <1>4, <1>5, <1>6, <1>7, <1>8 DEF NextSettlement

LEMMA MoneyInvariance == SpecSettlement => []MoneyInv
<1>1. InitSettlement => MoneyInv
  BY SettlementInit, FreshAccounted DEF InitSettlement, Init, Fresh
<1>2. MoneyInv /\ [NextSettlement]_allVars => MoneyInv'
  BY MoneyNext
<1> QED
  BY <1>1, <1>2, PTL DEF SpecSettlement

-----------------------------------------------------------------------------
(* A group of the builder's, leg by leg.                                   *)

\* What the guards of a call ask of a group of a builder's: it is like the
\* contract's own but for what the handler does not look at.
LEMMA BuiltJoinPasses ==
  ASSUME NEW c, NEW q, Sound(q), Open(q.pool), ~paused, c \notin SeatedIn(q.pool),
         NEW variant \in DOMAIN RoleOrder,
         NEW k \in 1..Len(BuildJoinGroup(variant, c, q, q.pool)),
         BuildJoinGroup(variant, c, q, q.pool)[k].kind = "join"
  PROVE  JoinPasses(BuildJoinGroup(variant, c, q, q.pool), k)
<1> DEFINE g == BuildJoinGroup(variant, c, q, q.pool)
           f == Payment(FeePayer)
           t == PaymentTo(c, q)
           j(n) == JoinCall(c, q.pool, n)
<1>1. /\ f.kind = "pay" /\ t.kind = "axfer" /\ t.asset = q.asset /\ t.receiver = q.payTo
      /\ t.sender = c /\ t.amount = q.amount
  BY DEF Payment, PaymentTo
<1>2. \A n \in {1, 2} : /\ j(n).kind = "join" /\ j(n).sender = c /\ j(n).pool = q.pool
                        /\ j(n).payment = n /\ j(n).args = 3
  BY DEF Payment, JoinCall
<1>3. g = <<f, t, j(2)>> \/ g = <<t, f, j(1)>>
  BY Variants, BuiltInOrder
<1>4. q.asset = "usdc" /\ q.payTo = App /\ q.amount = Price[q.pool]
  BY DEF Sound
<1> HIDE DEF g, f, t, j
<1>5. ASSUME NEW n \in {1, 2}, Len(g) = 3, g[n] = t, g[3] = j(n), k \in 1..3,
             g[3 - n] = f, g[k].kind = "join"
      PROVE  JoinPasses(g, k)
  <2>1. k = 3
    BY <1>1, <1>5
  <2>2. Pays(g[n], g[3])
    BY <1>1, <1>2, <1>4, <1>5 DEF Pays
  <2>3. Scanned(g, 3) = {}
    BY <1>1, <1>5 DEF Scanned
  <2> QED
    BY <1>2, <1>5, <2>1, <2>2, <2>3 DEF JoinPasses
<1>6. CASE g = <<f, t, j(2)>>
  BY <1>5, <1>6 DEF g
<1>7. CASE g = <<t, f, j(1)>>
  BY <1>5, <1>7 DEF g
<1> QED
  BY <1>3, <1>6, <1>7 DEF g

\* It has one leg of each kind, and its transfer is what the contract asks.
OneOfEachKind(g) ==
  /\ \A k, l \in 1..Len(g) : g[k].kind = g[l].kind => k = l
  /\ \A k \in 1..Len(g) : g[k].kind \in {"pay", "axfer", "join"}

TransfersTo(g, c, q) ==
  \A k \in 1..Len(g) : g[k].kind = "axfer" =>
    /\ g[k].asset = "usdc" /\ g[k].receiver = App
    /\ g[k].sender = c /\ g[k].amount = Price[q.pool]

LEMMA BuiltLegs ==
  ASSUME NEW c, NEW q, Sound(q), NEW variant \in DOMAIN RoleOrder
  PROVE  /\ OneOfEachKind(BuildJoinGroup(variant, c, q, q.pool))
         /\ TransfersTo(BuildJoinGroup(variant, c, q, q.pool), c, q)
<1> DEFINE f == Payment(FeePayer)
           t == PaymentTo(c, q)
           j(n) == JoinCall(c, q.pool, n)
           g == BuildJoinGroup(variant, c, q, q.pool)
<1>1. /\ f.kind = "pay" /\ t.kind = "axfer" /\ j(1).kind = "join" /\ j(2).kind = "join"
      /\ t.asset = "usdc" /\ t.receiver = App /\ t.sender = c /\ t.amount = Price[q.pool]
  BY DEF Payment, PaymentTo, JoinCall, Sound
<1>2. g = <<f, t, j(2)>> \/ g = <<t, f, j(1)>>
  BY Variants, BuiltInOrder
<1> HIDE DEF f, t, j, g
<1>3. OneOfEachKind(g) /\ TransfersTo(g, c, q)
  BY <1>1, <1>2 DEF OneOfEachKind, TransfersTo
<1> QED
  BY <1>3 DEF g

\* A conversation moves on to a 402 where the price is read, and nowhere else.
LEMMA WhoQuotes ==
  ASSUME SaleInv, NextSettlement, NEW c \in Client,
         req[c].at = "gated", req'[c].at = "quoted"
  PROVE  /\ Up
         /\ \E answers \in BOOLEAN, moment \in Moments : PinnedPool(answers, moment) = "open"
         /\ req'[c].quote = Quoted
<1>1. DOMAIN req = Client /\ Said(c, req[c])
  BY DEF SaleInv, Conversations
<1>2. ASSUME NEW d \in Client, NEW r, Moves(d, r), d # c PROVE FALSE
  BY <1>1, <1>2 DEF Moves
<1>3. ASSUME NEW r, Moves(c, r), r.at # "quoted" PROVE FALSE
  BY <1>1, <1>3 DEF Moves
<1>4. ASSUME ChainStep PROVE FALSE
  BY <1>4 DEF ChainStep, Concluded
<1>5. ASSUME \E env \in Env : Start(env) PROVE FALSE
  <2>1. req'[c] = Refused("no_answer")
    BY <1>5 DEF Start, InServer
  <2> QED
    BY <2>1, SaidRefused
<1>6. ASSUME NEW d \in Client, ServerStep(d)
      PROVE  \E answers \in BOOLEAN, moment \in Moments : PriceUnpaid(c, answers, moment)
  <2>1. ASSUME NEW answers \in BOOLEAN, NEW moment \in Moments, Gate(d, answers, moment)
        PROVE  FALSE
    <3>1. d # c /\ \E r : Moves(d, r)
      BY <2>1 DEF Gate
    <3> QED
      BY <1>2, <3>1
  <2>2. ASSUME NEW answers \in BOOLEAN, NEW moment \in Moments, PriceUnpaid(d, answers, moment)
        PROVE  PriceUnpaid(c, answers, moment)
    <3>1. \E r : Moves(d, r)
      BY <2>2 DEF PriceUnpaid
    <3> QED
      BY <1>2, <2>2, <3>1
  <2>3. ASSUME NEW answers \in BOOLEAN, NEW moment \in Moments, NEW verifies \in BOOLEAN,
               PricePaid(d, answers, moment, verifies)
        PROVE  FALSE
    <3>1. \E r : Moves(d, r) /\ r.at # "quoted"
      <4>1. CASE \E reason : Moves(d, Refused(reason))
        BY <4>1, SaidRefused
      <4>2. CASE Moves(d, [req[d] EXCEPT !.at = "verified", !.quote = Quoted])
        <5>1. [req[d] EXCEPT !.at = "verified", !.quote = Quoted].at # "quoted"
          BY DEF SaleInv, Conversations, Said, Conversation
        <5> QED
          BY <4>2, <5>1
      <4> QED
        BY <2>3, <4>1, <4>2 DEF PricePaid
    <3> QED
      BY <1>2, <1>3, <3>1
  <2>4. ASSUME Handle(d) \/ SettleFails(d) PROVE FALSE
    <3>1. d # c /\ \E r : Moves(d, r)
      BY <2>4 DEF Handle, SettleFails
    <3> QED
      BY <1>2, <3>1
  <2>5. ASSUME Settle(d) PROVE FALSE
    BY <1>1, <2>5 DEF Settle
  <2> QED
    BY <1>6, <2>1, <2>2, <2>3, <2>4, <2>5 DEF ServerStep
<1>7. ASSUME NEW d \in Client, ClientStep(d) PROVE FALSE
  <2>1. CASE \E r : Moves(d, r) /\ req[d].at # "gated"
    BY <1>2, <2>1
  <2>2. CASE \E g : SettleDirect(d, g)
    BY <1>1, <2>2 DEF SettleDirect, AtClient
  <2> QED
    BY <1>7, <2>1, <2>2
       DEF ClientStep, Ask, PayByHand, PayPlain, PayHandmade, Pay402, GiveUp, AtClient
<1>8. PICK answers \in BOOLEAN, moment \in Moments : PriceUnpaid(c, answers, moment)
  <2>1. ~(UNCHANGED <<server, req>>)
    OBVIOUS
  <2>2. \/ ChainStep \/ \E env \in Env : Start(env)
        \/ \E d \in Client : ServerStep(d) \/ ClientStep(d)
    BY <2>1, Zenon DEF NextSettlement
  <2> QED
    BY <1>4, <1>5, <1>6, <1>7, <2>2, Zenon
<1>9. PinnedPool(answers, moment) = "open"
  <2> SUFFICES ASSUME PinnedPool(answers, moment) # "open" PROVE FALSE
    OBVIOUS
  <2>1. Moves(c, Refused("failed_to_process"))
    BY <1>8 DEF PriceUnpaid
  <2> QED
    BY <1>3, <2>1, SaidRefused
<1>10. req'[c] = [Idling EXCEPT !.at = "quoted", !.quote = Quoted]
  BY <1>1, <1>8, <1>9 DEF PriceUnpaid, Moves
<1>11. req'[c].quote = Quoted
  BY <1>10 DEF Idling
<1> QED
  BY <1>8, <1>9, <1>11 DEF PriceUnpaid

\* A conversation that was to be settled comes to nothing where its group fails.
LEMMA WhoFails ==
  ASSUME SaleInv, NextSettlement, NEW c \in Client,
         req[c].at = "settling", req'[c].at = "unsettled"
  PROVE  Abort /\ group = req[c].group
<1>1. ~Idle /\ group = req[c].group
  BY DEF SaleInv, Settling
<1>2. ASSUME NEW d \in Client, ServerStep(d) \/ ClientStep(d) PROVE FALSE
  BY <1>1, <1>2 DEF ServerStep, ClientStep, Gate, PriceUnpaid, PricePaid, Handle, Settle,
       SettleFails, Ask, PayByHand, PayPlain, PayHandmade, Pay402, GiveUp, SettleDirect,
       Up, Begin
<1>3. ASSUME NEW env, Start(env) PROVE FALSE
  BY <1>1, <1>3 DEF Start
<1>4. CASE ChainStep
  <2>1. ASSUME req' = Concluded("settled") PROVE FALSE
    <3>1. req'[c] = Over("settled", req[c].receipt)
      BY <2>1 DEF Concluded
    <3> QED
      BY <3>1 DEF Over, Idling
  <2> QED
    BY <1>1, <1>4, <2>1 DEF ChainStep
<1> QED
  BY <1>2, <1>3, <1>4 DEF NextSettlement

\* A payment is settled where its group is through.
LEMMA WhoSettles ==
  ASSUME SaleInv, NextSettlement, NEW c \in Client, Settles(c)
  PROVE  Commit /\ group = req[c].group
<1>1. ~Idle /\ group = req[c].group
  BY DEF SaleInv, Settling, Settles
<1>2. ASSUME NEW d \in Client, ServerStep(d) \/ ClientStep(d) PROVE FALSE
  BY <1>1, <1>2 DEF ServerStep, ClientStep, Gate, PriceUnpaid, PricePaid, Handle, Settle,
       SettleFails, Ask, PayByHand, PayPlain, PayHandmade, Pay402, GiveUp, SettleDirect,
       Up, Begin
<1>3. ASSUME NEW env, Start(env) PROVE FALSE
  BY <1>1, <1>3 DEF Start
<1>4. CASE ChainStep
  <2>1. ASSUME req' = Concluded("unsettled") PROVE FALSE
    <3>1. req'[c] = Over("unsettled", req[c].receipt)
      BY <2>1 DEF Concluded, Settles
    <3> QED
      BY <3>1 DEF Over, Idling, Settles
  <2>2. ~UNCHANGED req
    BY DEF Settles
  <2> QED
    BY <1>1, <1>4, <2>1, <2>2 DEF ChainStep
<1>5. ~UNCHANGED req
  BY DEF Settles
<1> QED
  BY <1>2, <1>3, <1>4, <1>5 DEF NextSettlement

-----------------------------------------------------------------------------
(* The theorems.                                                           *)

\* A receipt names the pool the buyer named, and whoever has one and whose
\* payment settled sits in that pool: the handler looked at the only join of the
\* group before the payment was settled, and a group is executed whole.
THEOREM ReceiptHasSeat == SpecSettlement => []SettledHoldsSeat
<1>1. ASSUME SaleInv PROVE SettledHoldsSeat
  <2> SUFFICES ASSUME NEW c \in Client, req[c].receipt # None
               PROVE  /\ {req[c].input.query, req[c].input.body} \subseteq {None, req[c].receipt}
                      /\ req[c].at = "settled" => c \in SeatedIn(req[c].receipt)
    BY DEF SettledHoldsSeat
  <2>1. /\ {req[c].input.query, req[c].input.body} \subseteq {None, req[c].receipt}
        /\ req[c].receipt \in Pool
    BY <1>1 DEF SaleInv, Conversations, Said
  <2>2. req[c].at = "settled" => c \in Kept(req[c].receipt)
    BY <1>1 DEF SaleInv, Seated
  <2> QED
    BY <1>1, <2>1, <2>2 DEF SaleInv, LedgerInv, KeptAreSeated
<1> QED
  BY <1>1, SettlementInvariance, PTL

\* A payment settled through the server leaves nothing with the application but
\* the price of the seats its group took, whatever groups are signed, with the
\* server or without it: provided only that the group has one transfer. With
\* several the handler settles what no join names (README, section 6).
THEOREM NothingStrandedAlways == SpecSettlement => NothingStranded
<1>1. ASSUME MoneyInv, NextSettlement, NEW c \in Client, Settles(c),
             \A k, l \in Transfers(group) : k = l
      PROVE  Beside(usdc, roster) = Beside(saved.usdc, saved.roster)
  <2>1. Commit /\ group = req[c].group
    BY <1>1, WhoSettles DEF MoneyInv
  <2>2. Backed(group)
    BY <1>1, <2>1, SettledBacked DEF Settles
  <2> QED
    BY <1>1, <2>1, <2>2, CommitEven
<1>2. MoneyInv /\ [NextSettlement]_allVars =>
        [\A c \in Client : Settles(c) /\ (\A k, l \in Transfers(group) : k = l) =>
           Beside(usdc, roster) = Beside(saved.usdc, saved.roster)]_allVars
  BY <1>1
<1> QED
  BY <1>2, MoneyInvariance, PTL DEF SpecSettlement, NothingStranded

\* One transfer buys one seat in the groups clients bring to the server as well,
\* which need not be among those the module JoinGroups was given.
THEOREM OneTransferOneSeatServed == SpecSettlement => []OneTransferOneSeat
<1>1. ASSUME SaleInv PROVE OneTransferOneSeat
  <2> SUFFICES ASSUME NEW j \in Executed, NEW k \in Executed,
                      group[j].payment = group[k].payment
               PROVE  j = k
    BY DEF OneTransferOneSeat
  <2>1. j \in Int /\ k \in Int
    BY DEF Executed
  <2> QED
    BY <1>1, <2>1 DEF SaleInv, LedgerInv, IInv, Apart
<1> QED
  BY <1>1, SettlementInvariance, PTL

\* A 402 can be paid when it is made: the price is read of a pool that is open,
\* and what the boot looked at makes the transfer one the contract takes. The
\* clocks may differ: the deadline may have gone by within their drift, no more.
THEOREM OffersArePayable == SpecSettlement => OfferIsPayable
<1> DEFINE payable(c) ==
             \A variant \in DOMAIN RoleOrder :
               LET q == req'[c].quote
                   g == BuildJoinGroup(variant, c, q, q.pool)
               IN \A k \in 1..Len(g) :
                    /\ g[k].kind = "axfer" => g[k].asset = "usdc" /\ g[k].receiver = App
                    /\ g[k].kind = "join" => \/ paused \/ c \in SeatedIn(q.pool)
                                             \/ now - Deadline[q.pool] \in 0..(Drift - 1)
                                             \/ JoinPasses(g, k)
<1>1. ASSUME SaleInv, NextSettlement, NEW c \in Client,
             req[c].at = "gated", req'[c].at = "quoted"
      PROVE  payable(c)
  <2>1. PICK q : q = req'[c].quote
    OBVIOUS
  <2>2. PICK moment \in Moments :
          /\ Sound(q) /\ q.pool \notin expired /\ Len(roster[q.pool]) < Seats[q.pool]
          /\ Deadline[q.pool] > moment
    BY <1>1, <2>1, WhoQuotes, QuoteIsSound DEF SaleInv
  <2>3. Open(q.pool) \/ now - Deadline[q.pool] \in 0..(Drift - 1)
    <3>1. now \in Nat /\ Deadline[q.pool] \in Nat /\ Drift \in Nat /\ q.pool \in Pool
      BY <1>1, <2>2, GroupAssumption, SettlementAssumption
         DEF SaleInv, LedgerInv, IInv, TypeOK, Sound
    <3>2. moment \in Int /\ now - Drift <= moment
      BY <3>1 DEF Moments
    <3> QED
      BY <2>2, <3>1, <3>2 DEF Open
  <2> SUFFICES ASSUME NEW variant \in DOMAIN RoleOrder,
                      NEW k \in 1..Len(BuildJoinGroup(variant, c, q, q.pool))
               PROVE  LET g == BuildJoinGroup(variant, c, q, q.pool) IN
                        /\ g[k].kind = "axfer" => g[k].asset = "usdc" /\ g[k].receiver = App
                        /\ g[k].kind = "join" => \/ paused \/ c \in SeatedIn(q.pool)
                                                 \/ now - Deadline[q.pool] \in 0..(Drift - 1)
                                                 \/ JoinPasses(g, k)
    BY <2>1
  <2>4. TransfersTo(BuildJoinGroup(variant, c, q, q.pool), c, q)
    BY <2>2, BuiltLegs
  <2>5. ASSUME BuildJoinGroup(variant, c, q, q.pool)[k].kind = "join",
               ~paused, c \notin SeatedIn(q.pool), Open(q.pool)
        PROVE  JoinPasses(BuildJoinGroup(variant, c, q, q.pool), k)
    BY <2>2, <2>5, BuiltJoinPasses
  <2> QED
    BY <2>3, <2>4, <2>5 DEF TransfersTo
<1>2. SaleInv /\ [NextSettlement]_allVars =>
        [\A c \in Client : req[c].at = "gated" /\ req'[c].at = "quoted" => payable(c)]_allVars
  BY <1>1
<1> QED
  BY <1>2, SettlementInvariance, PTL DEF SpecSettlement, OfferIsPayable

\* A group of the builder's that the handler answered fails for nothing but what
\* the server does not ask: a seat or a balance of the buyer's, a pool that
\* closed, a contract paused or a holding frozen in the meantime.
THEOREM ReceiptsFailOnlyIf == SpecSettlement => ReceiptFailsOnlyIf
<1> DEFINE excused(c) ==
             LET p == req[c].receipt IN
               \/ \A variant \in DOMAIN RoleOrder :
                    req[c].group # BuildJoinGroup(variant, c, req[c].quote, p)
               \/ paused \/ canReceive # Account \cup {App}
               \/ c \in {saved.roster[p][s] : s \in 1..Len(saved.roster[p])}
               \/ p \in expired \/ now >= Deadline[p]
               \/ Len(saved.roster[p]) = Seats[p]
               \/ saved.usdc[c] < Price[p]
<1>1. ASSUME SaleInv, NextSettlement, NEW c \in Client,
             req[c].at = "settling", req'[c].at = "unsettled"
      PROVE  excused(c)
  <2>1. Abort /\ group = req[c].group
    BY <1>1, WhoFails
  <2>2. PICK q : q = req[c].quote
    OBVIOUS
  <2>3. Sound(q) /\ req[c].receipt = q.pool
    BY <1>1, <2>2 DEF SaleInv, Conversations, Said, Priced
  <2> SUFFICES ASSUME NEW variant \in DOMAIN RoleOrder,
                      group = BuildJoinGroup(variant, c, q, q.pool),
                      ~paused, canReceive = Account \cup {App}, c \notin Kept(q.pool),
                      q.pool \notin expired, ~(now >= Deadline[q.pool]),
                      Len(saved.roster[q.pool]) # Seats[q.pool],
                      ~(saved.usdc[c] < Price[q.pool])
               PROVE  LegPasses
    BY <2>1, <2>2, <2>3 DEF Abort, Kept
  <2>4. q.pool \in Pool /\ c \in Account /\ leg \in 1..Len(group)
    BY <2>1, <2>3, SettlementAssumption DEF Abort, Running, Sound
  <2>5. OneOfEachKind(group) /\ TransfersTo(group, c, q)
    BY <2>3, BuiltLegs
  <2>6. NoneYet(group[leg].kind)
    <3> SUFFICES ASSUME NEW k \in 1..Len(group), k < leg PROVE group[k].kind # group[leg].kind
      BY DEF NoneYet
    <3>1. k # leg
      BY <2>4
    <3> QED
      BY <2>4, <2>5, <3>1 DEF OneOfEachKind
  <2>7. CASE group[leg].kind = "axfer"
    <3>1. usdc = saved.usdc
      BY <1>1, <2>6, <2>7 DEF SaleInv, LedgerInv, Unmoved
    <3>2. /\ group[leg].asset = "usdc" /\ group[leg].receiver = App
          /\ group[leg].sender = c /\ group[leg].amount = Price[q.pool]
      BY <2>4, <2>5, <2>7 DEF TransfersTo
    <3>3. usdc[c] \in Nat /\ Price[q.pool] \in Nat
      BY <1>1, <2>4, GroupAssumption DEF SaleInv, LedgerInv, IInv, TypeOK, Balances
    <3> QED
      BY <2>4, <2>7, <3>1, <3>2, <3>3 DEF LegPasses, TransferPasses
  <2>8. CASE group[leg].kind = "join"
    <3>1. roster = saved.roster
      BY <1>1, <2>6, <2>8 DEF SaleInv, LedgerInv, Unmoved
    <3>2. now \in Nat /\ Deadline[q.pool] \in Nat /\ Seats[q.pool] \in Nat
      BY <1>1, <2>4, GroupAssumption DEF SaleInv, LedgerInv, IInv, TypeOK
    <3>3. Len(roster[q.pool]) \in Nat
      BY <1>1, <2>4 DEF SaleInv, LedgerInv, IInv, TypeOK, Rosters
    <3>4. Len(roster[q.pool]) <= Seats[q.pool]
      BY <1>1, <2>4 DEF SaleInv, LedgerInv, NoneOverfull
    <3>5. Open(q.pool)
      BY <2>4, <3>1, <3>2, <3>3, <3>4 DEF Open
    <3>6. c \notin SeatedIn(q.pool)
      BY <3>1 DEF Kept, SeatedIn
    <3> QED
      BY <2>3, <2>4, <2>8, <3>5, <3>6, BuiltJoinPasses DEF LegPasses
  <2> QED
    BY <2>4, <2>5, <2>7, <2>8 DEF LegPasses, OneOfEachKind
<1>2. SaleInv /\ [NextSettlement]_allVars =>
        [\A c \in Client : req[c].at = "settling" /\ req'[c].at = "unsettled" => excused(c)]_allVars
  BY <1>1
<1> QED
  BY <1>2, SettlementInvariance, PTL DEF SpecSettlement, ReceiptFailsOnlyIf
=============================================================================
