------------------------------- MODULE Quotes -------------------------------
(***************************************************************************)
(* How the middleware sells one delivery seat (api/pricing.py, jobs.py and *)
(* the pin handler of app.py): an unpaid request reuses or creates an      *)
(* agreement and is quoted it, the paid retry mints a job for it, and the  *)
(* facilitator then settles the buyer's transaction group.                 *)
(*                                                                         *)
(* Worker processes share one job store and one chain.  Within a worker    *)
(* create_lock admits one create at a time; between workers nothing does.  *)
(* Every await of the code is a point where other requests, other workers  *)
(* and the chain move; what runs between two awaits is one step, except    *)
(* that each commit to the store is a step of its own, for a crash may     *)
(* fall between two.                                                       *)
(***************************************************************************)
EXTENDS Integers, FiniteSets, FiniteSetsExt

CONSTANTS
  Process,       \* worker processes
  Request,       \* buyers, each let in once and perhaps paying once
  Source,        \* callers as the limiter tells them apart
  File,          \* (sha256, size) pairs asked for
  Nobody,        \* holder of no job, payer of no seat
  Outsider,      \* anyone who joins or creates without this middleware
  Window,        \* funding_window_seconds
  MaxUnfunded,   \* max_unfunded_agreements
  PerMinute,     \* quotes_per_source_per_minute
  Minute,        \* the limiter's 60 seconds
  MaxAgreements, \* bound on agreement_count
  MaxTime,       \* bound on the clock
  Faults         \* what may go wrong, a subset of FaultKinds

\* "crash": a worker dies and restarts.  "timeout": the wait for a create's
\* confirmation gives up.  "late": a create group survives the worker that
\* waited for it and may still be confirmed.  "elsewhere": agreements are also
\* created by the operator's scripts.
FaultKinds == {"crash", "timeout", "late", "elsewhere"}

ASSUME QuotesAssumption ==
  /\ Nobody \notin Request /\ Outsider \notin Request /\ Nobody # Outsider
  /\ Window \in Nat \ {0} /\ MaxUnfunded \in Nat
  /\ PerMinute \in Nat \ {0} /\ Minute \in Nat \ {0}
  /\ MaxAgreements \in Nat /\ MaxTime \in Nat
  /\ Faults \subseteq FaultKinds

VARIABLES
  now,
  chain,    \* agreements on chain, by id: what they are for, who took the seat
  inflight, \* requests whose create group is submitted and not yet decided
  jobs,     \* rows of the jobs table, by agreement_id
  intents,  \* rows of create_intents: agreement_id -> the file asked for
  seen,     \* of each worker's limiter: when each source was let in
  task,     \* where each request is
  charged   \* requests whose transfer settled

storeVars == <<jobs, intents>>
chainVars == <<chain, inflight>>
vars == <<now, chain, inflight, jobs, intents, seen, task, charged>>

-----------------------------------------------------------------------------
(* The job store.                                                          *)

JobState == {"QUOTED", "FUNDED", "RECEIVED", "PINNED",
             "RELEASED", "ABANDONED", "REFUNDED"}

\* A funded job may be funded again.
Allowed_FundedTwice ==
  [state \in JobState |->
     CASE state \in {"QUOTED", "FUNDED"} -> {"FUNDED", "ABANDONED"}
       [] OTHER -> {}]

\* The lifecycle, as the whole relation.
Allowed ==
  [state \in JobState |->
     CASE state = "QUOTED" -> {"FUNDED", "ABANDONED"}
       [] state = "FUNDED" -> {"RECEIVED", "REFUNDED"}
       [] state = "RECEIVED" -> {"PINNED", "REFUNDED"}
       [] state = "PINNED" -> {"RELEASED", "REFUNDED"}
       [] OTHER -> {}]

\* `holder` stands for job_id: the token minted for whoever paid.
Job == [file: File, state: JobState, quoted_at: Nat,
        holder: Request \cup {Nobody}]

\* A table with one row more, or replaced; and with one row fewer.
Put(table, id, row) ==
  [i \in DOMAIN table \cup {id} |-> IF i = id THEN row ELSE table[i]]

Drop(table, id) == [i \in DOMAIN table \ {id} |-> table[i]]

Quoted == {id \in DOMAIN jobs : jobs[id].state = "QUOTED"}

\* find_reusable_quote takes the lowest of these, under the clock of the call.
Reusable(file) ==
  {id \in Quoted : /\ jobs[id].file = file
                   /\ jobs[id].quoted_at > now - Window}

CountUnfunded == Cardinality(Quoted)

\* What a reconciler would be handed, once it is old enough.
UnreconciledIntents == DOMAIN intents \ DOMAIN jobs

-----------------------------------------------------------------------------
(* The chain: create_agreement and join, as this middleware uses them.     *)

Agreement == [file: File, maker: Request \cup {Outsider},
              payer: Request \cup {Nobody, Outsider}]

agreement_count == Cardinality(DOMAIN chain)

next_agreement_id == agreement_count + 1

NewAgreement(file, maker) == [file |-> file, maker |-> maker, payer |-> Nobody]

-----------------------------------------------------------------------------
(* Requests.                                                               *)

\* Where a request holds create_lock, and where it is waiting or answered.
Creating == {"reading", "predicted", "creating", "submitted",
             "created", "written", "shifted"}

Paying == {"verified", "checked", "minted"}

Answered == {"limited", "quoted", "refused", "failed", "dropped", "rejected", "settled",
             "unsettled"}

\* The fields beyond `at` and `proc` are the locals of _open_or_create and, for
\* a paid retry, `wanted`: the agreement its payment was matched to.  `joins` is
\* the agreement its group joins, 0 if the group carries a transfer alone.  `from`
\* and `came` say who asked, as the limiter knows them, and when.
Task == [at: {"idle", "queued"} \cup Creating \cup Paying \cup Answered,
         proc: Process, file: File, from: Source, came: Nat, asked: Nat, intended: Nat, id: Nat,
         wanted: Nat, joins: Nat, gone: BOOLEAN]

TypeOK ==
  /\ now \in Nat
  /\ agreement_count \in 0..MaxAgreements /\ DOMAIN chain = 1..agreement_count
  /\ \A id \in DOMAIN chain : chain[id] \in Agreement
  /\ inflight \subseteq Request
  /\ DOMAIN jobs \subseteq 1..(MaxAgreements + 1)
  /\ \A id \in DOMAIN jobs : jobs[id] \in Job
  /\ DOMAIN intents \subseteq 1..(MaxAgreements + 1)
  /\ \A id \in DOMAIN intents : intents[id] \in File
  /\ DOMAIN seen = Process /\ \A p \in Process : DOMAIN seen[p] = Source
  /\ task \in [Request -> Task]
  /\ charged \subseteq Request

\* No lock: an asyncio.Lock made afresh for every call.
Locked_Never(p) == FALSE

\* create_lock is held by some request of the worker.
Locked(p) == \E r \in Request : task[r].proc = p /\ task[r].at \in Creating

\* No await falls between the SELECT and the UPDATE of a mint, so the worker
\* that is there runs nothing else.
Busy(p) == \E r \in Request : task[r].proc = p /\ task[r].at = "checked"

\* The request after a step to `place`, with nothing else of it changed.
At(r, place) == task' = [task EXCEPT ![r].at = place]

Init ==
  /\ now = 0
  /\ chain = [id \in {} |-> TRUE]
  /\ inflight = {}
  /\ jobs = [id \in {} |-> TRUE]
  /\ intents = [id \in {} |-> TRUE]
  /\ seen = [p \in Process |-> [s \in Source |-> {}]]
  /\ \E p \in Process, f \in File, s \in Source :
       task = [r \in Request |->
                 [at |-> "idle", proc |-> p, file |-> f, from |-> s,
                  came |-> 0, asked |-> 0,
                  intended |-> 0, id |-> 0, wanted |-> 0, joins |-> 0,
                  gone |-> FALSE]]
  /\ charged = {}

-----------------------------------------------------------------------------
(* The unpaid pass: _open_or_create.                                       *)

\* A request let in, as the limiter's list has it.  A list is the set of its
\* times, told apart by whose they are: the clock goes one way, so its last is
\* its newest.
Entry == [by: Request, at: Nat]

Fresh(entries) == {e \in entries : e.at > now - Minute}

\* Every source whose minute is over is forgotten, whoever asks.
StillSeen(p) ==
  [s \in Source |-> IF Fresh(seen[p][s]) = {} THEN {} ELSE seen[p][s]]

Recent(p, source) == Fresh(StillSeen(p)[source])

Counted(r, p, source) ==
  [StillSeen(p) EXCEPT ![source] = Recent(p, source) \cup {[by |-> r, at |-> now]}]

\* A request turned away is counted with the others.
AfterRefusal_Counted(r, p, source) == Counted(r, p, source)

\* It raises before it appends: a request turned away does not count.
AfterRefusal(r, p, source) == StillSeen(p)

\* The limiter, for the unpaid pass alone.  Who is turned away may come again.
Arrive(r, p, file, source) ==
  LET limited == Cardinality(Recent(p, source)) >= PerMinute IN
  /\ task[r].at \in {"idle", "limited"}
  /\ task' = [task EXCEPT ![r] =
       [@ EXCEPT !.at = IF limited THEN "limited" ELSE "queued",
                 !.proc = p, !.file = file, !.from = source, !.came = now]]
  /\ seen' = [seen EXCEPT ![p] = IF limited THEN AfterRefusal(r, p, source)
                                            ELSE Counted(r, p, source)]
  /\ UNCHANGED <<now, chainVars, storeVars, charged>>

\* The ceiling admits one quote too many.
Enter_LateCeiling(r) ==
  LET file == task[r].file IN
  /\ task[r].at = "queued"
  /\ ~Locked(task[r].proc)
  /\ task' = [task EXCEPT ![r] =
       IF Reusable(file) # {}
         THEN [@ EXCEPT !.at = "quoted", !.id = Min(Reusable(file))]
       ELSE IF CountUnfunded > MaxUnfunded
         THEN [@ EXCEPT !.at = "refused"]
       ELSE [@ EXCEPT !.at = "reading", !.asked = now]]
  /\ UNCHANGED <<now, chainVars, storeVars, charged, seen>>

\* With the lock held: reuse, or refuse at the ceiling, or go on to create.
Enter(r) ==
  LET file == task[r].file IN
  /\ task[r].at = "queued"
  /\ ~Locked(task[r].proc)
  /\ task' = [task EXCEPT ![r] =
       IF Reusable(file) # {}
         THEN [@ EXCEPT !.at = "quoted", !.id = Min(Reusable(file))]
       ELSE IF CountUnfunded >= MaxUnfunded
         THEN [@ EXCEPT !.at = "refused"]
       ELSE [@ EXCEPT !.at = "reading", !.asked = now]]
  /\ UNCHANGED <<now, chainVars, storeVars, charged, seen>>

ReadNextId(r) ==
  /\ task[r].at = "reading"
  /\ task' = [task EXCEPT ![r].at = "predicted",
                          ![r].intended = next_agreement_id]
  /\ UNCHANGED <<now, chainVars, storeVars, charged, seen>>

\* INSERT OR REPLACE: an intent left behind for this id is overwritten.
RecordIntent(r) ==
  /\ task[r].at = "predicted"
  /\ intents' = Put(intents, task[r].intended, task[r].file)
  /\ At(r, "creating")
  /\ UNCHANGED <<now, chainVars, jobs, charged, seen>>

\* create_hash_agreement reads the next id again, to name the boxes of the
\* group it submits.
Submit(r) ==
  /\ task[r].at = "creating"
  /\ task' = [task EXCEPT ![r].at = "submitted", ![r].id = next_agreement_id]
  /\ inflight' = inflight \cup {r}
  /\ UNCHANGED <<now, chain, storeVars, charged, seen>>

\* The group names the boxes of one id, so it lands as that id or not at all.
Land(r) ==
  /\ r \in inflight
  /\ inflight' = inflight \ {r}
  /\ chain' = IF task[r].id = next_agreement_id /\ agreement_count < MaxAgreements
                THEN Put(chain, task[r].id, NewAgreement(task[r].file, r))
                ELSE chain
  /\ UNCHANGED <<now, storeVars, task, charged, seen>>

Landed(r) == \E id \in DOMAIN chain : chain[id].maker = r

\* The worker thread learns what became of the group.
Confirm(r) ==
  /\ task[r].at = "submitted"
  /\ r \notin inflight
  /\ At(r, IF Landed(r) THEN "created" ELSE "failed")
  /\ UNCHANGED <<now, chainVars, storeVars, charged, seen>>

\* The row says when its window began by counting back from its end.
WriteRow_Backdated(r) ==
  /\ task[r].at = "created"
  /\ task[r].id \notin DOMAIN jobs
  /\ jobs' = Put(jobs, task[r].id,
                 [file |-> task[r].file, state |-> "QUOTED",
                  quoted_at |-> task[r].asked - Window, holder |-> Nobody])
  /\ At(r, "written")
  /\ UNCHANGED <<now, chainVars, intents, charged, seen>>

\* The row is written under the predicted id.
WriteRow_Predicted(r) ==
  /\ task[r].at = "created"
  /\ task[r].intended \notin DOMAIN jobs
  /\ jobs' = Put(jobs, task[r].intended,
                 [file |-> task[r].file, state |-> "QUOTED",
                  quoted_at |-> task[r].asked, holder |-> Nobody])
  /\ At(r, "written")
  /\ UNCHANGED <<now, chainVars, intents, charged, seen>>

\* create_quote; agreement_id is the primary key.
WriteRow(r) ==
  /\ task[r].at = "created"
  /\ task[r].id \notin DOMAIN jobs
  /\ jobs' = Put(jobs, task[r].id,
                 [file |-> task[r].file, state |-> "QUOTED",
                  quoted_at |-> task[r].asked, holder |-> Nobody])
  /\ At(r, "written")
  /\ UNCHANGED <<now, chainVars, intents, charged, seen>>

\* Both ids are cleared, the predicted one first.
ClearIntended(r) ==
  /\ task[r].at = "written"
  /\ intents' = Drop(intents, task[r].intended)
  /\ At(r, IF task[r].id = task[r].intended THEN "quoted" ELSE "shifted")
  /\ UNCHANGED <<now, chainVars, jobs, charged, seen>>

ClearActual(r) ==
  /\ task[r].at = "shifted"
  /\ intents' = Drop(intents, task[r].id)
  /\ At(r, "quoted")
  /\ UNCHANGED <<now, chainVars, jobs, charged, seen>>

\* A call that raises is made again with the lock held.
AfterFailure_TriedAgain == "reading"

\* The lock is an async context manager: an exception releases it.
AfterFailure == "failed"

\* A chain read or a commit raises; the request ends in an error.
Fail(r) ==
  /\ task[r].at \in {"reading", "creating", "created"}
  /\ "timeout" \in Faults
  /\ At(r, AfterFailure)
  /\ UNCHANGED <<now, chainVars, storeVars, charged, seen>>

\* The wait for confirmation gives up on a group still undecided.
TimeOut(r) ==
  /\ task[r].at = "submitted"
  /\ r \in inflight
  /\ "timeout" \in Faults
  /\ At(r, AfterFailure)
  /\ inflight' = IF "late" \in Faults THEN inflight ELSE inflight \ {r}
  /\ UNCHANGED <<now, chain, storeVars, charged, seen>>

\* The task dies with the request, and its lock is released.
AfterDisconnect_Unshielded(t) ==
  [t EXCEPT !.gone = TRUE, !.at = IF t.at \in Creating THEN "dropped" ELSE t.at]

\* asyncio.shield: nobody waits for the task any more, and it runs on.
AfterDisconnect(t) == [t EXCEPT !.gone = TRUE]

\* The client goes away, or the payment hook gives up on a slow answer.
Disconnect(r) ==
  /\ task[r].at \in {"queued"} \cup Creating
  /\ ~task[r].gone
  /\ task' = [task EXCEPT ![r] = AfterDisconnect(@)]
  /\ UNCHANGED <<now, chainVars, storeVars, charged, seen>>

-----------------------------------------------------------------------------
(* The paid pass: price again, verify, mint, settle.                       *)

\* The paid retry is priced by the first quote still open for the file, however
\* old: its window is left to whoever reads the payment.
Reprice_AnyAge(r, p, joins) ==
  LET open == {id \in Quoted : jobs[id].file = task[r].file} IN
  /\ task[r].at = "quoted"
  /\ ~task[r].gone
  /\ joins # 0 => chain[joins].payer = Nobody
  /\ task' = [task EXCEPT ![r] =
       IF open = {} THEN [@ EXCEPT !.at = "rejected"]
       ELSE [@ EXCEPT !.at = "verified", !.proc = p,
                      !.wanted = Min(open), !.joins = joins]]
  /\ UNCHANGED <<now, chainVars, storeVars, charged, seen>>

\* The price callable looks the quote up afresh; the facilitator simulates the
\* group, so a join it carries could pass at that moment.
Reprice(r, p, joins) ==
  LET found == Reusable(task[r].file) IN
  /\ task[r].at = "quoted"
  /\ ~task[r].gone
  /\ joins # 0 => chain[joins].payer = Nobody
  /\ task' = [task EXCEPT ![r] =
       IF found = {} THEN [@ EXCEPT !.at = "rejected"]
       ELSE [@ EXCEPT !.at = "verified", !.proc = p,
                      !.wanted = Min(found), !.joins = joins]]
  /\ UNCHANGED <<now, chainVars, storeVars, charged, seen>>

\* Any group is taken for the seat.
Buys_Anything(t) == TRUE

\* require_join_call: the group joins the agreement the payment is for.
Buys(t) == t.joins = t.wanted

CanMint(t) ==
  /\ Buys(t)
  /\ t.wanted \in DOMAIN jobs
  /\ jobs[t.wanted].file = t.file
  /\ "FUNDED" \in Allowed[jobs[t.wanted].state]

\* The handler up to the SELECT of transition: everything that can refuse.
CheckMint(r) ==
  /\ task[r].at = "verified"
  /\ At(r, IF CanMint(task[r]) THEN "checked" ELSE "rejected")
  /\ UNCHANGED <<now, chainVars, storeVars, charged, seen>>

\* The UPDATE of transition, and the response.  It names the row by its id
\* alone, whatever its state has become.
Mint(r) ==
  /\ task[r].at = "checked"
  /\ jobs' = [jobs EXCEPT ![task[r].wanted].state = "FUNDED",
                          ![task[r].wanted].holder = r]
  /\ At(r, "minted")
  /\ UNCHANGED <<now, chainVars, intents, charged, seen>>

\* The group settles as a whole: the transfer, and the join if it carries one.
Settle(r) ==
  LET t == task[r] IN
  /\ t.at = "minted"
  /\ \/ /\ t.joins = 0
        /\ UNCHANGED chain
     \/ /\ t.joins # 0
        /\ chain[t.joins].payer = Nobody
        /\ chain' = [chain EXCEPT ![t.joins].payer = r]
  /\ charged' = charged \cup {r}
  /\ At(r, "settled")
  /\ UNCHANGED <<now, inflight, storeVars, seen>>

\* The facilitator refuses, or the seat went to somebody else.
SettleFails(r) ==
  /\ task[r].at = "minted"
  /\ At(r, "unsettled")
  /\ UNCHANGED <<now, chainVars, storeVars, charged, seen>>

-----------------------------------------------------------------------------
(* Around the middleware.                                                  *)

Tick ==
  /\ now < MaxTime
  /\ now' = now + 1
  /\ UNCHANGED <<chainVars, storeVars, task, charged, seen>>

\* A worker dies and comes back with nothing but the store.  A settlement
\* already handed to the facilitator goes on.
Crash(p) ==
  LET lost == {r \in Request : /\ task[r].proc = p
                               /\ task[r].at \in {"queued", "verified", "checked"} \cup Creating}
  IN
  /\ "crash" \in Faults
  /\ lost # {}
  /\ task' = [r \in Request |->
                IF r \in lost THEN [task[r] EXCEPT !.at = "dropped"] ELSE task[r]]
  /\ seen' = [seen EXCEPT ![p] = [s \in Source |-> {}]]
  /\ inflight' = IF "late" \in Faults THEN inflight ELSE inflight \ lost
  /\ UNCHANGED <<now, chain, storeVars, charged>>

CreateElsewhere(file) ==
  /\ "elsewhere" \in Faults
  /\ agreement_count < MaxAgreements
  /\ chain' = Put(chain, next_agreement_id, NewAgreement(file, Outsider))
  /\ UNCHANGED <<now, inflight, storeVars, task, charged, seen>>

\* Anyone may call join without this middleware.
JoinDirectly(id) ==
  /\ chain[id].payer = Nobody
  /\ chain' = [chain EXCEPT ![id].payer = Outsider]
  /\ UNCHANGED <<now, inflight, storeVars, task, charged, seen>>

-----------------------------------------------------------------------------
(* The specification.                                                      *)

Create(r) ==
  /\ ~Busy(task[r].proc)
  /\ \/ Enter(r) \/ ReadNextId(r) \/ RecordIntent(r) \/ Submit(r)
     \/ Confirm(r) \/ WriteRow(r) \/ ClearIntended(r) \/ ClearActual(r)

Ask(r) ==
  \/ \E p \in Process, f \in File, s \in Source : ~Busy(p) /\ Arrive(r, p, f, s)
  \/ Create(r)
  \/ ~Busy(task[r].proc) /\ (Fail(r) \/ TimeOut(r) \/ Disconnect(r))

Pay(r) ==
  \/ \E p \in Process, joins \in {0} \cup DOMAIN chain :
       ~Busy(p) /\ Reprice(r, p, joins)
  \/ ~Busy(task[r].proc) /\ CheckMint(r)
  \/ Mint(r) \/ Settle(r) \/ SettleFails(r)

Surroundings ==
  \/ Tick
  \/ \E p \in Process : Crash(p)
  \/ \E r \in Request : Land(r)
  \/ \E file \in File : CreateElsewhere(file)
  \/ \E id \in DOMAIN chain : JoinDirectly(id)

Next ==
  \/ \E r \in Request : Ask(r) \/ Pay(r)
  \/ Surroundings

Spec == Init /\ [][Next]_vars

\* The event loop runs every task it has, and the network decides every group.
Fairness ==
  \A r \in Request : WF_vars(Create(r)) /\ WF_vars(Mint(r)) /\ WF_vars(Land(r))

FairSpec == Spec /\ Fairness

-----------------------------------------------------------------------------
(* What must be true.                                                      *)

\* An agreement this middleware created, which parks a deposit, is in jobs or
\* a reconciler that reads create_intents is still led to it: some intent
\* without a row names its id or one before it.
OrphanIsFindable ==
  \A id \in DOMAIN chain \ DOMAIN jobs :
    chain[id].maker # Outsider => \E i \in UnreconciledIntents : i <= id

\* At most max_unfunded_agreements rows are ever parked unfunded.
CeilingHolds == CountUnfunded <= MaxUnfunded

\* One file, one open quote: a request that comes while it is being created, or
\* after, reuses it.
OneQuotePerFile == \A f \in File : Cardinality(Reusable(f)) <= 1

\* No buyer is handed an agreement that is not on chain, or is for other bytes:
\* a row's agreement is the one its own create returned.
QuoteIsReal ==
  \A id \in DOMAIN jobs : id \in DOMAIN chain /\ chain[id].file = jobs[id].file

\* A buyer is charged only for a seat of their own in an agreement for the file
\* they asked for, and then holds its job: never for another file, nor for no
\* seat at all; a loser of the race for a seat is not charged, and the token the
\* winner was answered with is the one the row keeps.
ChargedHoldsJob ==
  \A r \in charged :
    \E id \in DOMAIN jobs :
      chain[id].payer = r /\ chain[id].file = task[r].file /\ jobs[id].holder = r

\* A row is FUNDED before its settlement is known to have succeeded (app.py:540).
\* A FUNDED job whose seat its holder did not take belongs to a settlement that
\* failed, and no buyer charged here has paid into its agreement: a sweeper that
\* finds one owes nobody anything.
StuckJobOwesNobody ==
  \A id \in DOMAIN jobs : LET holder == jobs[id].holder IN
    jobs[id].state = "FUNDED" /\ chain[id].payer # holder /\ task[holder].at # "minted"
      => task[holder].at = "unsettled" /\ chain[id].payer \notin charged

\* The window of an agreement's quote is over.
Lapsed(id) == jobs[id].quoted_at <= now - Window

\* A 402 is kept.  Which agreement a payment is for is looked up twice more after
\* the 402 named one (the paid pass of pricing.py, then the pin handler's checks),
\* and still a buyer whose group joins the agreement of its 402 is refused only
\* if that quote's window is over or somebody else has had its row funded.  The
\* window runs from before the create (pricing.py:327): a create slower than the
\* window hands out a 402 that is over at birth, and that buyer is refused.
LiveQuoteIsTaken ==
  [][\A r \in Request :
       task[r].at \in {"quoted", "verified"} /\ task'[r].at = "rejected"
         => \/ task[r].at = "verified" /\ task[r].joins # task[r].id
            \/ Lapsed(task[r].id)
            \/ jobs[task[r].id].state # "QUOTED"]_vars

\* The limiter bounds how fast a caller may have deposits parked, and never shuts
\* one out: who is told to slow down was let in PerMinute times within the last
\* minute, and asking again while told so does not prolong it.
LimitedOnlyIf ==
  [][\A r \in Request :
       task'[r] # task[r] /\ task'[r].at = "limited"
         => PerMinute <= Cardinality(
              {other \in Request : /\ task[other].at \notin {"idle", "limited"}
                                   /\ task[other].from = task'[r].from
                                   /\ task[other].came > now - Minute})]_vars

\* Every request for a quote gets an answer: no failure, timeout or
\* disconnection keeps create_lock from the requests queued behind it.
EveryRequestAnswered ==
  \A r \in Request : task[r].at = "queued" ~> task[r].at \in Answered
=============================================================================
