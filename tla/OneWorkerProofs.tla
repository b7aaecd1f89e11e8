-------------------------- MODULE OneWorkerProofs --------------------------
(***************************************************************************)
(* Proofs about Quotes for a middleware of one worker process, as the      *)
(* Dockerfile starts it (Dockerfile:102).  Requests, files, sources,       *)
(* windows and ceilings are any, and so are the faults but in the theorem  *)
(* about orphans.                                                          *)
(*                                                                         *)
(* create_lock, and the mint that awaits nothing, make one create and one  *)
(* mint of a worker at a time (OneOfEach), so of the whole middleware.  On *)
(* that stand four invariants: that a create goes on only while its file   *)
(* has no open quote and the ceiling is not reached (QuoteInv); that the   *)
(* seat, the job and the charge of a payment are one buyer's (PayInv);     *)
(* that a payment is matched to the agreement its 402 named, while that is *)
(* open (OfferInv); and that an intent still leads to a deposit that has   *)
(* no row (OrphanInv).                                                     *)
(***************************************************************************)
EXTENDS QuotesProofs

\* One worker: all workers are the same.
OneWorker == \A p, q \in Process : p = q

-----------------------------------------------------------------------------
(* The inductive invariant, in three parts on top of CreateInv.            *)

\* A create goes on only while its file has no open quote and the ceiling is
\* not reached.
Vacant ==
  \A r \in Request : task[r].at \in Unwritten =>
    Reusable(task[r].file) = {} /\ CountUnfunded < MaxUnfunded

OneEach ==
  \A f \in File : \A a, b \in Reusable(f) : a = b

\* A seat is bought with the job: the paid request that passed its checks has
\* the row to itself, and after the mint the row is its own.
Bought == {"minted", "settled", "unsettled"}

Minting ==
  \A r \in Request :
    /\ task[r].at \in {"checked"} \cup Bought =>
         /\ task[r].joins = task[r].wanted
         /\ task[r].wanted \in DOMAIN jobs
         /\ jobs[task[r].wanted].file = task[r].file
    /\ task[r].at = "checked" => jobs[task[r].wanted].state = "QUOTED"
    /\ task[r].at \in Bought =>
         jobs[task[r].wanted].state = "FUNDED" /\ jobs[task[r].wanted].holder = r

Funded ==
  \A id \in DOMAIN jobs :
    /\ jobs[id].state \in {"QUOTED", "FUNDED"}
    /\ jobs[id].state = "FUNDED" =>
         /\ jobs[id].holder \in Request
         /\ task[jobs[id].holder].at \in Bought
         /\ task[jobs[id].holder].wanted = id

Seated ==
  /\ charged = {r \in Request : task[r].at = "settled"}
  /\ \A r \in charged :
       task[r].wanted \in DOMAIN chain => chain[task[r].wanted].payer = r
  /\ \A id \in DOMAIN chain : chain[id].payer \in Request =>
       task[chain[id].payer].at = "settled" /\ task[chain[id].payer].wanted = id

\* While a create is under way, no other agreement of this middleware has an
\* id from the predicted one on, no row either, and its intent stands.
Alone ==
  /\ inflight \subseteq {r \in Request : task[r].at = "submitted"}
  /\ \A r \in Request :
       /\ task[r].at \in Named =>
            \A id \in DOMAIN chain :
              id >= task[r].intended /\ chain[id].maker # Outsider => chain[id].maker = r
       /\ task[r].at \in Named \cap Unwritten =>
            \A id \in DOMAIN jobs : id < task[r].intended
       /\ task[r].at \in {"creating", "submitted", "created"} =>
            task[r].intended \in DOMAIN intents

-----------------------------------------------------------------------------
(* One open quote per file, under the ceiling.                             *)

\* A step after which no more is quoted, and nobody new is about to write.
Quieter ==
  /\ Quoted' \subseteq Quoted
  /\ \A f \in File : Reusable(f)' \subseteq Reusable(f)
  /\ \A q \in Request : task'[q].at \in Unwritten =>
       task[q].at \in Unwritten /\ task'[q].file = task[q].file

QuoteInv == Vacant /\ OneEach /\ CeilingHolds

LEMMA QuotedFinite ==
  ASSUME TypeOK
  PROVE  IsFiniteSet(Quoted) /\ Cardinality(Quoted) \in Nat
  <1>1. IsFiniteSet(1..(MaxAgreements + 1))
    BY FS_Interval, QuotesAssumption
  <1>2. Quoted \subseteq 1..(MaxAgreements + 1)
    BY DEF Quoted, TypeOK
  <1> QED
    BY <1>1, <1>2, FS_Subset, FS_CardinalityType

LEMMA QuieterKeeps ==
  ASSUME TypeOK, QuoteInv, Quieter, task' \in [Request -> Task]
  PROVE  QuoteInv'
  <1>1. CountUnfunded' <= CountUnfunded /\ CountUnfunded \in Nat /\ CountUnfunded' \in Nat
    <2>1. IsFiniteSet(Quoted)
      BY QuotedFinite
    <2>2. Cardinality(Quoted') <= Cardinality(Quoted)
      BY <2>1, FS_Subset DEF Quieter
    <2>3. IsFiniteSet(Quoted')
      BY <2>1, FS_Subset DEF Quieter
    <2>4. Cardinality(Quoted) \in Nat /\ Cardinality(Quoted') \in Nat
      BY <2>1, <2>3, FS_CardinalityType
    <2> QED
      BY <2>2, <2>4 DEF CountUnfunded
  <1>2. Vacant'
    <2> SUFFICES ASSUME NEW r \in Request, task'[r].at \in Unwritten
                 PROVE  Reusable(task[r].file)' = {} /\ CountUnfunded' < MaxUnfunded
                        /\ task'[r].file = task[r].file
      BY DEF Vacant, Quieter
    <2>1. task[r].file \in File /\ task'[r].file = task[r].file
      BY DEF TypeOK, Task, Quieter
    <2>2. Reusable(task[r].file) = {} /\ CountUnfunded < MaxUnfunded
      BY DEF QuoteInv, Vacant, Quieter
    <2>3. Reusable(task[r].file)' = {}
      BY <2>1, <2>2 DEF Quieter
    <2> QED
      BY <2>1, <2>2, <2>3, <1>1, QuotesAssumption
  <1>3. OneEach'
    BY DEF OneEach, QuoteInv, Quieter
  <1>4. CeilingHolds'
    BY <1>1, QuotesAssumption DEF QuoteInv, CeilingHolds
  <1> QED
    BY <1>2, <1>3, <1>4 DEF QuoteInv

-----------------------------------------------------------------------------
(* Steps that take no create and no payment any further.                   *)

AsideStep ==
  \/ \E r \in Request, p \in Process, f \in File, s \in Source : Arrive(r, p, f, s)
  \/ \E r \in Request : Fail(r) \/ TimeOut(r) \/ Disconnect(r)
  \/ \E r \in Request, p \in Process, joins \in {0} \cup DOMAIN chain : Reprice(r, p, joins)
  \/ Surroundings
  \/ UNCHANGED vars

\* The request stays where it is with all it has, or holds nothing any more.
Aside(q) ==
  \/ /\ task'[q].at = task[q].at /\ task'[q].file = task[q].file
     /\ task'[q].intended = task[q].intended /\ task'[q].id = task[q].id
     /\ task'[q].wanted = task[q].wanted /\ task'[q].joins = task[q].joins
  \/ /\ task[q].at \notin Bought
     /\ task'[q].at \notin Creating \cup {"checked"} \cup Bought

LEMMA AsideMoves ==
  ASSUME TypeOK, AsideStep
  PROVE  \A q \in Request : Aside(q)
  <1>1. ASSUME NEW r \in Request, NEW p \in Process, NEW f \in File, NEW s \in Source,
               Arrive(r, p, f, s)
        PROVE  \A q \in Request : Aside(q)
    BY <1>1, ArriveMoves DEF Aside, Creating, Bought
  <1>2. ASSUME NEW r \in Request, Fail(r) \/ TimeOut(r)
        PROVE  \A q \in Request : Aside(q)
    <2>1. At(r, "failed") /\ task[r].at \notin Bought
      BY <1>2 DEF Fail, TimeOut, AfterFailure, Bought
    <2>2. Moved(r, "failed")
      BY <2>1, AtMoves DEF Place, Answered
    <2> QED
      BY <2>1, <2>2 DEF Aside, Moved, Creating, Bought
  <1>3. ASSUME NEW r \in Request, Disconnect(r)
        PROVE  \A q \in Request : Aside(q)
    BY <1>3, DisconnectMoves DEF Aside, Moved
  <1>4. ASSUME NEW r \in Request, NEW p \in Process, NEW joins \in {0} \cup DOMAIN chain,
               Reprice(r, p, joins)
        PROVE  \A q \in Request : Aside(q)
    BY <1>4, RepriceMoves DEF Aside, Creating, Bought
  <1>5. ASSUME NEW p \in Process, Crash(p)
        PROVE  \A q \in Request : Aside(q)
    BY <1>5, CrashMoves DEF Aside, Creating, Bought
  <1>6. ASSUME UNCHANGED task
        PROVE  \A q \in Request : Aside(q)
    BY <1>6 DEF Aside
  <1> QED
    BY <1>1, <1>2, <1>3, <1>4, <1>5, <1>6
       DEF AsideStep, Surroundings, Tick, Land, CreateElsewhere, JoinDirectly, vars

\* They write no row, and time does not run back.
LEMMA AsideRows ==
  ASSUME TypeOK, AsideStep
  PROVE  UNCHANGED jobs /\ now <= now'
  <1>1. UNCHANGED <<now, jobs>> \/ Tick
    BY DEF AsideStep, Arrive, Fail, TimeOut, Disconnect, Reprice, Surroundings, Land,
           Crash, CreateElsewhere, JoinDirectly, vars, storeVars
  <1> QED
    BY <1>1 DEF Tick, storeVars, TypeOK

\* The next-state relation, by what its steps do.
LEMMA NextIs ==
  ASSUME [Next]_vars
  PROVE  \/ AsideStep
         \/ \E r \in Request :
              \/ Enter(r) \/ ReadNextId(r) \/ RecordIntent(r) \/ Submit(r)
              \/ Confirm(r) \/ WriteRow(r) \/ ClearIntended(r) \/ ClearActual(r)
              \/ CheckMint(r) \/ Mint(r) \/ Settle(r) \/ SettleFails(r)
  BY DEF Next, Ask, Create, Pay, AsideStep

LEMMA SameRowsQuieter ==
  ASSUME TypeOK, UNCHANGED jobs, now <= now', now' \in Nat,
         \A q \in Request : task'[q].at \in Unwritten =>
           task[q].at \in Unwritten /\ task'[q].file = task[q].file
  PROVE  Quieter
  <1>1. Quoted' = Quoted
    BY DEF Quoted
  <1>2. \A f \in File : Reusable(f)' \subseteq Reusable(f)
    <2> SUFFICES ASSUME NEW f \in File, NEW id \in Quoted,
                        jobs[id].file = f, jobs[id].quoted_at > now' - Window
                 PROVE  jobs[id].quoted_at > now - Window
      BY <1>1 DEF Reusable
    <2>1. jobs[id].quoted_at \in Nat
      BY DEF Quoted, TypeOK, Job
    <2> QED
      BY <2>1, QuotesAssumption DEF TypeOK
  <1> QED
    BY <1>1, <1>2 DEF Quieter

LEMMA EnterQuotes ==
  ASSUME TypeOK, QuoteInv, NEW r \in Request, Enter(r)
  PROVE  QuoteInv'
  <1>1. /\ \A q \in Request : q # r => task'[q] = task[q]
        /\ \/ task'[r].at \in {"quoted", "refused"}
           \/ /\ task'[r].at = "reading"
              /\ Reusable(task[r].file) = {}
              /\ ~(CountUnfunded >= MaxUnfunded)
        /\ task'[r].file = task[r].file
    BY EnterMoves
  <1>2. Quoted' = Quoted /\ \A f : Reusable(f)' = Reusable(f)
    BY DEF Enter, storeVars, Quoted, Reusable
  <1>3. CountUnfunded' = CountUnfunded /\ CountUnfunded \in Nat
    BY <1>2, QuotedFinite DEF CountUnfunded
  <1>4. Vacant'
    <2> SUFFICES ASSUME NEW q \in Request, task'[q].at \in Unwritten
                 PROVE  Reusable(task'[q].file) = {} /\ CountUnfunded < MaxUnfunded
      BY <1>2, <1>3 DEF Vacant
    <2>1. CASE q = r
      BY <1>1, <1>3, <2>1, QuotesAssumption DEF Unwritten
    <2>2. CASE q # r
      BY <1>1, <2>2 DEF QuoteInv, Vacant
    <2> QED
      BY <2>1, <2>2
  <1> QED
    BY <1>2, <1>3, <1>4 DEF QuoteInv, OneEach, CeilingHolds

LEMMA WriteRowQuotes ==
  ASSUME OneWorker, TypeOK, OneCreator, QuoteInv, NEW r \in Request, WriteRow(r)
  PROVE  QuoteInv'
  <1> DEFINE row == [file |-> task[r].file, state |-> "QUOTED",
                     quoted_at |-> task[r].asked, holder |-> Nobody]
  <1>1. Moved(r, "written") /\ task[r].at = "created"
    BY AtMoves DEF WriteRow, Place, Creating
  <1>2. jobs' = Put(jobs, task[r].id, row) /\ UNCHANGED now /\ task[r].id \notin DOMAIN jobs
    BY DEF WriteRow
  <1>3. row.file = task[r].file /\ row.state = "QUOTED"
    OBVIOUS
  <1> HIDE DEF row
  <1>4. DOMAIN jobs' = DOMAIN jobs \cup {task[r].id}
    BY <1>2, PutDomain
  <1>5. jobs'[task[r].id] = row
    BY <1>2, PutRow
  <1>6. \A id \in DOMAIN jobs : jobs'[id] = jobs[id]
    BY <1>2, PutOthers
  <1>7. Reusable(task[r].file) = {} /\ CountUnfunded < MaxUnfunded
    BY <1>1 DEF QuoteInv, Vacant, Unwritten
  <1>8. Quoted' = Quoted \cup {task[r].id}
    BY <1>3, <1>4, <1>5, <1>6 DEF Quoted
  <1>9. \A f \in File : f # task[r].file => Reusable(f)' \subseteq Reusable(f)
    BY <1>2, <1>3, <1>5, <1>6, <1>8 DEF Reusable, Quoted
  <1>10. Reusable(task[r].file)' \subseteq {task[r].id}
    <2> SUFFICES ASSUME NEW id \in Quoted, jobs'[id].file = task'[r].file,
                        jobs'[id].quoted_at > now' - Window
                 PROVE  FALSE
      BY <1>8 DEF Reusable
    <2>1. jobs[id].file = task[r].file /\ jobs[id].quoted_at > now - Window
      BY <1>1, <1>2, <1>6 DEF Quoted, Moved
    <2> QED
      BY <1>7, <2>1 DEF Reusable
  <1>11. OneEach'
    <2>1. task'[r].file = task[r].file
      BY <1>1 DEF Moved
    <2> QED
      BY <1>9, <1>10, <2>1 DEF QuoteInv, OneEach
  <1>12. CeilingHolds'
    <2>1. IsFiniteSet(Quoted) /\ Cardinality(Quoted) \in Nat
      BY QuotedFinite
    <2>2. task[r].id \notin Quoted
      BY <1>2 DEF Quoted
    <2>3. Cardinality(Quoted') = Cardinality(Quoted) + 1
      BY <1>8, <2>1, <2>2, FS_AddElement
    <2> QED
      BY <1>7, <2>1, <2>3, QuotesAssumption DEF CeilingHolds, CountUnfunded
  <1>13. Vacant'
    <2>1. ASSUME NEW q \in Request, task'[q].at \in Unwritten
          PROVE  FALSE
      <3>1. q # r
        BY <1>1, <2>1 DEF Moved, Unwritten
      <3>2. task[q].at \in Creating /\ task[r].at \in Creating
        BY <1>1, <2>1, <3>1 DEF Moved, Unwritten, Creating
      <3>3. task[q].proc = task[r].proc
        BY DEF OneWorker, TypeOK, Task
      <3> QED
        BY <3>1, <3>2, <3>3 DEF OneCreator
    <2> QED
      BY <2>1 DEF Vacant
  <1> QED
    BY <1>11, <1>12, <1>13 DEF QuoteInv

LEMMA MintQuieter ==
  ASSUME TypeOK, NEW r \in Request, Mint(r)
  PROVE  Quieter
  <1>1. Moved(r, "minted")
    BY AtMoves DEF Mint, Place, Paying
  <1>2. jobs' = [jobs EXCEPT ![task[r].wanted].state = "FUNDED",
                             ![task[r].wanted].holder = r]
        /\ UNCHANGED now
    BY DEF Mint
  <1>3. \A row \in Job : [[row EXCEPT !.state = "FUNDED"] EXCEPT !.holder = r].state = "FUNDED"
    BY DEF Job
  <1>4. /\ DOMAIN jobs' = DOMAIN jobs
        /\ \A id \in DOMAIN jobs : jobs'[id] = jobs[id] \/ jobs'[id].state = "FUNDED"
    BY <1>2, <1>3 DEF TypeOK
  <1>5. Quoted' \subseteq Quoted /\ \A f \in File : Reusable(f)' \subseteq Reusable(f)
    BY <1>2, <1>4 DEF Quoted, Reusable
  <1>6. \A q \in Request : task'[q].at \in Unwritten =>
          task[q].at \in Unwritten /\ task'[q].file = task[q].file
    BY <1>1 DEF Moved, Unwritten
  <1> QED
    BY <1>5, <1>6 DEF Quieter

LEMMA NextQuotes ==
  ASSUME OneWorker, TypeOK, TypeOK', OneCreator, QuoteInv, [Next]_vars
  PROVE  QuoteInv'
  <1>1. task' \in [Request -> Task] /\ now' \in Nat
    BY DEF TypeOK
  <1>2. CASE AsideStep
    <2>1. \A q \in Request : task'[q].at \in Unwritten =>
            task[q].at \in Unwritten /\ task'[q].file = task[q].file
      BY <1>2, AsideMoves DEF Aside, Unwritten, Creating
    <2>2. Quieter
      BY <1>1, <1>2, <2>1, AsideRows, SameRowsQuieter
    <2> QED
      BY <1>1, <2>2, QuieterKeeps
  <1>3. ASSUME NEW r \in Request, ReadNextId(r) \/ Submit(r)
        PROVE  QuoteInv'
    <2>1. UNCHANGED <<jobs, now>>
      BY <1>3 DEF ReadNextId, Submit, storeVars
    <2>2. \A q \in Request : task'[q].at \in Unwritten =>
            task[q].at \in Unwritten /\ task'[q].file = task[q].file
      BY <1>3, ReadNextIdMoves, SubmitMoves DEF Unwritten
    <2>3. Quieter
      BY <1>1, <2>1, <2>2, SameRowsQuieter
    <2> QED
      BY <1>1, <2>3, QuieterKeeps
  <1>4. ASSUME NEW r \in Request,
               RecordIntent(r) \/ Confirm(r) \/ ClearIntended(r) \/ ClearActual(r)
                 \/ CheckMint(r) \/ Settle(r) \/ SettleFails(r)
        PROVE  QuoteInv'
    <2>1. UNCHANGED <<jobs, now>>
      BY <1>4 DEF RecordIntent, Confirm, ClearIntended, ClearActual, CheckMint, Settle,
                  SettleFails, storeVars
    <2>2. PICK place \in {"creating", "created", "failed", "quoted", "shifted", "checked",
                          "rejected", "settled", "unsettled"} :
            At(r, place) /\ (place \in Unwritten => task[r].at \in Unwritten)
      BY <1>4 DEF RecordIntent, Confirm, ClearIntended, ClearActual, CheckMint, Settle,
                  SettleFails, Unwritten
    <2>3. Moved(r, place)
      BY <2>2, AtMoves DEF Place, Creating, Paying, Answered
    <2>4. \A q \in Request : task'[q].at \in Unwritten =>
            task[q].at \in Unwritten /\ task'[q].file = task[q].file
      BY <2>2, <2>3 DEF Moved
    <2>5. Quieter
      BY <1>1, <2>1, <2>4, SameRowsQuieter
    <2> QED
      BY <1>1, <2>5, QuieterKeeps
  <1>5. ASSUME NEW r \in Request, Mint(r)
        PROVE  QuoteInv'
    BY <1>1, <1>5, MintQuieter, QuieterKeeps
  <1> QED
    BY <1>2, <1>3, <1>4, <1>5, EnterQuotes, WriteRowQuotes, NextIs

-----------------------------------------------------------------------------
(* A seat and its job go to one buyer.                                     *)

PayInv == Minting /\ Funded /\ Seated

\* A step that gets no request into its mint or out of it, while rows and
\* agreements are only added, unpaid, or paid for by someone outside.
Unpaid ==
  /\ \A q \in Request :
       /\ task'[q].at \in {"checked"} \cup Bought =>
            /\ task'[q].at = task[q].at /\ task'[q].file = task[q].file
            /\ task'[q].wanted = task[q].wanted /\ task'[q].joins = task[q].joins
       /\ task[q].at \in Bought =>
            task'[q].at = task[q].at /\ task'[q].wanted = task[q].wanted
  /\ DOMAIN jobs \subseteq DOMAIN jobs'
  /\ \A id \in DOMAIN jobs : jobs'[id] = jobs[id]
  /\ \A id \in DOMAIN jobs' \ DOMAIN jobs : jobs'[id].state = "QUOTED"
  /\ DOMAIN chain \subseteq DOMAIN chain'
  /\ \A id \in DOMAIN chain :
       \/ chain'[id].payer = chain[id].payer
       \/ chain[id].payer = Nobody /\ chain'[id].payer = Outsider
  /\ \A id \in DOMAIN chain' \ DOMAIN chain : chain'[id].payer = Nobody
  /\ charged' = charged

LEMMA UnpaidKeeps ==
  ASSUME QuoteIsReal, PayInv, Unpaid
  PROVE  PayInv'
  <1>1. Minting'
    BY DEF PayInv, Minting, Unpaid, Bought
  <1>2. Funded'
    BY DEF PayInv, Funded, Unpaid
  <1>3. Seated'
    <2>1. charged' = {r \in Request : task'[r].at = "settled"}
      BY DEF PayInv, Seated, Unpaid, Bought
    <2>2. ASSUME NEW r \in charged
          PROVE  chain'[task'[r].wanted].payer = r
      <3>1. r \in Request /\ task[r].at = "settled" /\ task'[r].wanted = task[r].wanted
        BY <2>2 DEF PayInv, Seated, Unpaid, Bought
      <3>2. task[r].wanted \in DOMAIN chain
        BY <3>1 DEF PayInv, Minting, QuoteIsReal, Bought
      <3>3. chain[task[r].wanted].payer = r /\ r # Nobody
        BY <3>1, <3>2, <2>2, QuotesAssumption DEF PayInv, Seated
      <3> QED
        BY <3>1, <3>2, <3>3 DEF Unpaid
    <2>3. ASSUME NEW id \in DOMAIN chain', chain'[id].payer \in Request
          PROVE  /\ task'[chain'[id].payer].at = "settled"
                 /\ task'[chain'[id].payer].wanted = id
      <3>1. id \in DOMAIN chain /\ chain'[id].payer = chain[id].payer
        BY <2>3, QuotesAssumption DEF Unpaid
      <3>2. task[chain[id].payer].at = "settled" /\ task[chain[id].payer].wanted = id
        BY <2>3, <3>1 DEF PayInv, Seated
      <3> QED
        BY <2>3, <3>1, <3>2 DEF Unpaid, Bought
    <2> QED
      BY <2>1, <2>2, <2>3 DEF Seated, Unpaid
  <1> QED
    BY <1>1, <1>2, <1>3 DEF PayInv

\* What an aside does to the chain: somebody outside takes a seat, or a group
\* lands, or the operator creates an agreement.
LEMMA AsideSeats ==
  ASSUME TypeOK, AsideStep
  PROVE  /\ DOMAIN chain \subseteq DOMAIN chain'
         /\ \A id \in DOMAIN chain :
              \/ chain'[id].payer = chain[id].payer
              \/ chain[id].payer = Nobody /\ chain'[id].payer = Outsider
         /\ \A id \in DOMAIN chain' \ DOMAIN chain : chain'[id].payer = Nobody
         /\ charged' = charged
  <1>1. charged' = charged
    BY DEF AsideStep, Arrive, Fail, TimeOut, Disconnect, Reprice, Surroundings, Tick, Land,
           Crash, CreateElsewhere, JoinDirectly, vars
  <1>2. \/ UNCHANGED chain
        \/ \E r \in Request : Land(r)
        \/ \E file \in File : CreateElsewhere(file)
        \/ \E id \in DOMAIN chain : JoinDirectly(id)
    BY DEF AsideStep, Arrive, Fail, TimeOut, Disconnect, Reprice, Surroundings, Tick,
           Crash, vars, chainVars
  <1>3. ASSUME NEW file, NEW maker, agreement_count < MaxAgreements,
               chain' = Put(chain, next_agreement_id, NewAgreement(file, maker))
        PROVE  /\ DOMAIN chain \subseteq DOMAIN chain'
               /\ \A id \in DOMAIN chain : chain'[id] = chain[id]
               /\ \A id \in DOMAIN chain' \ DOMAIN chain : chain'[id].payer = Nobody
    <2>1. NewAgreement(file, maker).payer = Nobody
      BY DEF NewAgreement
    <2>2. /\ DOMAIN chain' = DOMAIN chain \cup {next_agreement_id}
          /\ chain'[next_agreement_id] = NewAgreement(file, maker)
          /\ \A id \in DOMAIN chain : chain'[id] = chain[id]
      BY <1>3, ChainGrows
    <2> QED
      BY <2>1, <2>2
  <1>4. CASE UNCHANGED chain
    BY <1>1, <1>4
  <1>5. ASSUME NEW r \in Request, Land(r), ~UNCHANGED chain
        PROVE  /\ DOMAIN chain \subseteq DOMAIN chain'
               /\ \A id \in DOMAIN chain : chain'[id] = chain[id]
               /\ \A id \in DOMAIN chain' \ DOMAIN chain : chain'[id].payer = Nobody
    <2>1. /\ agreement_count < MaxAgreements
          /\ chain' = Put(chain, next_agreement_id, NewAgreement(task[r].file, r))
      BY <1>5 DEF Land
    <2> QED
      BY <2>1, <1>3
  <1>6. ASSUME NEW file \in File, CreateElsewhere(file)
        PROVE  /\ DOMAIN chain \subseteq DOMAIN chain'
               /\ \A id \in DOMAIN chain : chain'[id] = chain[id]
               /\ \A id \in DOMAIN chain' \ DOMAIN chain : chain'[id].payer = Nobody
    BY <1>3, <1>6 DEF CreateElsewhere
  <1>7. ASSUME NEW i \in DOMAIN chain, JoinDirectly(i)
        PROVE  /\ DOMAIN chain' = DOMAIN chain
               /\ \A id \in DOMAIN chain :
                    \/ chain'[id].payer = chain[id].payer
                    \/ chain[id].payer = Nobody /\ chain'[id].payer = Outsider
    <2>1. chain[i].payer = Nobody /\ chain' = [chain EXCEPT ![i].payer = Outsider]
      BY <1>7 DEF JoinDirectly
    <2>2. chain[i] \in Agreement
      BY DEF TypeOK
    <2>3. [chain[i] EXCEPT !.payer = Outsider].payer = Outsider
      BY <2>2 DEF Agreement
    <2> QED
      BY <2>1, <2>3
  <1> QED
    BY <1>1, <1>2, <1>4, <1>5, <1>6, <1>7

\* A step that touches no row, no seat and no charge.
LEMMA SameSeatsUnpaid ==
  ASSUME UNCHANGED <<jobs, chain, charged>>,
         \A q \in Request :
           /\ task'[q].at \in {"checked"} \cup Bought =>
                /\ task'[q].at = task[q].at /\ task'[q].file = task[q].file
                /\ task'[q].wanted = task[q].wanted /\ task'[q].joins = task[q].joins
           /\ task[q].at \in Bought =>
                task'[q].at = task[q].at /\ task'[q].wanted = task[q].wanted
  PROVE  Unpaid
  BY DEF Unpaid

\* The SELECT of transition found the row QUOTED, and nothing else of the
\* worker ran since.
LEMMA CheckMintPays ==
  ASSUME TypeOK, PayInv, NEW r \in Request, CheckMint(r)
  PROVE  PayInv'
  <1>1. /\ task[r].at = "verified"
        /\ \/ At(r, "rejected")
           \/ At(r, "checked") /\ CanMint(task[r])
        /\ UNCHANGED <<chain, jobs, charged>>
    BY DEF CheckMint, chainVars, storeVars
  <1>2. PICK place \in {"checked", "rejected"} :
          At(r, place) /\ (place = "checked" => CanMint(task[r]))
    BY <1>1
  <1>3. Moved(r, place)
    BY <1>2, AtMoves DEF Place, Paying, Answered
  <1>4. place = "checked" =>
          /\ task[r].joins = task[r].wanted /\ task[r].wanted \in DOMAIN jobs
          /\ jobs[task[r].wanted].file = task[r].file
          /\ jobs[task[r].wanted].state = "QUOTED"
    <2> SUFFICES ASSUME place = "checked"
                 PROVE  /\ task[r].joins = task[r].wanted /\ task[r].wanted \in DOMAIN jobs
                        /\ jobs[task[r].wanted].file = task[r].file
                        /\ jobs[task[r].wanted].state = "QUOTED"
      OBVIOUS
    <2>1. /\ task[r].joins = task[r].wanted /\ task[r].wanted \in DOMAIN jobs
          /\ jobs[task[r].wanted].file = task[r].file
          /\ "FUNDED" \in Allowed[jobs[task[r].wanted].state]
      BY <1>2 DEF CanMint, Buys
    <2>2. jobs[task[r].wanted].state \in {"QUOTED", "FUNDED"}
      BY <2>1 DEF PayInv, Funded
    <2>3. "FUNDED" \notin Allowed["FUNDED"]
      BY DEF Allowed, JobState
    <2> QED
      BY <2>1, <2>2, <2>3
  <1>5. Minting'
    BY <1>1, <1>3, <1>4 DEF PayInv, Minting, Moved, Bought
  <1>6. Funded'
    BY <1>1, <1>3 DEF PayInv, Funded, Moved, Bought
  <1>7. Seated'
    BY <1>1, <1>3 DEF PayInv, Seated, Moved
  <1> QED
    BY <1>5, <1>6, <1>7 DEF PayInv

LEMMA MintPays ==
  ASSUME OneWorker, TypeOK, OneMinter, PayInv, NEW r \in Request, Mint(r)
  PROVE  PayInv'
  <1>1. /\ task[r].at = "checked" /\ At(r, "minted")
        /\ jobs' = [jobs EXCEPT ![task[r].wanted].state = "FUNDED",
                                ![task[r].wanted].holder = r]
        /\ UNCHANGED <<chain, charged>>
    BY DEF Mint, chainVars
  <1>2. Moved(r, "minted")
    BY <1>1, AtMoves DEF Place, Paying
  <1>3. /\ task[r].joins = task[r].wanted /\ task[r].wanted \in DOMAIN jobs
        /\ jobs[task[r].wanted].file = task[r].file
        /\ jobs[task[r].wanted].state = "QUOTED"
    BY <1>1 DEF PayInv, Minting
  <1>4. /\ DOMAIN jobs' = DOMAIN jobs
        /\ \A id \in DOMAIN jobs : id # task[r].wanted => jobs'[id] = jobs[id]
        /\ jobs'[task[r].wanted] =
             [[jobs[task[r].wanted] EXCEPT !.state = "FUNDED"] EXCEPT !.holder = r]
    BY <1>1, <1>3
  <1>5. \A row \in Job :
          LET new == [[row EXCEPT !.state = "FUNDED"] EXCEPT !.holder = r]
          IN  new.state = "FUNDED" /\ new.holder = r /\ new.file = row.file
    BY DEF Job
  <1>6. /\ jobs'[task[r].wanted].state = "FUNDED" /\ jobs'[task[r].wanted].holder = r
        /\ jobs'[task[r].wanted].file = jobs[task[r].wanted].file
    BY <1>3, <1>4, <1>5 DEF TypeOK
  <1>7. \A q \in Request : q # r => task[q].at # "checked"
    BY <1>1 DEF OneMinter, OneWorker, TypeOK, Task
  <1>8. Minting'
    <2> SUFFICES ASSUME NEW q \in Request, task'[q].at \in {"checked"} \cup Bought
                 PROVE  /\ task'[q].joins = task'[q].wanted
                        /\ task'[q].wanted \in DOMAIN jobs
                        /\ jobs'[task'[q].wanted].file = task'[q].file
                        /\ task'[q].at \in Bought
                        /\ jobs'[task'[q].wanted].state = "FUNDED"
                        /\ jobs'[task'[q].wanted].holder = q
      BY <1>4 DEF Minting, Bought
    <2>1. CASE q = r
      BY <1>2, <1>3, <1>6, <2>1 DEF Moved, Bought
    <2>2. CASE q # r
      <3>1. task'[q] = task[q] /\ task[q].at \in Bought
        BY <1>2, <1>7, <2>2 DEF Moved, Bought
      <3>2. task[q].wanted # task[r].wanted
        BY <1>3, <3>1 DEF PayInv, Minting
      <3> QED
        BY <1>4, <3>1, <3>2 DEF PayInv, Minting
    <2> QED
      BY <2>1, <2>2
  <1>9. Funded'
    <2> SUFFICES ASSUME NEW id \in DOMAIN jobs
                 PROVE  /\ jobs'[id].state \in {"QUOTED", "FUNDED"}
                        /\ jobs'[id].state = "FUNDED" =>
                             /\ jobs'[id].holder \in Request
                             /\ task'[jobs'[id].holder].at \in Bought
                             /\ task'[jobs'[id].holder].wanted = id
      BY <1>4 DEF Funded
    <2>1. CASE id = task[r].wanted
      BY <1>2, <1>6, <2>1 DEF Moved, Bought
    <2>2. CASE id # task[r].wanted
      BY <1>1, <1>2, <1>4, <2>2 DEF PayInv, Funded, Moved, Bought
    <2> QED
      BY <2>1, <2>2
  <1>10. Seated'
    BY <1>1, <1>2 DEF PayInv, Seated, Moved
  <1> QED
    BY <1>8, <1>9, <1>10 DEF PayInv

LEMMA SettlePays ==
  ASSUME TypeOK, QuoteIsReal, PayInv, NEW r \in Request, Settle(r)
  PROVE  PayInv'
  <1>1. task[r].at = "minted" /\ At(r, "settled") /\ charged' = charged \cup {r}
        /\ UNCHANGED jobs
    BY DEF Settle, storeVars
  <1>2. Moved(r, "settled")
    BY <1>1, AtMoves DEF Place, Answered
  <1>3. task[r].joins = task[r].wanted /\ task[r].wanted \in DOMAIN chain
    BY <1>1 DEF PayInv, Minting, QuoteIsReal, Bought
  <1>4. task[r].joins # 0
    BY <1>3, IdsAre
  <1>5. /\ chain[task[r].wanted].payer = Nobody
        /\ chain' = [chain EXCEPT ![task[r].wanted].payer = r]
    BY <1>3, <1>4 DEF Settle
  <1>6. \A a \in Agreement : [a EXCEPT !.payer = r].payer = r
    BY DEF Agreement
  <1>7. /\ DOMAIN chain' = DOMAIN chain
        /\ chain'[task[r].wanted].payer = r
        /\ \A id \in DOMAIN chain : id # task[r].wanted => chain'[id] = chain[id]
    BY <1>3, <1>5, <1>6 DEF TypeOK
  <1>8. Minting'
    BY <1>1, <1>2 DEF PayInv, Minting, Moved, Bought
  <1>9. Funded'
    BY <1>1, <1>2 DEF PayInv, Funded, Moved, Bought
  <1>10. Seated'
    <2>1. charged' = {q \in Request : task'[q].at = "settled"}
      BY <1>1, <1>2 DEF PayInv, Seated, Moved
    <2>2. ASSUME NEW q \in charged', task'[q].wanted \in DOMAIN chain
          PROVE  chain'[task'[q].wanted].payer = q
      <3>1. CASE q = r
        BY <1>2, <1>7, <3>1 DEF Moved
      <3>2. CASE q # r
        <4>1. q \in charged /\ q \in Request /\ task'[q] = task[q]
          BY <1>1, <1>2, <2>2, <3>2 DEF Moved, TypeOK
        <4>2. chain[task[q].wanted].payer = q
          BY <2>2, <4>1 DEF PayInv, Seated
        <4>3. task[q].wanted # task[r].wanted
          BY <1>5, <4>1, <4>2, QuotesAssumption
        <4> QED
          BY <1>7, <2>2, <4>1, <4>2, <4>3
      <3> QED
        BY <3>1, <3>2
    <2>3. ASSUME NEW id \in DOMAIN chain, chain'[id].payer \in Request
          PROVE  /\ task'[chain'[id].payer].at = "settled"
                 /\ task'[chain'[id].payer].wanted = id
      <3>1. CASE id = task[r].wanted
        BY <1>2, <1>7, <3>1 DEF Moved
      <3>2. CASE id # task[r].wanted
        BY <1>1, <1>2, <1>7, <2>3, <3>2 DEF PayInv, Seated, Moved
      <3> QED
        BY <3>1, <3>2
    <2> QED
      BY <1>7, <2>1, <2>2, <2>3 DEF Seated
  <1> QED
    BY <1>8, <1>9, <1>10 DEF PayInv

LEMMA SettleFailsPays ==
  ASSUME TypeOK, PayInv, NEW r \in Request, SettleFails(r)
  PROVE  PayInv'
  <1>1. task[r].at = "minted" /\ At(r, "unsettled") /\ UNCHANGED <<jobs, chain, charged>>
    BY DEF SettleFails, chainVars, storeVars
  <1>2. Moved(r, "unsettled")
    BY <1>1, AtMoves DEF Place, Answered
  <1>3. Minting'
    BY <1>1, <1>2 DEF PayInv, Minting, Moved, Bought
  <1>4. Funded'
    BY <1>1, <1>2 DEF PayInv, Funded, Moved, Bought
  <1>5. Seated'
    BY <1>1, <1>2 DEF PayInv, Seated, Moved
  <1> QED
    BY <1>3, <1>4, <1>5 DEF PayInv

LEMMA WriteRowUnpaid ==
  ASSUME TypeOK, NEW r \in Request, WriteRow(r)
  PROVE  Unpaid
  <1> DEFINE row == [file |-> task[r].file, state |-> "QUOTED",
                     quoted_at |-> task[r].asked, holder |-> Nobody]
  <1>1. Moved(r, "written") /\ task[r].at = "created"
    BY AtMoves DEF WriteRow, Place, Creating
  <1>2. /\ jobs' = Put(jobs, task[r].id, row) /\ task[r].id \notin DOMAIN jobs
        /\ UNCHANGED <<chain, charged>>
    BY DEF WriteRow, chainVars
  <1>3. row.state = "QUOTED"
    OBVIOUS
  <1> HIDE DEF row
  <1>4. DOMAIN jobs' = DOMAIN jobs \cup {task[r].id}
    BY <1>2, PutDomain
  <1>5. jobs'[task[r].id] = row
    BY <1>2, PutRow
  <1>6. \A id \in DOMAIN jobs : jobs'[id] = jobs[id]
    BY <1>2, PutOthers
  <1> QED
    BY <1>1, <1>2, <1>3, <1>4, <1>5, <1>6 DEF Unpaid, Moved, Bought

LEMMA NextPays ==
  ASSUME OneWorker, TypeOK, QuoteIsReal, OneMinter, PayInv, [Next]_vars
  PROVE  PayInv'
  <1>1. CASE AsideStep
    <2>1. \A q \in Request :
            /\ task'[q].at \in {"checked"} \cup Bought =>
                 /\ task'[q].at = task[q].at /\ task'[q].file = task[q].file
                 /\ task'[q].wanted = task[q].wanted /\ task'[q].joins = task[q].joins
            /\ task[q].at \in Bought =>
                 task'[q].at = task[q].at /\ task'[q].wanted = task[q].wanted
      BY <1>1, AsideMoves DEF Aside
    <2>2. UNCHANGED jobs
      BY <1>1, AsideRows
    <2>3. Unpaid
      BY <1>1, <2>1, <2>2, AsideSeats DEF Unpaid
    <2> QED
      BY <2>3, UnpaidKeeps
  <1>2. ASSUME NEW r \in Request,
               Enter(r) \/ ReadNextId(r) \/ Submit(r)
        PROVE  PayInv'
    <2>1. UNCHANGED <<jobs, chain, charged>>
      BY <1>2 DEF Enter, ReadNextId, Submit, storeVars, chainVars
    <2>2. /\ \A q \in Request : q # r => task'[q] = task[q]
          /\ task[r].at \notin Bought /\ task'[r].at \notin {"checked"} \cup Bought
      BY <1>2, EnterMoves, ReadNextIdMoves, SubmitMoves DEF Bought
    <2>3. Unpaid
      BY <2>1, <2>2, SameSeatsUnpaid
    <2> QED
      BY <2>3, UnpaidKeeps
  <1>3. ASSUME NEW r \in Request,
               RecordIntent(r) \/ Confirm(r) \/ ClearIntended(r) \/ ClearActual(r)
        PROVE  PayInv'
    <2>1. UNCHANGED <<jobs, chain, charged>>
      BY <1>3 DEF RecordIntent, Confirm, ClearIntended, ClearActual, chainVars, storeVars
    <2>2. task[r].at \notin Bought
      BY <1>3 DEF RecordIntent, Confirm, ClearIntended, ClearActual, Bought
    <2>3. PICK place \in {"creating", "created", "failed", "quoted", "shifted"} :
            At(r, place)
      BY <1>3 DEF RecordIntent, Confirm, ClearIntended, ClearActual
    <2>4. Moved(r, place)
      BY <2>3, AtMoves DEF Place, Creating, Answered
    <2>5. Unpaid
      BY <2>1, <2>2, <2>4, SameSeatsUnpaid DEF Moved, Bought
    <2> QED
      BY <2>5, UnpaidKeeps
  <1>4. ASSUME NEW r \in Request, WriteRow(r)
        PROVE  PayInv'
    BY <1>4, WriteRowUnpaid, UnpaidKeeps
  <1> QED
    BY <1>1, <1>2, <1>3, <1>4, CheckMintPays, MintPays, SettlePays, SettleFailsPays, NextIs

-----------------------------------------------------------------------------
(* Every parked deposit is in jobs or still intended.                      *)

OrphanInv == Alone /\ OrphanIsFindable

\* One worker, so one create.
LEMMA NobodyElse ==
  ASSUME OneWorker, TypeOK, OneCreator, NEW r \in Request, task[r].at \in Creating,
         NEW q \in Request, task[q].at \in Creating
  PROVE  q = r
  <1>1. task[q].proc = task[r].proc
    BY DEF OneWorker, TypeOK, Task
  <1> QED
    BY <1>1 DEF OneCreator

\* A step that makes no agreement, no row and no intent, and takes no create
\* further.
Asleep ==
  /\ SameIds /\ UNCHANGED intents
  /\ inflight' \subseteq {q \in Request : task'[q].at = "submitted"}
  /\ \A q \in Request : task'[q].at \in Named =>
       task'[q].at = task[q].at /\ task'[q].intended = task[q].intended

LEMMA AsleepKeeps ==
  ASSUME OrphanInv, Asleep
  PROVE  OrphanInv'
  <1>1. Alone'
    <2>1. ASSUME NEW r \in Request, task'[r].at \in Named
          PROVE  \A id \in DOMAIN chain' :
                   id >= task'[r].intended /\ chain'[id].maker # Outsider
                     => chain'[id].maker = r
      BY <2>1 DEF OrphanInv, Alone, Asleep, SameIds
    <2>2. ASSUME NEW r \in Request, task'[r].at \in Named \cap Unwritten
          PROVE  \A id \in DOMAIN jobs' : id < task'[r].intended
      BY <2>2 DEF OrphanInv, Alone, Asleep, SameIds
    <2>3. ASSUME NEW r \in Request, task'[r].at \in {"creating", "submitted", "created"}
          PROVE  task'[r].intended \in DOMAIN intents'
      BY <2>3 DEF OrphanInv, Alone, Asleep, Named
    <2> QED
      BY <2>1, <2>2, <2>3 DEF Alone, Asleep
  <1>2. OrphanIsFindable'
    BY DEF OrphanInv, OrphanIsFindable, UnreconciledIntents, Asleep, SameIds
  <1> QED
    BY <1>1, <1>2 DEF OrphanInv

\* The chain has an agreement more: the operator's, or that of the one create
\* under way.
LEMMA GrownChainOrphans ==
  ASSUME OneWorker, CreateInv, OneCreator, OrphanInv,
         NEW file, NEW maker \in Request \cup {Outsider},
         agreement_count < MaxAgreements,
         chain' = Put(chain, next_agreement_id, NewAgreement(file, maker)),
         inflight' \subseteq inflight, UNCHANGED <<jobs, intents, task>>,
         maker \in Request =>
           task[maker].at = "submitted" /\ task[maker].id = next_agreement_id
  PROVE  OrphanInv'
  <1>1. TypeOK
    BY DEF CreateInv
  <1>2. /\ DOMAIN chain' = DOMAIN chain \cup {next_agreement_id}
        /\ chain'[next_agreement_id] = NewAgreement(file, maker)
        /\ \A id \in DOMAIN chain : chain'[id] = chain[id]
    BY <1>1, ChainGrows
  <1>3. chain'[next_agreement_id].maker = maker
    BY <1>2 DEF NewAgreement
  <1>4. Alone'
    <2>1. ASSUME NEW r \in Request, task[r].at \in Named, NEW id \in DOMAIN chain',
                 id >= task[r].intended, chain'[id].maker # Outsider
          PROVE  chain'[id].maker = r
      <3>1. CASE id \in DOMAIN chain
        BY <1>2, <2>1, <3>1 DEF OrphanInv, Alone
      <3>2. CASE id = next_agreement_id
        <4>1. maker \in Request /\ task[maker].at \in Creating /\ task[r].at \in Creating
          BY <1>3, <2>1, <3>2 DEF Creating, Named
        <4> QED
          BY <1>1, <1>3, <3>2, <4>1, NobodyElse
      <3> QED
        BY <1>2, <3>1, <3>2
    <2> QED
      BY <2>1 DEF Alone, OrphanInv
  <1>5. OrphanIsFindable'
    <2>1. ASSUME NEW id \in DOMAIN chain' \ DOMAIN jobs, chain'[id].maker # Outsider
          PROVE  \E i \in UnreconciledIntents : i <= id
      <3>1. CASE id \in DOMAIN chain
        BY <1>2, <2>1, <3>1 DEF OrphanInv, OrphanIsFindable
      <3>2. CASE id = next_agreement_id
        <4>1. maker \in Request /\ task[maker].at = "submitted" /\ task[maker].id = id
          BY <1>3, <2>1, <3>2
        <4>2. task[maker].intended <= id
          BY <4>1 DEF CreateInv, IdsKnown, Sent
        <4>3. /\ task[maker].intended \in DOMAIN intents
              /\ \A i \in DOMAIN jobs : i < task[maker].intended
          BY <4>1 DEF OrphanInv, Alone, Named, Unwritten
        <4>4. task[maker].intended \in UnreconciledIntents
          <5>1. task[maker].intended \notin DOMAIN jobs
            BY <1>1, <4>3 DEF TypeOK
          <5> QED
            BY <4>3, <5>1 DEF UnreconciledIntents
        <4> QED
          BY <4>2, <4>4
      <3> QED
        BY <1>2, <3>1, <3>2
    <2> QED
      BY <2>1 DEF OrphanIsFindable, UnreconciledIntents
  <1> QED
    BY <1>4, <1>5 DEF OrphanInv

LEMMA LandOrphans ==
  ASSUME OneWorker, CreateInv, OneCreator, OrphanInv, NEW r \in Request, Land(r)
  PROVE  OrphanInv'
  <1>1. /\ inflight' \subseteq inflight /\ task[r].at = "submitted"
        /\ UNCHANGED <<jobs, intents, task>>
    BY DEF Land, storeVars, OrphanInv, Alone
  <1>2. CASE task[r].id = next_agreement_id /\ agreement_count < MaxAgreements
    <2>1. chain' = Put(chain, next_agreement_id, NewAgreement(task[r].file, r))
      BY <1>2 DEF Land
    <2> QED
      BY <1>1, <1>2, <2>1, GrownChainOrphans
  <1>3. CASE ~(task[r].id = next_agreement_id /\ agreement_count < MaxAgreements)
    <2>1. chain' = chain
      BY <1>3 DEF Land
    <2>2. SameIds
      BY <1>1, <2>1, SameIdsIfUnchanged DEF CreateInv
    <2>3. Asleep
      BY <1>1, <2>2 DEF Asleep, OrphanInv, Alone
    <2> QED
      BY <2>3, AsleepKeeps
  <1> QED
    BY <1>2, <1>3

LEMMA CreateElsewhereOrphans ==
  ASSUME OneWorker, CreateInv, OneCreator, OrphanInv, NEW file \in File,
         CreateElsewhere(file)
  PROVE  OrphanInv'
  <1>1. /\ agreement_count < MaxAgreements
        /\ chain' = Put(chain, next_agreement_id, NewAgreement(file, Outsider))
        /\ inflight' = inflight /\ UNCHANGED <<jobs, intents, task>>
    BY DEF CreateElsewhere, storeVars
  <1>2. Outsider \notin Request
    BY QuotesAssumption
  <1> QED
    BY <1>1, <1>2, GrownChainOrphans

\* A group that nobody waits for any more is decided.
LEMMA AsideInflight ==
  ASSUME TypeOK, Alone, "late" \notin Faults, AsideStep
  PROVE  inflight' \subseteq {q \in Request : task'[q].at = "submitted"}
  <1>1. inflight \subseteq {q \in Request : task[q].at = "submitted"}
    BY DEF Alone
  <1>2. ASSUME NEW r \in Request, NEW p \in Process, NEW f \in File, NEW s \in Source,
               Arrive(r, p, f, s)
        PROVE  inflight' \subseteq {q \in Request : task'[q].at = "submitted"}
    BY <1>1, <1>2, ArriveMoves DEF Arrive, chainVars
  <1>3. ASSUME NEW r \in Request, Fail(r)
        PROVE  inflight' \subseteq {q \in Request : task'[q].at = "submitted"}
    <2>1. At(r, "failed") /\ task[r].at # "submitted" /\ inflight' = inflight
      BY <1>3 DEF Fail, AfterFailure, chainVars
    <2>2. Moved(r, "failed")
      BY <2>1, AtMoves DEF Place, Answered
    <2> QED
      BY <1>1, <2>1, <2>2 DEF Moved
  <1>4. ASSUME NEW r \in Request, TimeOut(r)
        PROVE  inflight' \subseteq {q \in Request : task'[q].at = "submitted"}
    <2>1. At(r, "failed") /\ inflight' = inflight \ {r}
      BY <1>4 DEF TimeOut, AfterFailure
    <2>2. Moved(r, "failed")
      BY <2>1, AtMoves DEF Place, Answered
    <2> QED
      BY <1>1, <2>1, <2>2 DEF Moved
  <1>5. ASSUME NEW r \in Request, Disconnect(r)
        PROVE  inflight' \subseteq {q \in Request : task'[q].at = "submitted"}
    BY <1>1, <1>5, DisconnectMoves DEF Disconnect, chainVars, Moved
  <1>6. ASSUME NEW r \in Request, NEW p \in Process, NEW joins \in {0} \cup DOMAIN chain,
               Reprice(r, p, joins)
        PROVE  inflight' \subseteq {q \in Request : task'[q].at = "submitted"}
    BY <1>1, <1>6, RepriceMoves DEF Reprice, chainVars
  <1>7. ASSUME NEW p \in Process, Crash(p)
        PROVE  inflight' \subseteq {q \in Request : task'[q].at = "submitted"}
    <2>1. inflight' = inflight \ {r \in Request : /\ task[r].proc = p
                         /\ task[r].at \in {"queued", "verified", "checked"} \cup Creating}
      BY <1>7 DEF Crash
    <2> QED
      BY <1>1, <1>7, <2>1, CrashMoves
  <1>8. ASSUME UNCHANGED task, inflight' \subseteq inflight
        PROVE  inflight' \subseteq {q \in Request : task'[q].at = "submitted"}
    BY <1>1, <1>8
  <1>9. CASE Surroundings \/ UNCHANGED vars
    BY <1>7, <1>8, <1>9
       DEF Surroundings, Tick, Land, CreateElsewhere, JoinDirectly, vars, chainVars
  <1> QED
    BY <1>2, <1>3, <1>4, <1>5, <1>6, <1>9 DEF AsideStep

LEMMA AsideOrphans ==
  ASSUME OneWorker, "late" \notin Faults, CreateInv, OneCreator, OrphanInv, AsideStep
  PROVE  OrphanInv'
  <1>1. TypeOK
    BY DEF CreateInv
  <1>2. UNCHANGED <<jobs, intents>>
    <2>1. UNCHANGED intents
      BY DEF AsideStep, Arrive, Fail, TimeOut, Disconnect, Reprice, Surroundings, Tick,
             Land, Crash, CreateElsewhere, JoinDirectly, vars, storeVars
    <2> QED
      BY <1>1, <2>1, AsideRows
  <1>3. \/ UNCHANGED chain
        \/ \E r \in Request : Land(r)
        \/ \E file \in File : CreateElsewhere(file)
        \/ \E id \in DOMAIN chain : JoinDirectly(id)
    BY DEF AsideStep, Arrive, Fail, TimeOut, Disconnect, Reprice, Surroundings, Tick,
           Crash, vars, chainVars
  <1>4. ASSUME SameIds PROVE OrphanInv'
    <2>1. \A q \in Request : task'[q].at \in Named =>
            task'[q].at = task[q].at /\ task'[q].intended = task[q].intended
      BY <1>1, AsideMoves DEF Aside, Named, Creating
    <2>2. Asleep
      BY <1>1, <1>2, <1>4, <2>1, AsideInflight DEF Asleep, OrphanInv
    <2> QED
      BY <2>2, AsleepKeeps
  <1>5. CASE UNCHANGED chain
    BY <1>1, <1>2, <1>4, <1>5, SameIdsIfUnchanged
  <1>6. ASSUME NEW id \in DOMAIN chain, JoinDirectly(id) PROVE SameIds
    <2>1. chain' = [chain EXCEPT ![id].payer = Outsider]
      BY <1>6 DEF JoinDirectly
    <2> QED
      BY <1>1, <1>2, <2>1, SeatTaken
  <1> QED
    BY <1>3, <1>4, <1>5, <1>6, LandOrphans, CreateElsewhereOrphans

-----------------------------------------------------------------------------
(* The create's own steps.                                                 *)

LEMMA ReadNextIdOrphans ==
  ASSUME CreateInv, OrphanInv, NEW r \in Request, ReadNextId(r)
  PROVE  OrphanInv'
  <1>1. TypeOK
    BY DEF CreateInv
  <1>2. /\ \A q \in Request : q # r => task'[q] = task[q]
        /\ task[r].at = "reading" /\ task'[r].at = "predicted"
        /\ task'[r].intended = next_agreement_id
    BY <1>1, ReadNextIdMoves
  <1>3. UNCHANGED <<chain, inflight, jobs, intents>>
    BY DEF ReadNextId, chainVars, storeVars
  <1>4. \A id \in DOMAIN chain : id < next_agreement_id /\ id \in Nat
    BY <1>1, IdsAre
  <1>5. Alone'
    <2>1. inflight' \subseteq {q \in Request : task'[q].at = "submitted"}
      BY <1>2, <1>3 DEF OrphanInv, Alone
    <2>2. ASSUME NEW q \in Request, q # r
          PROVE  /\ task'[q].at \in Named =>
                      \A id \in DOMAIN chain :
                        id >= task'[q].intended /\ chain[id].maker # Outsider
                          => chain[id].maker = q
                 /\ task'[q].at \in Named \cap Unwritten =>
                      \A id \in DOMAIN jobs : id < task'[q].intended
                 /\ task'[q].at \in {"creating", "submitted", "created"} =>
                      task'[q].intended \in DOMAIN intents
      BY <1>2, <2>2 DEF OrphanInv, Alone
    <2>3. \A id \in DOMAIN chain : ~(id >= task'[r].intended)
      BY <1>1, <1>2, <1>4, IdsAre
    <2>4. \A id \in DOMAIN jobs : id < task'[r].intended
      BY <1>2, <1>4 DEF CreateInv, QuoteIsReal
    <2> QED
      BY <1>2, <1>3, <2>1, <2>2, <2>3, <2>4 DEF Alone
  <1>6. OrphanIsFindable'
    BY <1>3 DEF OrphanInv, OrphanIsFindable, UnreconciledIntents
  <1> QED
    BY <1>5, <1>6 DEF OrphanInv

LEMMA RecordIntentOrphans ==
  ASSUME TypeOK, OrphanInv, NEW r \in Request, RecordIntent(r)
  PROVE  OrphanInv'
  <1>1. /\ task[r].at = "predicted" /\ At(r, "creating")
        /\ intents' = Put(intents, task[r].intended, task[r].file)
        /\ UNCHANGED <<chain, inflight, jobs>>
    BY DEF RecordIntent, chainVars
  <1>2. Moved(r, "creating")
    BY <1>1, AtMoves DEF Place, Creating
  <1>3. DOMAIN intents' = DOMAIN intents \cup {task[r].intended}
    BY <1>1, PutDomain
  <1>4. Alone'
    <2>1. inflight' \subseteq {q \in Request : task'[q].at = "submitted"}
      BY <1>1, <1>2 DEF OrphanInv, Alone, Moved
    <2>2. \A q \in Request :
            /\ task'[q].at \in Named => task[q].at \in Named
            /\ task'[q].at \in Named \cap Unwritten => task[q].at \in Named \cap Unwritten
            /\ task'[q].intended = task[q].intended
            /\ q # r => task'[q] = task[q]
      BY <1>1, <1>2 DEF Moved, Named, Unwritten
    <2>3. ASSUME NEW q \in Request, task'[q].at \in {"creating", "submitted", "created"}
          PROVE  task'[q].intended \in DOMAIN intents'
      BY <1>3, <2>2, <2>3 DEF OrphanInv, Alone
    <2> QED
      BY <1>1, <2>1, <2>2, <2>3 DEF OrphanInv, Alone
  <1>5. OrphanIsFindable'
    BY <1>1, <1>3 DEF OrphanInv, OrphanIsFindable, UnreconciledIntents
  <1> QED
    BY <1>4, <1>5 DEF OrphanInv

LEMMA SubmitOrphans ==
  ASSUME TypeOK, OrphanInv, NEW r \in Request, Submit(r)
  PROVE  OrphanInv'
  <1>1. /\ \A q \in Request : q # r => task'[q] = task[q]
        /\ task[r].at = "creating" /\ task'[r].at = "submitted"
        /\ task'[r].intended = task[r].intended
    BY SubmitMoves
  <1>2. inflight' = inflight \cup {r} /\ UNCHANGED <<chain, jobs, intents>>
    BY DEF Submit, storeVars
  <1>3. Alone'
    <2>1. inflight' \subseteq {q \in Request : task'[q].at = "submitted"}
      BY <1>1, <1>2 DEF OrphanInv, Alone
    <2> QED
      BY <1>1, <1>2, <2>1 DEF OrphanInv, Alone, Named, Unwritten
  <1>4. OrphanIsFindable'
    BY <1>2 DEF OrphanInv, OrphanIsFindable, UnreconciledIntents
  <1> QED
    BY <1>3, <1>4 DEF OrphanInv

LEMMA ConfirmOrphans ==
  ASSUME TypeOK, OrphanInv, NEW r \in Request, Confirm(r)
  PROVE  OrphanInv'
  <1>1. /\ task[r].at = "submitted" /\ r \notin inflight
        /\ UNCHANGED <<chain, inflight, jobs, intents>>
    BY DEF Confirm, chainVars, storeVars
  <1>2. PICK place \in {"created", "failed"} : At(r, place)
    BY DEF Confirm
  <1>3. Moved(r, place)
    BY <1>2, AtMoves DEF Place, Creating, Answered
  <1>4. Alone'
    <2>1. inflight' \subseteq {q \in Request : task'[q].at = "submitted"}
      BY <1>1, <1>3 DEF OrphanInv, Alone, Moved
    <2> QED
      BY <1>1, <1>3, <2>1 DEF OrphanInv, Alone, Named, Unwritten, Moved
  <1>5. OrphanIsFindable'
    BY <1>1 DEF OrphanInv, OrphanIsFindable, UnreconciledIntents
  <1> QED
    BY <1>4, <1>5 DEF OrphanInv

\* An older orphan's intent has an id below those of the create under way.
LEMMA OlderOrphan ==
  ASSUME CreateInv, OrphanInv, NEW r \in Request, task[r].at \in Named,
         NEW id \in DOMAIN chain \ DOMAIN jobs, chain[id].maker # Outsider,
         id # task[r].id
  PROVE  /\ task[r].intended \in Nat
         /\ \E i \in UnreconciledIntents : i \in Nat /\ i <= id /\ i < task[r].intended
  <1>1. TypeOK
    BY DEF CreateInv
  <1>2. task[r].intended \in Nat /\ id \in Nat
    BY <1>1, IdsAre DEF TypeOK, Task
  <1>3. chain[id].maker # r
    BY DEF CreateInv, Made
  <1>4. id < task[r].intended
    BY <1>2, <1>3 DEF OrphanInv, Alone
  <1>5. PICK i \in UnreconciledIntents : i <= id
    BY DEF OrphanInv, OrphanIsFindable
  <1>6. i \in Nat
    BY <1>1 DEF UnreconciledIntents, TypeOK
  <1> QED
    BY <1>2, <1>4, <1>5, <1>6

LEMMA WriteRowOrphans ==
  ASSUME OneWorker, CreateInv, OneCreator, OrphanInv, NEW r \in Request, WriteRow(r)
  PROVE  OrphanInv'
  <1>1. TypeOK
    BY DEF CreateInv
  <1>2. Moved(r, "written") /\ task[r].at = "created"
    BY <1>1, AtMoves DEF WriteRow, Place, Creating
  <1>3. DOMAIN jobs' = DOMAIN jobs \cup {task[r].id} /\ UNCHANGED <<chain, inflight, intents>>
    BY PutDomain DEF WriteRow, chainVars
  <1>4. Alone'
    <2>1. inflight' \subseteq {q \in Request : task'[q].at = "submitted"}
      BY <1>2, <1>3 DEF OrphanInv, Alone, Moved
    <2>2. \A q \in Request : task'[q].at \notin Named \cap Unwritten
      <3>1. \A q \in Request : task[q].at \in Creating => q = r
        BY <1>1, <1>2, NobodyElse DEF Creating
      <3> QED
        BY <1>2, <3>1 DEF Moved, Named, Unwritten, Creating
    <2>3. \A q \in Request : task'[q].at \notin {"creating", "submitted", "created"}
      BY <2>2 DEF Named, Unwritten
    <2> QED
      BY <1>2, <1>3, <2>1, <2>2, <2>3 DEF OrphanInv, Alone, Named, Moved
  <1>5. OrphanIsFindable'
    <2> SUFFICES ASSUME NEW id \in DOMAIN chain \ DOMAIN jobs, id # task[r].id,
                        chain[id].maker # Outsider
                 PROVE  \E i \in DOMAIN intents \ (DOMAIN jobs \cup {task[r].id}) : i <= id
      BY <1>3 DEF OrphanIsFindable, UnreconciledIntents
    <2>1. PICK i \in UnreconciledIntents : i \in Nat /\ i <= id /\ i < task[r].intended
      BY <1>2, OlderOrphan DEF Named
    <2>2. task[r].intended <= task[r].id /\ task[r].intended \in Nat /\ task[r].id \in Nat
      BY <1>1, <1>2 DEF CreateInv, IdsKnown, Sent, TypeOK, Task
    <2>3. i # task[r].id
      BY <2>1, <2>2
    <2> QED
      BY <2>1, <2>3 DEF UnreconciledIntents
  <1> QED
    BY <1>4, <1>5 DEF OrphanInv

\* Clearing an intent of a create that has its row hides no older orphan.
LEMMA ClearOrphans ==
  ASSUME OneWorker, CreateInv, OneCreator, OrphanInv, NEW r \in Request,
         ClearIntended(r) \/ ClearActual(r)
  PROVE  OrphanInv'
  <1> DEFINE cleared == IF task[r].at = "written" THEN task[r].intended ELSE task[r].id
  <1>1. TypeOK
    BY DEF CreateInv
  <1>2. /\ task[r].at \in {"written", "shifted"}
        /\ intents' = Drop(intents, cleared)
        /\ UNCHANGED <<chain, inflight, jobs>>
    BY DEF ClearIntended, ClearActual, chainVars
  <1>3. PICK place \in {"quoted", "shifted"} : At(r, place)
    BY DEF ClearIntended, ClearActual
  <1>4. Moved(r, place)
    BY <1>1, <1>3, AtMoves DEF Place, Creating, Answered
  <1>5. task[r].intended <= cleared /\ cleared \in Nat /\ task[r].intended \in Nat
    BY <1>1, <1>2 DEF CreateInv, IdsKnown, Sent, TypeOK, Task
  <1> HIDE DEF cleared
  <1>6. DOMAIN intents' = DOMAIN intents \ {cleared}
    BY <1>2, DropDomain
  <1>7. Alone'
    <2>1. inflight' \subseteq {q \in Request : task'[q].at = "submitted"}
      BY <1>2, <1>4 DEF OrphanInv, Alone, Moved
    <2>2. \A q \in Request : task'[q].at \notin Named \cap Unwritten
      <3>1. \A q \in Request : task[q].at \in Creating => q = r
        BY <1>1, <1>2, NobodyElse DEF Creating
      <3> QED
        BY <1>4, <3>1 DEF Moved, Named, Unwritten, Creating
    <2>3. \A q \in Request : task'[q].at \notin {"creating", "submitted", "created"}
      BY <2>2 DEF Named, Unwritten
    <2> QED
      BY <1>2, <1>4, <2>1, <2>2, <2>3 DEF OrphanInv, Alone, Named, Moved
  <1>8. OrphanIsFindable'
    <2> SUFFICES ASSUME NEW id \in DOMAIN chain \ DOMAIN jobs, chain[id].maker # Outsider
                 PROVE  \E i \in (DOMAIN intents \ {cleared}) \ DOMAIN jobs : i <= id
      BY <1>2, <1>6 DEF OrphanIsFindable, UnreconciledIntents
    <2>1. id # task[r].id
      BY <1>2 DEF CreateInv, Written
    <2>2. PICK i \in UnreconciledIntents : i \in Nat /\ i <= id /\ i < task[r].intended
      BY <1>2, <2>1, OlderOrphan DEF Named
    <2>3. i # cleared
      BY <1>5, <2>2
    <2> QED
      BY <2>2, <2>3 DEF UnreconciledIntents
  <1> QED
    BY <1>7, <1>8 DEF OrphanInv

LEMMA NextOrphans ==
  ASSUME OneWorker, "late" \notin Faults, CreateInv, OneCreator, OrphanInv, [Next]_vars
  PROVE  OrphanInv'
  <1>1. TypeOK
    BY DEF CreateInv
  <1>2. ASSUME NEW r \in Request, Enter(r)
        PROVE  OrphanInv'
    <2>1. UNCHANGED <<chain, inflight, jobs, intents>>
      BY <1>2 DEF Enter, chainVars, storeVars
    <2>2. /\ \A q \in Request : q # r => task'[q] = task[q]
          /\ task[r].at = "queued" /\ task'[r].at \in {"quoted", "refused", "reading"}
      BY <1>1, <1>2, EnterMoves
    <2>3. SameIds
      BY <1>1, <2>1, SameIdsIfUnchanged
    <2>4. Asleep
      BY <2>1, <2>2, <2>3 DEF Asleep, OrphanInv, Alone, Named
    <2> QED
      BY <2>4, AsleepKeeps
  <1>3. ASSUME NEW r \in Request, CheckMint(r) \/ Mint(r) \/ Settle(r) \/ SettleFails(r)
        PROVE  OrphanInv'
    <2>1. UNCHANGED <<inflight, intents>>
      BY <1>3 DEF CheckMint, Mint, Settle, SettleFails, chainVars, storeVars
    <2>2. PICK place \in {"checked", "rejected", "minted", "settled", "unsettled"} :
            At(r, place)
      BY <1>3 DEF CheckMint, Mint, Settle, SettleFails
    <2>3. Moved(r, place) /\ task[r].at # "submitted"
      BY <1>1, <1>3, <2>2, AtMoves
         DEF Place, Paying, Answered, CheckMint, Mint, Settle, SettleFails
    <2>4. SameIds
      BY <1>1, <1>3, SameIdsIfUnchanged, SeatTaken, MintIds
         DEF CheckMint, Settle, SettleFails, chainVars, storeVars
    <2>5. Asleep
      BY <2>1, <2>3, <2>4 DEF Asleep, OrphanInv, Alone, Named, Moved
    <2> QED
      BY <2>5, AsleepKeeps
  <1> QED
    BY <1>1, <1>2, <1>3, AsideOrphans, ReadNextIdOrphans, RecordIntentOrphans, SubmitOrphans,
       ConfirmOrphans, WriteRowOrphans, ClearOrphans, NextIs

-----------------------------------------------------------------------------
(* A payment for a quote still open is taken.                              *)

\* The quote's window is over, or its row was funded.
Over(id) == Lapsed(id) \/ jobs[id].state # "QUOTED"

\* Where a request goes by the agreement of its 402, written or looked up.
Handed == {"written", "shifted", "quoted", "verified"}

\* That agreement has a row for its file, and a payment that joins it was
\* matched to it or comes too late.
Offer(q) ==
  /\ task[q].at \in Handed =>
       task[q].id \in DOMAIN jobs /\ jobs[task[q].id].file = task[q].file
  /\ task[q].at = "verified" /\ task[q].joins = task[q].id =>
       task[q].wanted = task[q].id \/ Over(task[q].id)

OfferInv == \A q \in Request : Offer(q)

\* A row stays, for its file, and does not open again.
RowsStay ==
  /\ DOMAIN jobs \subseteq DOMAIN jobs'
  /\ \A id \in DOMAIN jobs :
       jobs'[id].file = jobs[id].file /\ (Over(id) => Over(id)')

\* The request has the quote it had, and is not newly matched to one.
Still(q) ==
  task'[q].at \in Handed =>
    /\ task[q].at \in Handed /\ (task'[q].at = "verified" => task[q].at = "verified")
    /\ task'[q].file = task[q].file /\ task'[q].id = task[q].id
    /\ task'[q].wanted = task[q].wanted /\ task'[q].joins = task[q].joins

LEMMA NextRowsStay ==
  ASSUME TypeOK, TypeOK', [Next]_vars
  PROVE  RowsStay
  <1>1. CASE UNCHANGED jobs /\ now <= now'
    <2> SUFFICES ASSUME NEW id \in DOMAIN jobs, Lapsed(id)
                 PROVE  Lapsed(id)'
      BY <1>1 DEF RowsStay, Over
    <2>1. jobs[id].quoted_at \in Nat /\ now \in Nat /\ now' \in Nat
      BY DEF TypeOK, Job
    <2> QED
      BY <1>1, <2>1, QuotesAssumption DEF Lapsed
  <1>2. ASSUME NEW r \in Request, WriteRow(r)
        PROVE  RowsStay
    <2> DEFINE row == [file |-> task[r].file, state |-> "QUOTED",
                       quoted_at |-> task[r].asked, holder |-> Nobody]
    <2>1. jobs' = Put(jobs, task[r].id, row) /\ task[r].id \notin DOMAIN jobs
          /\ UNCHANGED now
      BY <1>2 DEF WriteRow
    <2> HIDE DEF row
    <2>2. DOMAIN jobs' = DOMAIN jobs \cup {task[r].id}
      BY <2>1, PutDomain
    <2>3. \A id \in DOMAIN jobs : jobs'[id] = jobs[id]
      BY <2>1, PutOthers
    <2> QED
      BY <2>1, <2>2, <2>3 DEF RowsStay, Over, Lapsed
  <1>3. ASSUME NEW r \in Request, Mint(r)
        PROVE  RowsStay
    <2>1. jobs' = [jobs EXCEPT ![task[r].wanted].state = "FUNDED",
                               ![task[r].wanted].holder = r]
          /\ UNCHANGED now
      BY <1>3 DEF Mint
    <2>2. \A row \in Job :
            LET minted == [[row EXCEPT !.state = "FUNDED"] EXCEPT !.holder = r]
            IN  /\ minted.state = "FUNDED" /\ minted.file = row.file
                /\ minted.quoted_at = row.quoted_at
      BY DEF Job
    <2>3. /\ DOMAIN jobs' = DOMAIN jobs
          /\ \A id \in DOMAIN jobs :
               /\ jobs'[id] = jobs[id] \/ jobs'[id].state = "FUNDED"
               /\ jobs'[id].file = jobs[id].file
               /\ jobs'[id].quoted_at = jobs[id].quoted_at
      BY <2>1, <2>2 DEF TypeOK
    <2> QED
      BY <2>1, <2>3 DEF RowsStay, Over, Lapsed
  <1>4. CASE AsideStep
    BY <1>1, <1>4, AsideRows
  <1>5. ASSUME NEW r \in Request,
               Enter(r) \/ ReadNextId(r) \/ RecordIntent(r) \/ Submit(r) \/ Confirm(r)
                 \/ ClearIntended(r) \/ ClearActual(r) \/ CheckMint(r) \/ Settle(r)
                 \/ SettleFails(r)
        PROVE  RowsStay
    <2>1. UNCHANGED <<now, jobs>>
      BY <1>5 DEF Enter, ReadNextId, RecordIntent, Submit, Confirm, ClearIntended,
                  ClearActual, CheckMint, Settle, SettleFails, storeVars
    <2> QED
      BY <1>1, <2>1 DEF TypeOK
  <1> QED
    BY <1>2, <1>3, <1>4, <1>5, NextIs

LEMMA StillOffered ==
  ASSUME OfferInv, RowsStay, NEW q \in Request, Still(q)
  PROVE  Offer(q)'
  <1>1. CASE task'[q].at \in Handed
    <2>1. /\ task[q].at \in Handed /\ (task'[q].at = "verified" => task[q].at = "verified")
          /\ task'[q].file = task[q].file /\ task'[q].id = task[q].id
          /\ task'[q].wanted = task[q].wanted /\ task'[q].joins = task[q].joins
      BY <1>1 DEF Still
    <2>2. task[q].id \in DOMAIN jobs /\ jobs[task[q].id].file = task[q].file
      BY <2>1 DEF OfferInv, Offer
    <2>3. ASSUME NEW id \in DOMAIN jobs, Over(id)
          PROVE  Over(id)'
      BY <2>3 DEF RowsStay
    <2>4. Over(task[q].id) => Over(task[q].id)'
      BY <2>1, <2>2, <2>3 DEF Over, Lapsed
    <2> QED
      BY <2>1, <2>2, <2>4 DEF OfferInv, Offer, RowsStay
  <1>2. CASE task'[q].at \notin Handed
    BY <1>2 DEF Offer, Handed
  <1> QED
    BY <1>1, <1>2

\* The least quote still open is one of them.
LEMMA LeastIsReusable ==
  ASSUME TypeOK, NEW f, Reusable(f) # {}
  PROVE  Min(Reusable(f)) \in Reusable(f)
  <1>1. Reusable(f) \subseteq Nat
    BY DEF Reusable, Quoted, TypeOK
  <1> QED
    BY <1>1, MinIsLeast

LEMMA OpenIsReusable ==
  ASSUME TypeOK, NEW id \in DOMAIN jobs, ~Over(id)
  PROVE  id \in Reusable(jobs[id].file)
  <1>1. jobs[id].quoted_at \in Nat /\ now \in Nat /\ Window \in Nat
    BY QuotesAssumption DEF TypeOK, Job
  <1> QED
    BY <1>1 DEF Over, Lapsed, Reusable, Quoted

LEMMA RepriceOffers ==
  ASSUME TypeOK, OneEach, OfferInv, NEW r \in Request, NEW p \in Process,
         NEW joins \in {0} \cup DOMAIN chain, Reprice(r, p, joins)
  PROVE  /\ Offer(r)'
         /\ task'[r].at = "rejected" => Over(task[r].id)
  <1>1. /\ task[r].at = "quoted"
        /\ \/ task'[r].at = "rejected" /\ Reusable(task[r].file) = {}
           \/ /\ task'[r].at = "verified" /\ Reusable(task[r].file) # {}
              /\ task'[r].wanted = Min(Reusable(task[r].file))
        /\ task'[r].file = task[r].file /\ task'[r].id = task[r].id
    BY RepriceMoves
  <1>2. task[r].id \in DOMAIN jobs /\ jobs[task[r].id].file = task[r].file
    BY <1>1 DEF OfferInv, Offer, Handed
  <1>3. UNCHANGED <<now, jobs>>
    BY DEF Reprice, storeVars
  <1>4. ~Over(task[r].id) => task[r].id \in Reusable(task[r].file)
    BY <1>2, OpenIsReusable
  <1>5. CASE task'[r].at = "rejected"
    BY <1>1, <1>4, <1>5 DEF Offer, Handed
  <1>6. CASE task'[r].at = "verified"
    <2>1. task[r].file \in File
      BY DEF TypeOK, Task
    <2>2. ~Over(task[r].id) => task'[r].wanted = task[r].id
      BY <1>1, <1>4, <1>6, <2>1, LeastIsReusable DEF OneEach
    <2>3. Over(task[r].id) => Over(task[r].id)'
      BY <1>1, <1>3 DEF Over, Lapsed
    <2> QED
      BY <1>1, <1>2, <1>3, <1>6, <2>2, <2>3 DEF Offer, Handed
  <1> QED
    BY <1>1, <1>5, <1>6

\* What a step may do to the quote a request was handed.
Taken(q) ==
  task[q].at \in {"quoted", "verified"} /\ task'[q].at = "rejected"
    => \/ task[q].at = "verified" /\ task[q].joins # task[q].id
       \/ Lapsed(task[q].id)
       \/ jobs[task[q].id].state # "QUOTED"

\* The handler refuses a payment only if it does not join what it was matched
\* to, or what it was matched to is not open.
LEMMA CheckMintTakes ==
  ASSUME TypeOK, OfferInv, NEW r \in Request, CheckMint(r)
  PROVE  Taken(r) /\ Still(r)
  <1>1. task[r].at = "verified"
    BY DEF CheckMint
  <1>2. PICK place \in {"checked", "rejected"} :
          At(r, place) /\ (place = "rejected" => ~CanMint(task[r]))
    BY DEF CheckMint
  <1>3. Moved(r, place)
    BY <1>2, AtMoves DEF Place, Paying, Answered
  <1>4. Still(r)
    BY <1>2, <1>3 DEF Still, Moved, Handed
  <1>5. ASSUME place = "rejected", task[r].joins = task[r].id, ~Over(task[r].id)
        PROVE  FALSE
    <2>1. task[r].wanted = task[r].id /\ task[r].id \in DOMAIN jobs
          /\ jobs[task[r].id].file = task[r].file
      BY <1>1, <1>5 DEF OfferInv, Offer, Handed
    <2>2. jobs[task[r].id].state = "QUOTED"
      BY <1>5 DEF Over
    <2>3. "FUNDED" \in Allowed["QUOTED"]
      BY DEF Allowed, JobState
    <2> QED
      BY <1>2, <1>5, <2>1, <2>2, <2>3 DEF CanMint, Buys
  <1>6. Taken(r)
    BY <1>1, <1>2, <1>3, <1>5 DEF Taken, Over, Moved
  <1> QED
    BY <1>4, <1>6

\* Nobody else's quote is touched: the request stays, or holds no quote.
LEMMA NextOffers ==
  ASSUME CreateInv, CreateInv', OneEach, OfferInv, [Next]_vars
  PROVE  OfferInv' /\ \A q \in Request : Taken(q)
  <1>1. TypeOK /\ TypeOK'
    BY DEF CreateInv
  <1>2. RowsStay
    BY <1>1, NextRowsStay
  <1>3. ASSUME \A q \in Request : Still(q) /\ Taken(q)
        PROVE  OfferInv' /\ \A q \in Request : Taken(q)
    BY <1>2, <1>3, StillOffered DEF OfferInv
  <1>4. ASSUME NEW r \in Request, \A q \in Request : q # r => task'[q] = task[q],
               Offer(r)', Taken(r)
        PROVE  OfferInv' /\ \A q \in Request : Taken(q)
    <2>1. ASSUME NEW q \in Request, q # r
          PROVE  Still(q) /\ Taken(q)
      BY <1>4, <2>1 DEF Still, Taken
    <2>2. \A q \in Request : Offer(q)'
      BY <1>2, <1>4, <2>1, StillOffered
    <2> QED
      BY <1>4, <2>1, <2>2 DEF OfferInv
  <1>5. ASSUME NEW r \in Request, NEW p \in Process, NEW joins \in {0} \cup DOMAIN chain,
               Reprice(r, p, joins)
        PROVE  OfferInv' /\ \A q \in Request : Taken(q)
    <2>1. \A q \in Request : q # r => task'[q] = task[q]
      BY <1>1, <1>5, RepriceMoves
    <2>2. Offer(r)' /\ (task'[r].at = "rejected" => Over(task[r].id))
      BY <1>1, <1>5, RepriceOffers
    <2> QED
      BY <1>4, <2>1, <2>2 DEF Taken, Over
  <1>6. ASSUME NEW r \in Request, CheckMint(r)
        PROVE  OfferInv' /\ \A q \in Request : Taken(q)
    <2>1. \A q \in Request : q # r => task'[q] = task[q]
      BY <1>1, <1>6 DEF CheckMint, At, TypeOK
    <2>2. Taken(r) /\ Offer(r)'
      BY <1>1, <1>2, <1>6, CheckMintTakes, StillOffered
    <2> QED
      BY <1>4, <2>1, <2>2
  <1>7. ASSUME NEW r \in Request, Enter(r)
        PROVE  OfferInv' /\ \A q \in Request : Taken(q)
    <2>1. /\ \A q \in Request : q # r => task'[q] = task[q]
          /\ task[r].at = "queued" /\ task'[r].file = task[r].file
          /\ \/ /\ task'[r].at = "quoted" /\ Reusable(task[r].file) # {}
                /\ task'[r].id = Min(Reusable(task[r].file))
             \/ task'[r].at \in {"refused", "reading"}
      BY <1>1, <1>7, EnterMoves
    <2>2. UNCHANGED jobs
      BY <1>7 DEF Enter, storeVars
    <2>3. Offer(r)'
      <3>1. CASE task'[r].at = "quoted"
        <4>1. task'[r].id \in Reusable(task[r].file)
          BY <1>1, <2>1, <3>1, LeastIsReusable
        <4> QED
          BY <2>1, <2>2, <3>1, <4>1 DEF Offer, Reusable, Quoted
      <3>2. CASE task'[r].at # "quoted"
        BY <2>1, <3>2 DEF Offer, Handed
      <3> QED
        BY <3>1, <3>2
    <2> QED
      BY <1>4, <2>1, <2>3 DEF Taken
  <1>8. ASSUME NEW r \in Request, WriteRow(r)
        PROVE  OfferInv' /\ \A q \in Request : Taken(q)
    <2> DEFINE row == [file |-> task[r].file, state |-> "QUOTED",
                       quoted_at |-> task[r].asked, holder |-> Nobody]
    <2>1. Moved(r, "written") /\ task[r].at = "created"
      BY <1>1, <1>8, AtMoves DEF WriteRow, Place, Creating
    <2>2. jobs' = Put(jobs, task[r].id, row) /\ row.file = task[r].file
      BY <1>8 DEF WriteRow
    <2> HIDE DEF row
    <2>3. DOMAIN jobs' = DOMAIN jobs \cup {task[r].id}
      BY <2>2, PutDomain
    <2>4. jobs'[task[r].id] = row
      BY <2>2, PutRow
    <2>5. Offer(r)' /\ Taken(r)
      BY <2>1, <2>2, <2>3, <2>4 DEF Offer, Taken, Moved
    <2> QED
      BY <1>4, <2>1, <2>5 DEF Moved
  <1>9. ASSUME NEW r \in Request, ReadNextId(r) \/ Submit(r)
        PROVE  OfferInv' /\ \A q \in Request : Taken(q)
    <2>1. /\ \A q \in Request : q # r => task'[q] = task[q]
          /\ task'[r].at \in {"predicted", "submitted"}
      BY <1>1, <1>9, ReadNextIdMoves, SubmitMoves
    <2> QED
      BY <1>4, <2>1 DEF Offer, Handed, Taken
  <1>10. ASSUME NEW r \in Request,
                RecordIntent(r) \/ Confirm(r) \/ ClearIntended(r) \/ ClearActual(r)
                  \/ Mint(r) \/ Settle(r) \/ SettleFails(r) \/ Fail(r) \/ TimeOut(r)
         PROVE  OfferInv' /\ \A q \in Request : Taken(q)
    <2>1. PICK place \in {"creating", "created", "failed", "quoted", "shifted", "minted",
                          "settled", "unsettled"} :
            At(r, place) /\ (place \in Handed => task[r].at \in Handed)
      BY <1>10 DEF RecordIntent, Confirm, ClearIntended, ClearActual, Mint, Settle,
                   SettleFails, Fail, TimeOut, AfterFailure, Handed
    <2>2. Moved(r, place)
      BY <1>1, <2>1, AtMoves DEF Place, Creating, Paying, Answered
    <2>3. \A q \in Request : Still(q) /\ Taken(q)
      BY <2>1, <2>2 DEF Still, Taken, Moved, Handed
    <2> QED
      BY <1>3, <2>3
  <1>11. ASSUME NEW r \in Request, Disconnect(r)
         PROVE  OfferInv' /\ \A q \in Request : Taken(q)
    <2>1. Moved(r, task[r].at)
      BY <1>1, <1>11, DisconnectMoves
    <2>2. \A q \in Request : Still(q) /\ Taken(q)
      BY <2>1 DEF Still, Taken, Moved
    <2> QED
      BY <1>3, <2>2
  <1>12. ASSUME NEW r \in Request, NEW p \in Process, NEW f \in File, NEW s \in Source,
                Arrive(r, p, f, s)
         PROVE  OfferInv' /\ \A q \in Request : Taken(q)
    <2>1. \A q \in Request : Still(q) /\ Taken(q)
      BY <1>1, <1>12, ArriveMoves DEF Still, Taken, Handed
    <2> QED
      BY <1>3, <2>1
  <1>13. ASSUME NEW p \in Process, Crash(p)
         PROVE  OfferInv' /\ \A q \in Request : Taken(q)
    <2>1. \A q \in Request : Still(q) /\ Taken(q)
      BY <1>1, <1>13, CrashMoves DEF Still, Taken, Handed
    <2> QED
      BY <1>3, <2>1
  <1>14. ASSUME UNCHANGED task
         PROVE  OfferInv' /\ \A q \in Request : Taken(q)
    <2>1. \A q \in Request : Still(q) /\ Taken(q)
      BY <1>14 DEF Still, Taken
    <2> QED
      BY <1>3, <2>1
  <1>15. CASE AsideStep
    BY <1>5, <1>10, <1>11, <1>12, <1>13, <1>14, <1>15
       DEF AsideStep, Surroundings, Tick, Land, CreateElsewhere, JoinDirectly, vars
  <1> QED
    BY <1>6, <1>7, <1>8, <1>9, <1>10, <1>15, NextIs

-----------------------------------------------------------------------------
(* The theorems.                                                           *)

LEMMA InitOneWorker == Init => QuoteInv /\ PayInv /\ OrphanInv
  <1> SUFFICES ASSUME Init PROVE QuoteInv /\ PayInv /\ OrphanInv
    OBVIOUS
  <1>1. DOMAIN chain = {} /\ DOMAIN jobs = {} /\ inflight = {} /\ charged = {}
    BY DEF Init
  <1>2. \A r \in Request : task[r].at = "idle"
    BY DEF Init
  <1>3. Quoted = {} /\ \A f : Reusable(f) = {}
    BY <1>1 DEF Quoted, Reusable
  <1>4. CountUnfunded = 0
    BY <1>3, FS_EmptySet DEF CountUnfunded
  <1>5. QuoteInv
    BY <1>2, <1>3, <1>4, QuotesAssumption
       DEF QuoteInv, Vacant, OneEach, CeilingHolds, Unwritten
  <1>6. PayInv
    BY <1>1, <1>2 DEF PayInv, Minting, Funded, Seated, Bought
  <1>7. OrphanInv
    BY <1>1, <1>2 DEF OrphanInv, Alone, OrphanIsFindable, Named
  <1> QED
    BY <1>5, <1>6, <1>7

LEMMA QuotesAlways ==
  ASSUME OneWorker
  PROVE  Spec => []QuoteInv
  <1>1. TypeOK /\ TypeOK' /\ OneCreator /\ QuoteInv /\ [Next]_vars => QuoteInv'
    BY NextQuotes
  <1>2. Init => QuoteInv
    BY InitOneWorker
  <1> QED
    BY <1>1, <1>2, TypeCorrect, OneOfEach, PTL DEF Spec

LEMMA PaysAlways ==
  ASSUME OneWorker
  PROVE  Spec => []PayInv
  <1>1. TypeOK /\ QuoteIsReal /\ OneMinter /\ PayInv /\ [Next]_vars => PayInv'
    BY NextPays
  <1>2. Init => PayInv
    BY InitOneWorker
  <1> QED
    BY <1>1, <1>2, TypeCorrect, QuotesAreReal, OneOfEach, PTL DEF Spec

\* One worker: one file has at most one open quote (create_lock is held from
\* the lookup to the row, pricing.py's _open_or_create), whatever crashes, times
\* out, disconnects or lands late, and whatever the operator creates beside it.
THEOREM OneQuoteEach ==
  ASSUME OneWorker
  PROVE  Spec => []OneQuotePerFile
  <1>1. OneEach => OneQuotePerFile
    <2> SUFFICES ASSUME OneEach, NEW f \in File PROVE Cardinality(Reusable(f)) <= 1
      BY DEF OneQuotePerFile
    <2>1. CASE Reusable(f) = {}
      BY <2>1, FS_EmptySet
    <2>2. CASE Reusable(f) # {}
      <3>1. PICK id : Reusable(f) = {id}
        BY <2>2 DEF OneEach
      <3>2. Cardinality({id}) = 1
        BY FS_Singleton
      <3> QED
        BY <3>1, <3>2
    <2> QED
      BY <2>1, <2>2
  <1>2. QuoteInv => OneQuotePerFile
    BY <1>1 DEF QuoteInv
  <1> QED
    BY <1>2, QuotesAlways, PTL

\* One worker: never more rows parked unfunded than max_unfunded_agreements,
\* the count and the row it admits being under one lock.
THEOREM CeilingIsKept ==
  ASSUME OneWorker
  PROVE  Spec => []CeilingHolds
  <1>1. QuoteInv => CeilingHolds
    BY DEF QuoteInv
  <1> QED
    BY <1>1, QuotesAlways, PTL

\* One worker: whoever is charged has the seat of an agreement for the bytes
\* they asked for and holds its job, for the mint precedes the settlement and
\* the group that settles joins the agreement the job is for (app.py's pin
\* handler, require_join_call).
THEOREM ChargedHolds ==
  ASSUME OneWorker
  PROVE  Spec => []ChargedHoldsJob
  <1>1. TypeOK /\ QuoteIsReal /\ PayInv => ChargedHoldsJob
    <2> SUFFICES ASSUME TypeOK, QuoteIsReal, PayInv, NEW r \in charged
                 PROVE  \E id \in DOMAIN jobs :
                          /\ chain[id].payer = r /\ chain[id].file = task[r].file
                          /\ jobs[id].holder = r
      BY DEF ChargedHoldsJob
    <2>1. r \in Request /\ task[r].at = "settled"
      BY DEF PayInv, Seated
    <2>2. /\ task[r].wanted \in DOMAIN jobs /\ jobs[task[r].wanted].file = task[r].file
          /\ jobs[task[r].wanted].holder = r
      BY <2>1 DEF PayInv, Minting, Bought
    <2>3. /\ task[r].wanted \in DOMAIN chain
          /\ chain[task[r].wanted].file = jobs[task[r].wanted].file
      BY <2>2 DEF QuoteIsReal
    <2>4. chain[task[r].wanted].payer = r
      BY <2>3 DEF PayInv, Seated
    <2> QED
      BY <2>2, <2>3, <2>4
  <1> QED
    BY <1>1, PaysAlways, TypeCorrect, QuotesAreReal, PTL

\* One worker: a job FUNDED whose seat its holder did not take is that of a
\* settlement that failed, and nobody charged here paid into its agreement.
THEOREM StuckOwesNobody ==
  ASSUME OneWorker
  PROVE  Spec => []StuckJobOwesNobody
  <1>1. QuoteIsReal /\ PayInv => StuckJobOwesNobody
    <2> SUFFICES ASSUME QuoteIsReal, PayInv, NEW id \in DOMAIN jobs,
                        jobs[id].state = "FUNDED",
                        chain[id].payer # jobs[id].holder,
                        task[jobs[id].holder].at # "minted"
                 PROVE  /\ task[jobs[id].holder].at = "unsettled"
                        /\ chain[id].payer \notin charged
      BY DEF StuckJobOwesNobody
    <2>1. /\ jobs[id].holder \in Request /\ task[jobs[id].holder].at \in Bought
          /\ task[jobs[id].holder].wanted = id
      BY DEF PayInv, Funded
    <2>2. id \in DOMAIN chain
      BY DEF QuoteIsReal
    <2>3. task[jobs[id].holder].at # "settled"
      BY <2>1, <2>2 DEF PayInv, Seated
    <2>4. ASSUME chain[id].payer \in charged
          PROVE  FALSE
      <3>1. /\ chain[id].payer \in Request /\ task[chain[id].payer].at = "settled"
            /\ task[chain[id].payer].wanted = id
        BY <2>2, <2>4 DEF PayInv, Seated
      <3>2. jobs[id].holder = chain[id].payer
        BY <3>1 DEF PayInv, Minting, Bought
      <3> QED
        BY <3>2
    <2> QED
      BY <2>1, <2>3, <2>4 DEF Bought
  <1> QED
    BY <1>1, PaysAlways, QuotesAreReal, PTL

\* One worker: a buyer whose group joins the agreement of its 402 is refused,
\* when the paid retry is priced or by the pin handler, only if the quote's window
\* is over or its row was funded (open_quote, require_join_call, transition): the
\* payment is matched to that agreement, a file having one open quote.
THEOREM LiveQuotesAreTaken ==
  ASSUME OneWorker
  PROVE  Spec => LiveQuoteIsTaken
  <1>1. CreateInv /\ CreateInv' /\ QuoteInv /\ OfferInv /\ [Next]_vars => OfferInv'
    BY NextOffers DEF QuoteInv
  <1>2. Init => OfferInv
    BY DEF Init, OfferInv, Offer, Handed
  <1>3. CreateInv /\ CreateInv' /\ QuoteInv /\ OfferInv /\ [Next]_vars =>
          [\A r \in Request :
             task[r].at \in {"quoted", "verified"} /\ task'[r].at = "rejected"
               => \/ task[r].at = "verified" /\ task[r].joins # task[r].id
                  \/ Lapsed(task[r].id)
                  \/ jobs[task[r].id].state # "QUOTED"]_vars
    BY NextOffers DEF QuoteInv, Taken
  <1> QED
    BY <1>1, <1>2, <1>3, CreateAlways, QuotesAlways, PTL DEF Spec, LiveQuoteIsTaken

\* One worker, and no group that outlives the wait for it: an agreement this
\* middleware created is in jobs, or an intent without a row names its id or one
\* before it, whatever crashes or times out and whatever the operator creates
\* beside it (create_intents, written before the group is submitted and cleared
\* after the row).
THEOREM OrphansAreFindable ==
  ASSUME OneWorker, "late" \notin Faults
  PROVE  Spec => []OrphanIsFindable
  <1>1. CreateInv /\ OneCreator /\ OrphanInv /\ [Next]_vars => OrphanInv'
    BY NextOrphans
  <1>2. Init => OrphanInv
    BY InitOneWorker
  <1>3. OrphanInv => OrphanIsFindable
    BY DEF OrphanInv
  <1> QED
    BY <1>1, <1>2, <1>3, CreateAlways, OneOfEach, PTL DEF Spec

=============================================================================
