--------------------------- MODULE QuotesProofs ----------------------------
(***************************************************************************)
(* Proofs about Quotes that need no bound on anything: any requests,       *)
(* workers, files and sources, and any of the faults.                      *)
(*                                                                         *)
(* That a row is for the agreement it names is proved from where its id    *)
(* has been.  A create reads the next id twice, names the boxes of the     *)
(* second in the group it submits, is told the id the group landed as, and *)
(* writes its row under that.  CreateInv says of each of these moments     *)
(* which ids there may be (IdsKnown), whose an agreement on chain is       *)
(* (Made), and what a request that was told of its agreement may count on  *)
(* (Told, Written).                                                        *)
(*                                                                         *)
(* The lock of a worker and its mint are proved exclusive here too; what   *)
(* one worker's exclusion gives the whole middleware is in                 *)
(* OneWorkerProofs.                                                        *)
(***************************************************************************)
EXTENDS Quotes, FiniteSetTheorems, WellFoundedInduction, TLAPS

-----------------------------------------------------------------------------
(* The inductive invariant.                                                *)

\* Where a request has not submitted a create.
Before == {"idle", "limited", "queued", "reading", "predicted", "creating"}

\* Where a request holds the lock and has not written a row.
Unwritten == {"reading", "predicted", "creating", "submitted", "created"}

\* Where it has read the next id, and where it has submitted a create.
Named == {"predicted", "creating", "submitted", "created", "written", "shifted"}
Sent == {"submitted", "created", "written", "shifted"}

\* Every id a create goes by is one the chain has or gives next, the one its
\* group names no lower than the one it predicted.
IdsKnown ==
  \A r \in Request :
    /\ task[r].at \in Named => task[r].intended \in 1..next_agreement_id
    /\ task[r].at \in Sent =>
         task[r].id \in 1..next_agreement_id /\ task[r].intended <= task[r].id

\* An agreement on chain is the one its maker's group named, for its maker's
\* bytes, and a group still travelling has made none.
Made ==
  /\ \A id \in DOMAIN chain : chain[id].maker \in Request =>
       /\ task[chain[id].maker].at \notin Before
       /\ task[chain[id].maker].id = id
       /\ task[chain[id].maker].file = chain[id].file
  /\ \A r \in inflight : task[r].at \notin Before /\ ~Landed(r)

\* A request told that its create landed is its maker.
Told ==
  \A r \in Request : task[r].at = "created" =>
    task[r].id \in DOMAIN chain /\ chain[task[r].id].maker = r

\* A row once written stays.
Written ==
  \A r \in Request : task[r].at \in {"written", "shifted"} => task[r].id \in DOMAIN jobs

CreateInv == TypeOK /\ IdsKnown /\ Made /\ Told /\ Written /\ QuoteIsReal

\* What is true of a worker's tasks whatever runs beside it: one of them has
\* its lock, one is at the end of the mint.
OneCreator ==
  \A r, q \in Request :
    task[r].at \in Creating /\ task[q].at \in Creating /\ task[r].proc = task[q].proc
      => r = q

OneMinter ==
  \A r, q \in Request :
    task[r].at = "checked" /\ task[q].at = "checked" /\ task[r].proc = task[q].proc
      => r = q

-----------------------------------------------------------------------------
(* Tables, ids and the state of one request.                               *)

\* Numbers have a least one.
LEMMA MinIsLeast ==
  ASSUME NEW S, S \subseteq Nat, S # {}
  PROVE  Min(S) \in S /\ \A n \in S : Min(S) <= n
  <1> DEFINE R == {ss \in Nat \X Nat : ss[1] < ss[2]}
  <1>0. IsWellFoundedOn(R, Nat)
    BY NatLessThanWellFounded, Zenon DEF OpToRel
  <1> HIDE DEF R
  <1>1. PICK m \in S : \A n \in S : ~ (<<n, m>> \in R)
    BY <1>0, WFMin, Zenon
  <1>2. \A n \in S : m <= n
    <2> SUFFICES ASSUME NEW n \in S PROVE m <= n
      OBVIOUS
    <2>1. n \in Nat /\ m \in Nat
      OBVIOUS
    <2>2. <<n, m>> \in R <=> n < m
      BY <2>1 DEF R
    <2> QED
      BY <1>1, <2>1, <2>2
  <1> QED
    BY <1>2 DEF Min

\* A row put in a table is there, and no other row changes.
LEMMA PutDomain ==
  ASSUME NEW table, NEW id, NEW row
  PROVE  DOMAIN Put(table, id, row) = DOMAIN table \cup {id}
  BY DEF Put

LEMMA PutRow ==
  ASSUME NEW table, NEW id, NEW row
  PROVE  Put(table, id, row)[id] = row
  BY DEF Put

LEMMA PutOthers ==
  ASSUME NEW table, NEW id, NEW row, NEW i \in DOMAIN table, i # id
  PROVE  Put(table, id, row)[i] = table[i]
  BY DEF Put

LEMMA DropDomain ==
  ASSUME NEW table, NEW id
  PROVE  DOMAIN Drop(table, id) = DOMAIN table \ {id}
  BY DEF Drop

LEMMA DropOthers ==
  ASSUME NEW table, NEW id, NEW i \in DOMAIN table, i # id
  PROVE  Drop(table, id)[i] = table[i]
  BY DEF Drop

\* The ids of the chain are the numbers below the next.
LEMMA IdsAre ==
  ASSUME TypeOK
  PROVE  /\ agreement_count \in Nat
         /\ next_agreement_id \in Nat \ {0}
         /\ next_agreement_id <= MaxAgreements + 1
         /\ next_agreement_id \notin DOMAIN chain
         /\ \A id : id \in DOMAIN chain <=> id \in Nat /\ 1 <= id /\ id < next_agreement_id
  BY QuotesAssumption DEF TypeOK, next_agreement_id

\* An agreement more takes the next id.
LEMMA ChainGrows ==
  ASSUME TypeOK, NEW file, NEW maker, agreement_count < MaxAgreements,
         chain' = Put(chain, next_agreement_id, NewAgreement(file, maker))
  PROVE  /\ DOMAIN chain' = DOMAIN chain \cup {next_agreement_id}
         /\ agreement_count' = agreement_count + 1
         /\ DOMAIN chain' = 1..agreement_count'
         /\ chain'[next_agreement_id] = NewAgreement(file, maker)
         /\ \A id \in DOMAIN chain : chain'[id] = chain[id]
  <1>1. /\ DOMAIN chain' = DOMAIN chain \cup {next_agreement_id}
        /\ chain'[next_agreement_id] = NewAgreement(file, maker)
        /\ \A id \in DOMAIN chain : chain'[id] = chain[id]
    <2>1. DOMAIN chain' = DOMAIN chain \cup {next_agreement_id}
      BY PutDomain
    <2>2. chain'[next_agreement_id] = NewAgreement(file, maker)
      BY PutRow
    <2>3. \A id \in DOMAIN chain : chain'[id] = chain[id]
      BY PutOthers, IdsAre
    <2> QED
      BY <2>1, <2>2, <2>3
  <1>2. DOMAIN chain = 1..agreement_count /\ agreement_count \in Nat
    BY IdsAre DEF TypeOK
  <1>3. DOMAIN chain' = 1..(agreement_count + 1)
    <2>1. \A n \in Nat : 1..n \cup {n + 1} = 1..(n + 1)
      OBVIOUS
    <2> QED
      BY <1>1, <1>2, <2>1 DEF next_agreement_id
  <1>4. Cardinality(1..(agreement_count + 1)) = agreement_count + 1
    BY <1>2, FS_Interval
  <1>5. agreement_count' = agreement_count + 1
    BY <1>3, <1>4 DEF agreement_count
  <1> QED
    BY <1>1, <1>3, <1>5

Place == {"idle", "queued"} \cup Creating \cup Paying \cup Answered

\* A step of request r alone, to a state t of it.
LEMMA Steps ==
  ASSUME TypeOK, NEW r \in Request, NEW t \in Task,
         task' = [task EXCEPT ![r] = t]
  PROVE  /\ task' \in [Request -> Task]
         /\ task'[r] = t
         /\ \A q \in Request : q # r => task'[q] = task[q]
  BY DEF TypeOK

\* A step of request r to a place, all else of it as it was.
Moved(r, place) ==
  /\ task' \in [Request -> Task]
  /\ \A q \in Request : q # r => task'[q] = task[q]
  /\ task'[r].at = place /\ task'[r].proc = task[r].proc
  /\ task'[r].file = task[r].file /\ task'[r].asked = task[r].asked
  /\ task'[r].intended = task[r].intended /\ task'[r].id = task[r].id
  /\ task'[r].wanted = task[r].wanted /\ task'[r].joins = task[r].joins

LEMMA AtMoves ==
  ASSUME TypeOK, NEW r \in Request, NEW place \in Place, At(r, place)
  PROVE  Moved(r, place)
  <1> DEFINE t == [task[r] EXCEPT !.at = place]
  <1>1. task[r] \in Task
    BY DEF TypeOK
  <1>2. t \in Task
    BY <1>1 DEF Task, Place
  <1>3. task' = [task EXCEPT ![r] = t]
    BY DEF At
  <1>4. /\ t.at = place /\ t.proc = task[r].proc
        /\ t.file = task[r].file /\ t.asked = task[r].asked
        /\ t.intended = task[r].intended /\ t.id = task[r].id
        /\ t.wanted = task[r].wanted /\ t.joins = task[r].joins
    BY <1>1 DEF Task
  <1> QED
    BY <1>2, <1>3, <1>4, Steps DEF Moved

-----------------------------------------------------------------------------
(* What each action does to the tasks.                                     *)

LEMMA ArriveMoves ==
  ASSUME TypeOK, NEW r \in Request, NEW p \in Process, NEW f \in File,
         NEW s \in Source, Arrive(r, p, f, s)
  PROVE  /\ task' \in [Request -> Task]
         /\ \A q \in Request : q # r => task'[q] = task[q]
         /\ task[r].at \in {"idle", "limited"} /\ task'[r].at \in {"limited", "queued"}
  <1> DEFINE limited == Cardinality(Recent(p, s)) >= PerMinute
             t == [task[r] EXCEPT !.at = IF limited THEN "limited" ELSE "queued",
                                  !.proc = p, !.file = f, !.from = s, !.came = now]
  <1>1. task[r] \in Task /\ now \in Nat
    BY DEF TypeOK
  <1> HIDE DEF limited
  <1>2. t \in Task /\ t.at \in {"limited", "queued"}
    BY <1>1 DEF Task, Answered
  <1>3. task' = [task EXCEPT ![r] = t] /\ task[r].at \in {"idle", "limited"}
    BY DEF Arrive, limited
  <1> QED
    BY <1>2, <1>3, Steps

LEMMA EnterMoves ==
  ASSUME TypeOK, NEW r \in Request, Enter(r)
  PROVE  /\ task' \in [Request -> Task]
         /\ \A q \in Request : q # r => task'[q] = task[q]
         /\ task[r].at = "queued"
         /\ \/ task'[r].at = "quoted" /\ Reusable(task[r].file) # {}
               /\ task'[r].id = Min(Reusable(task[r].file))
            \/ task'[r].at = "refused"
            \/ /\ task'[r].at = "reading"
               /\ Reusable(task[r].file) = {}
               /\ ~(CountUnfunded >= MaxUnfunded)
         /\ task'[r].proc = task[r].proc /\ task'[r].file = task[r].file
  <1>1. task[r] \in Task /\ now \in Nat
    BY DEF TypeOK
  <1>2. CASE Reusable(task[r].file) # {}
    <2> DEFINE t == [task[r] EXCEPT !.at = "quoted", !.id = Min(Reusable(task[r].file))]
    <2>1. Min(Reusable(task[r].file)) \in Nat
      <3>1. Reusable(task[r].file) \subseteq Nat
        BY DEF Reusable, Quoted, TypeOK
      <3> QED
        BY <1>2, <3>1, MinIsLeast
    <2>2. t \in Task /\ t.at = "quoted" /\ t.id = Min(Reusable(task[r].file))
          /\ t.proc = task[r].proc /\ t.file = task[r].file
      BY <1>1, <2>1 DEF Task, Answered
    <2>3. task' = [task EXCEPT ![r] = t] /\ task[r].at = "queued"
      BY <1>2 DEF Enter
    <2> QED
      BY <1>2, <2>2, <2>3, Steps
  <1>3. CASE Reusable(task[r].file) = {} /\ CountUnfunded >= MaxUnfunded
    <2> DEFINE t == [task[r] EXCEPT !.at = "refused"]
    <2>1. t \in Task /\ t.at = "refused" /\ t.proc = task[r].proc /\ t.file = task[r].file
      BY <1>1 DEF Task, Answered
    <2>2. task' = [task EXCEPT ![r] = t] /\ task[r].at = "queued"
      BY <1>3 DEF Enter
    <2> QED
      BY <1>3, <2>1, <2>2, Steps
  <1>4. CASE Reusable(task[r].file) = {} /\ ~(CountUnfunded >= MaxUnfunded)
    <2> DEFINE t == [task[r] EXCEPT !.at = "reading", !.asked = now]
    <2>1. t \in Task /\ t.at = "reading" /\ t.proc = task[r].proc /\ t.file = task[r].file
      BY <1>1 DEF Task, Creating
    <2>2. task' = [task EXCEPT ![r] = t] /\ task[r].at = "queued"
      BY <1>4 DEF Enter
    <2> QED
      BY <1>4, <2>1, <2>2, Steps
  <1> QED
    BY <1>2, <1>3, <1>4

LEMMA ReadNextIdMoves ==
  ASSUME TypeOK, NEW r \in Request, ReadNextId(r)
  PROVE  /\ task' \in [Request -> Task]
         /\ \A q \in Request : q # r => task'[q] = task[q]
         /\ task[r].at = "reading" /\ task'[r].at = "predicted"
         /\ task'[r].intended = next_agreement_id /\ task'[r].id = task[r].id
         /\ task'[r].proc = task[r].proc /\ task'[r].file = task[r].file
  <1> DEFINE t == [task[r] EXCEPT !.at = "predicted", !.intended = next_agreement_id]
  <1>1. task[r] \in Task /\ next_agreement_id \in Nat
    BY IdsAre DEF TypeOK
  <1>2. t \in Task /\ t.at = "predicted" /\ t.intended = next_agreement_id
        /\ t.id = task[r].id /\ t.proc = task[r].proc /\ t.file = task[r].file
    BY <1>1 DEF Task, Creating
  <1>3. task' = [task EXCEPT ![r] = t] /\ task[r].at = "reading"
    BY <1>1 DEF ReadNextId, TypeOK
  <1> QED
    BY <1>2, <1>3, Steps

LEMMA SubmitMoves ==
  ASSUME TypeOK, NEW r \in Request, Submit(r)
  PROVE  /\ task' \in [Request -> Task]
         /\ \A q \in Request : q # r => task'[q] = task[q]
         /\ task[r].at = "creating" /\ task'[r].at = "submitted"
         /\ task'[r].intended = task[r].intended /\ task'[r].id = next_agreement_id
         /\ task'[r].proc = task[r].proc /\ task'[r].file = task[r].file
  <1> DEFINE t == [task[r] EXCEPT !.at = "submitted", !.id = next_agreement_id]
  <1>1. task[r] \in Task /\ next_agreement_id \in Nat
    BY IdsAre DEF TypeOK
  <1>2. t \in Task /\ t.at = "submitted" /\ t.id = next_agreement_id
        /\ t.intended = task[r].intended /\ t.proc = task[r].proc /\ t.file = task[r].file
    BY <1>1 DEF Task, Creating
  <1>3. task' = [task EXCEPT ![r] = t] /\ task[r].at = "creating"
    BY <1>1 DEF Submit, TypeOK
  <1> QED
    BY <1>2, <1>3, Steps

LEMMA DisconnectMoves ==
  ASSUME TypeOK, NEW r \in Request, Disconnect(r)
  PROVE  Moved(r, task[r].at)
  <1> DEFINE t == [task[r] EXCEPT !.gone = TRUE]
  <1>1. task[r] \in Task
    BY DEF TypeOK
  <1>2. t \in Task /\ t.at = task[r].at /\ t.proc = task[r].proc
        /\ t.file = task[r].file /\ t.asked = task[r].asked
        /\ t.intended = task[r].intended /\ t.id = task[r].id
        /\ t.wanted = task[r].wanted /\ t.joins = task[r].joins
    BY <1>1 DEF Task
  <1>3. task' = [task EXCEPT ![r] = t]
    BY DEF Disconnect, AfterDisconnect
  <1> QED
    BY <1>2, <1>3, Steps DEF Moved

LEMMA RepriceMoves ==
  ASSUME TypeOK, NEW r \in Request, NEW p \in Process, NEW joins \in {0} \cup DOMAIN chain,
         Reprice(r, p, joins)
  PROVE  /\ task' \in [Request -> Task]
         /\ \A q \in Request : q # r => task'[q] = task[q]
         /\ task[r].at = "quoted"
         /\ \/ task'[r].at = "rejected" /\ Reusable(task[r].file) = {}
            \/ /\ task'[r].at = "verified"
               /\ Reusable(task[r].file) # {}
               /\ task'[r].wanted = Min(Reusable(task[r].file))
         /\ task'[r].file = task[r].file /\ task'[r].id = task[r].id
  <1>1. task[r] \in Task /\ joins \in Nat
    BY IdsAre DEF TypeOK
  <1>2. CASE Reusable(task[r].file) = {}
    <2> DEFINE t == [task[r] EXCEPT !.at = "rejected"]
    <2>1. t \in Task /\ t.at = "rejected" /\ t.file = task[r].file /\ t.id = task[r].id
      BY <1>1 DEF Task, Answered
    <2>2. task' = [task EXCEPT ![r] = t] /\ task[r].at = "quoted"
      BY <1>2 DEF Reprice
    <2> QED
      BY <1>2, <2>1, <2>2, Steps
  <1>3. CASE Reusable(task[r].file) # {}
    <2> DEFINE t == [task[r] EXCEPT !.at = "verified", !.proc = p,
                       !.wanted = Min(Reusable(task[r].file)), !.joins = joins]
    <2>1. Min(Reusable(task[r].file)) \in Nat
      <3>1. Reusable(task[r].file) \subseteq Nat
        BY DEF Reusable, Quoted, TypeOK
      <3> QED
        BY <1>3, <3>1, MinIsLeast
    <2>2. t \in Task /\ t.at = "verified" /\ t.wanted = Min(Reusable(task[r].file))
          /\ t.file = task[r].file /\ t.id = task[r].id
      BY <1>1, <2>1 DEF Task, Paying
    <2>3. task' = [task EXCEPT ![r] = t] /\ task[r].at = "quoted"
      BY <1>3 DEF Reprice
    <2> QED
      BY <1>3, <2>2, <2>3, Steps
  <1> QED
    BY <1>2, <1>3

\* A crash drops the requests of the worker that hold anything.
LEMMA CrashMoves ==
  ASSUME TypeOK, NEW p \in Process, Crash(p)
  PROVE  /\ task' \in [Request -> Task]
         /\ \A q \in Request :
              \/ task'[q] = task[q]
              \/ /\ task'[q].at = "dropped" /\ task[q].proc = p
                 /\ task[q].at \in {"queued", "verified", "checked"} \cup Creating
                 /\ task'[q].proc = task[q].proc
                 /\ task'[q].file = task[q].file /\ task'[q].id = task[q].id
  <1> DEFINE lost == {r \in Request : task[r].proc = p
                        /\ task[r].at \in {"queued", "verified", "checked"} \cup Creating}
             t(q) == [task[q] EXCEPT !.at = "dropped"]
  <1>1. \A q \in Request : task[q] \in Task
    BY DEF TypeOK
  <1>2. \A q \in Request : /\ t(q) \in Task /\ t(q).at = "dropped"
                           /\ t(q).proc = task[q].proc
                           /\ t(q).file = task[q].file /\ t(q).id = task[q].id
    BY <1>1 DEF Task, Answered
  <1>3. task' = [q \in Request |-> IF q \in lost THEN t(q) ELSE task[q]]
    BY DEF Crash
  <1> HIDE DEF t
  <1> QED
    BY <1>1, <1>2, <1>3

-----------------------------------------------------------------------------
(* Rows are for their agreements: CreateInv, for any number of workers and  *)
(* whatever goes wrong.                                                     *)

\* No agreement and no row more, none for other bytes.
SameIds ==
  /\ DOMAIN chain' = DOMAIN chain
  /\ \A id \in DOMAIN chain :
       /\ chain'[id] \in Agreement
       /\ chain'[id].maker = chain[id].maker /\ chain'[id].file = chain[id].file
  /\ DOMAIN jobs' = DOMAIN jobs
  /\ \A id \in DOMAIN jobs : jobs'[id] \in Job /\ jobs'[id].file = jobs[id].file

\* A request goes on with its ids: none is taken for a create but the next one,
\* and none is forgotten once a group names it.
Onward(q) ==
  /\ task[q].at \notin Before =>
       /\ task'[q].at \notin Before
       /\ task'[q].id = task[q].id /\ task'[q].file = task[q].file
  /\ task'[q].at \in Named =>
       \/ task[q].at \in Named /\ task'[q].intended = task[q].intended
       \/ task'[q].intended = next_agreement_id
  /\ task'[q].at \in Sent =>
       /\ task[q].at \in Sent
       /\ task'[q].id = task[q].id /\ task'[q].intended = task[q].intended
  /\ task'[q].at = "created" => task[q].at = "created" \/ Landed(q)
  /\ task'[q].at \in {"written", "shifted"} => task[q].at \in {"written", "shifted"}

\* The rest of a state's types.
RestTyped ==
  /\ now' \in Nat
  /\ inflight' \subseteq inflight
  /\ DOMAIN intents' \subseteq 1..(MaxAgreements + 1)
  /\ \A id \in DOMAIN intents' : intents'[id] \in File
  /\ DOMAIN seen' = Process /\ \A p \in Process : DOMAIN seen'[p] = Source
  /\ task' \in [Request -> Task]
  /\ charged' \subseteq Request

LEMMA OnwardKeeps ==
  ASSUME CreateInv, SameIds, RestTyped, \A q \in Request : Onward(q)
  PROVE  CreateInv'
  <1>1. agreement_count' = agreement_count /\ next_agreement_id' = next_agreement_id
    BY DEF SameIds, agreement_count, next_agreement_id
  <1>2. TypeOK'
    BY <1>1 DEF CreateInv, TypeOK, SameIds, RestTyped
  <1>3. IdsKnown'
    BY <1>1, IdsAre DEF CreateInv, IdsKnown, Onward
  <1>4. Made'
    <2>1. ASSUME NEW id \in DOMAIN chain', chain'[id].maker \in Request
          PROVE  /\ task'[chain'[id].maker].at \notin Before
                 /\ task'[chain'[id].maker].id = id
                 /\ task'[chain'[id].maker].file = chain'[id].file
      BY <2>1 DEF CreateInv, Made, SameIds, Onward
    <2>2. ASSUME NEW r \in inflight'
          PROVE  task'[r].at \notin Before /\ ~Landed(r)'
      BY <2>2 DEF CreateInv, TypeOK, Made, SameIds, Onward, RestTyped, Landed
    <2> QED
      BY <2>1, <2>2 DEF Made
  <1>5. Told'
    <2> SUFFICES ASSUME NEW r \in Request, task'[r].at = "created"
                 PROVE  task'[r].id \in DOMAIN chain /\ chain[task'[r].id].maker = r
      BY DEF Told, SameIds
    <2>1. task[r].at \notin Before /\ task'[r].id = task[r].id
      BY DEF Onward, Sent, Before
    <2>2. CASE task[r].at = "created"
      BY <2>1, <2>2 DEF CreateInv, Told
    <2>3. CASE Landed(r)
      BY <2>1, <2>3 DEF CreateInv, Made, Landed
    <2> QED
      BY <2>2, <2>3 DEF Onward
  <1>6. Written'
    BY DEF CreateInv, Written, SameIds, Onward, Sent
  <1>7. QuoteIsReal'
    BY DEF CreateInv, QuoteIsReal, SameIds
  <1> QED
    BY <1>2, <1>3, <1>4, <1>5, <1>6, <1>7 DEF CreateInv

\* What most actions leave as it was.
LEMMA SameIdsIfUnchanged ==
  ASSUME TypeOK, UNCHANGED <<chain, jobs>>
  PROVE  SameIds
  BY DEF TypeOK, SameIds

LEMMA SubmitKeeps ==
  ASSUME CreateInv, NEW r \in Request, Submit(r)
  PROVE  CreateInv'
  <1>1. TypeOK
    BY DEF CreateInv
  <1>2. /\ task' \in [Request -> Task]
        /\ \A q \in Request : q # r => task'[q] = task[q]
        /\ task[r].at = "creating" /\ task'[r].at = "submitted"
        /\ task'[r].intended = task[r].intended /\ task'[r].id = next_agreement_id
        /\ task'[r].proc = task[r].proc /\ task'[r].file = task[r].file
    BY <1>1, SubmitMoves
  <1>3. inflight' = inflight \cup {r} /\ UNCHANGED <<now, chain, jobs, intents, charged, seen>>
    BY DEF Submit, storeVars
  <1>4. agreement_count' = agreement_count /\ next_agreement_id' = next_agreement_id
    BY <1>3 DEF agreement_count, next_agreement_id
  <1>5. TypeOK'
    BY <1>1, <1>2, <1>3, <1>4 DEF TypeOK
  <1>6. IdsKnown'
    <2> SUFFICES ASSUME NEW q \in Request
                 PROVE  /\ task'[q].at \in Named => task'[q].intended \in 1..next_agreement_id
                        /\ task'[q].at \in Sent =>
                             /\ task'[q].id \in 1..next_agreement_id
                             /\ task'[q].intended <= task'[q].id
      BY <1>4 DEF IdsKnown
    <2>1. CASE q = r
      BY <1>1, <1>2, <2>1, IdsAre DEF CreateInv, IdsKnown, Named
    <2>2. CASE q # r
      BY <1>2, <2>2 DEF CreateInv, IdsKnown
    <2> QED
      BY <2>1, <2>2
  <1>7. Made'
    <2>1. ~Landed(r)
      BY <1>2 DEF CreateInv, Made, Landed, Before
    <2>2. ASSUME NEW id \in DOMAIN chain, chain[id].maker \in Request
          PROVE  /\ task'[chain[id].maker].at \notin Before
                 /\ task'[chain[id].maker].id = id
                 /\ task'[chain[id].maker].file = chain[id].file
      BY <1>2, <2>1, <2>2 DEF CreateInv, Made, Landed
    <2>3. ASSUME NEW q \in inflight'
          PROVE  task'[q].at \notin Before /\ ~Landed(q)
      BY <1>1, <1>2, <1>3, <2>1, <2>3 DEF CreateInv, TypeOK, Made, Before
    <2> QED
      BY <1>3, <2>2, <2>3 DEF Made, Landed
  <1>8. Told' /\ Written' /\ QuoteIsReal'
    BY <1>2, <1>3 DEF CreateInv, Told, Written, QuoteIsReal
  <1> QED
    BY <1>5, <1>6, <1>7, <1>8 DEF CreateInv

\* A chain with an agreement more, whoever made it.
LEMMA GrownChainKeeps ==
  ASSUME CreateInv, NEW file \in File, NEW maker \in Request \cup {Outsider},
         agreement_count < MaxAgreements,
         chain' = Put(chain, next_agreement_id, NewAgreement(file, maker)),
         inflight' \subseteq inflight, maker \notin inflight',
         maker \in Request =>
           /\ maker \in inflight /\ task[maker].id = next_agreement_id
           /\ file = task[maker].file,
         UNCHANGED <<now, jobs, intents, task, charged, seen>>
  PROVE  CreateInv'
  <1>1. TypeOK
    BY DEF CreateInv
  <1>2. /\ DOMAIN chain' = DOMAIN chain \cup {next_agreement_id}
        /\ agreement_count' = agreement_count + 1
        /\ DOMAIN chain' = 1..agreement_count'
        /\ chain'[next_agreement_id] = NewAgreement(file, maker)
        /\ \A id \in DOMAIN chain : chain'[id] = chain[id]
    BY <1>1, ChainGrows
  <1>3. NewAgreement(file, maker) \in Agreement
    BY DEF NewAgreement, Agreement
  <1>4. NewAgreement(file, maker).maker = maker /\ NewAgreement(file, maker).file = file
    BY DEF NewAgreement
  <1>5. agreement_count \in Nat /\ next_agreement_id = agreement_count + 1
    BY <1>1, IdsAre DEF next_agreement_id
  <1>6. TypeOK'
    <2>1. agreement_count' \in 0..MaxAgreements
      BY <1>2, <1>5, QuotesAssumption
    <2>2. \A id \in DOMAIN chain' : chain'[id] \in Agreement
      BY <1>1, <1>2, <1>3 DEF TypeOK
    <2> QED
      BY <1>1, <1>2, <2>1, <2>2 DEF TypeOK
  <1>7. IdsKnown'
    <2>1. next_agreement_id' = next_agreement_id + 1
      BY <1>2 DEF next_agreement_id
    <2> QED
      BY <1>5, <2>1 DEF CreateInv, IdsKnown
  <1>8. Made'
    <2>1. ASSUME NEW id \in DOMAIN chain', chain'[id].maker \in Request
          PROVE  /\ task[chain'[id].maker].at \notin Before
                 /\ task[chain'[id].maker].id = id
                 /\ task[chain'[id].maker].file = chain'[id].file
      <3>1. CASE id = next_agreement_id
        BY <1>2, <1>4, <2>1, <3>1 DEF CreateInv, Made
      <3>2. CASE id \in DOMAIN chain
        BY <1>2, <2>1, <3>2 DEF CreateInv, Made
      <3> QED
        BY <1>2, <3>1, <3>2
    <2>2. ASSUME NEW q \in inflight'
          PROVE  task[q].at \notin Before /\ ~Landed(q)'
      BY <1>2, <1>4, <2>2 DEF CreateInv, Made, Landed
    <2> QED
      BY <2>1, <2>2 DEF Made
  <1>9. Told' /\ Written' /\ QuoteIsReal'
    BY <1>2 DEF CreateInv, Told, Written, QuoteIsReal
  <1> QED
    BY <1>6, <1>7, <1>8, <1>9 DEF CreateInv

LEMMA LandKeeps ==
  ASSUME CreateInv, NEW r \in Request, Land(r)
  PROVE  CreateInv'
  <1>1. /\ r \in inflight /\ inflight' = inflight \ {r}
        /\ UNCHANGED <<now, jobs, intents, task, charged, seen>>
    BY DEF Land, storeVars
  <1>2. CASE task[r].id = next_agreement_id /\ agreement_count < MaxAgreements
    <2>1. chain' = Put(chain, next_agreement_id, NewAgreement(task[r].file, r))
      BY <1>2 DEF Land
    <2>2. task[r].file \in File
      BY DEF CreateInv, TypeOK, Task
    <2> QED
      BY <1>1, <1>2, <2>1, <2>2, GrownChainKeeps
  <1>3. CASE ~(task[r].id = next_agreement_id /\ agreement_count < MaxAgreements)
    <2>1. chain' = chain
      BY <1>3 DEF Land
    <2>2. SameIds
      BY <1>1, <2>1, SameIdsIfUnchanged DEF CreateInv
    <2>3. RestTyped
      BY <1>1 DEF RestTyped, CreateInv, TypeOK
    <2>4. \A q \in Request : Onward(q)
      BY <1>1 DEF Onward
    <2> QED
      BY <2>2, <2>3, <2>4, OnwardKeeps
  <1> QED
    BY <1>2, <1>3

LEMMA CreateElsewhereKeeps ==
  ASSUME CreateInv, NEW file \in File, CreateElsewhere(file)
  PROVE  CreateInv'
  <1>1. /\ agreement_count < MaxAgreements
        /\ chain' = Put(chain, next_agreement_id, NewAgreement(file, Outsider))
        /\ UNCHANGED <<now, inflight, jobs, intents, task, charged, seen>>
    BY DEF CreateElsewhere, storeVars
  <1>2. Outsider \notin Request /\ Outsider \notin inflight
    BY QuotesAssumption DEF CreateInv, TypeOK
  <1> QED
    BY <1>1, <1>2, GrownChainKeeps

LEMMA WriteRowKeeps ==
  ASSUME CreateInv, NEW r \in Request, WriteRow(r)
  PROVE  CreateInv'
  <1> DEFINE row == [file |-> task[r].file, state |-> "QUOTED",
                     quoted_at |-> task[r].asked, holder |-> Nobody]
  <1>1. TypeOK
    BY DEF CreateInv
  <1>2. Moved(r, "written") /\ task[r].at = "created"
    BY <1>1, AtMoves DEF WriteRow, Place, Creating
  <1>3. /\ jobs' = Put(jobs, task[r].id, row)
        /\ UNCHANGED <<now, chain, inflight, intents, charged, seen>>
    BY DEF WriteRow, chainVars
  <1>4. row \in Job /\ row.file = task[r].file
    BY <1>1 DEF TypeOK, Task, Job, JobState
  <1> HIDE DEF row
  <1>5. task[r].id \in DOMAIN chain /\ chain[task[r].id].maker = r
        /\ chain[task[r].id].file = task[r].file
    BY <1>2 DEF CreateInv, Told, Made
  <1>6. /\ DOMAIN jobs' = DOMAIN jobs \cup {task[r].id}
        /\ jobs'[task[r].id] = row
    <2>1. DOMAIN jobs' = DOMAIN jobs \cup {task[r].id}
      BY <1>3, PutDomain
    <2>2. jobs'[task[r].id] = row
      BY <1>3, PutRow
    <2> QED
      BY <2>1, <2>2
  <1>7. \A id \in DOMAIN jobs : id # task[r].id => jobs'[id] = jobs[id]
    BY <1>3, PutOthers
  <1>8. agreement_count' = agreement_count /\ next_agreement_id' = next_agreement_id
    BY <1>3 DEF agreement_count, next_agreement_id
  <1>9. TypeOK'
    <2>1. task[r].id \in 1..(MaxAgreements + 1)
      BY <1>1, <1>5, IdsAre, QuotesAssumption
    <2>2. \A id \in DOMAIN jobs' : jobs'[id] \in Job
      BY <1>1, <1>4, <1>6, <1>7 DEF TypeOK
    <2> QED
      BY <1>1, <1>2, <1>3, <1>6, <1>8, <2>1, <2>2 DEF TypeOK, Moved
  <1>10. IdsKnown'
    BY <1>2, <1>8 DEF CreateInv, IdsKnown, Moved, Named, Sent
  <1>11. Made'
    <2>1. ASSUME NEW id \in DOMAIN chain, chain[id].maker \in Request
          PROVE  /\ task'[chain[id].maker].at \notin Before
                 /\ task'[chain[id].maker].id = id
                 /\ task'[chain[id].maker].file = chain[id].file
      BY <1>2, <2>1 DEF CreateInv, Made, Moved, Before
    <2>2. ASSUME NEW q \in inflight
          PROVE  task'[q].at \notin Before /\ ~Landed(q)
      BY <1>1, <1>2, <2>2 DEF CreateInv, Made, Moved, Before, TypeOK
    <2> QED
      BY <1>3, <2>1, <2>2 DEF Made, Landed
  <1>12. Told'
    BY <1>2, <1>3 DEF CreateInv, Told, Moved
  <1>13. Written'
    BY <1>2, <1>6 DEF CreateInv, Written, Moved
  <1>14. QuoteIsReal'
    BY <1>3, <1>4, <1>5, <1>6, <1>7 DEF CreateInv, QuoteIsReal
  <1> QED
    BY <1>9, <1>10, <1>11, <1>12, <1>13, <1>14 DEF CreateInv

-----------------------------------------------------------------------------
(* The other actions, by OnwardKeeps.                                      *)

\* A move of one request to a place that may follow.
LEMMA AtKeeps ==
  ASSUME CreateInv, NEW r \in Request, NEW place \in Place, At(r, place),
         task[r].at \notin Before => place \notin Before,
         place \in Named => task[r].at \in Named,
         place \in Sent => task[r].at \in Sent,
         place = "created" => Landed(r),
         place \in {"written", "shifted"} => task[r].at \in {"written", "shifted"},
         SameIds, inflight' \subseteq inflight, charged' \subseteq Request,
         DOMAIN intents' \subseteq 1..(MaxAgreements + 1),
         \A id \in DOMAIN intents' : intents'[id] \in File,
         UNCHANGED <<now, seen>>
  PROVE  CreateInv'
  <1>1. Moved(r, place)
    BY AtMoves DEF CreateInv
  <1>2. \A q \in Request : Onward(q)
    BY <1>1 DEF Onward, Moved
  <1>3. RestTyped
    BY <1>1 DEF RestTyped, Moved, CreateInv, TypeOK
  <1> QED
    BY <1>2, <1>3, OnwardKeeps

\* The same when the step touches no table.
LEMMA MoveKeeps ==
  ASSUME CreateInv, NEW r \in Request, NEW place \in Place, At(r, place),
         task[r].at \notin Before => place \notin Before,
         place \in Named => task[r].at \in Named,
         place \in Sent => task[r].at \in Sent,
         place = "created" => Landed(r),
         place \in {"written", "shifted"} => task[r].at \in {"written", "shifted"},
         inflight' \subseteq inflight,
         UNCHANGED <<now, chain, jobs, intents, seen, charged>>
  PROVE  CreateInv'
  <1>1. SameIds
    BY SameIdsIfUnchanged DEF CreateInv
  <1>2. /\ DOMAIN intents' \subseteq 1..(MaxAgreements + 1)
        /\ \A id \in DOMAIN intents' : intents'[id] \in File
        /\ charged' \subseteq Request
    BY DEF CreateInv, TypeOK
  <1> QED
    BY <1>1, <1>2, AtKeeps

LEMMA ArriveKeeps ==
  ASSUME CreateInv, NEW r \in Request, NEW p \in Process, NEW f \in File,
         NEW s \in Source, Arrive(r, p, f, s)
  PROVE  CreateInv'
  <1>1. /\ task' \in [Request -> Task]
        /\ \A q \in Request : q # r => task'[q] = task[q]
        /\ task[r].at \in {"idle", "limited"} /\ task'[r].at \in {"limited", "queued"}
    BY ArriveMoves DEF CreateInv
  <1>2. UNCHANGED <<now, chain, inflight, jobs, intents, charged>>
    BY DEF Arrive, chainVars, storeVars
  <1>3. DOMAIN seen' = Process /\ \A w \in Process : DOMAIN seen'[w] = Source
    BY DEF Arrive, AfterRefusal, Counted, StillSeen, CreateInv, TypeOK
  <1>4. RestTyped
    BY <1>1, <1>2, <1>3 DEF RestTyped, CreateInv, TypeOK
  <1>5. \A q \in Request : Onward(q)
    BY <1>1 DEF Onward, Before, Named, Sent
  <1> QED
    BY <1>2, <1>4, <1>5, OnwardKeeps, SameIdsIfUnchanged DEF CreateInv

LEMMA EnterKeeps ==
  ASSUME CreateInv, NEW r \in Request, Enter(r)
  PROVE  CreateInv'
  <1>1. /\ task' \in [Request -> Task]
        /\ \A q \in Request : q # r => task'[q] = task[q]
        /\ task[r].at = "queued" /\ task'[r].at \in {"quoted", "refused", "reading"}
    BY EnterMoves DEF CreateInv
  <1>2. UNCHANGED <<now, chain, inflight, jobs, intents, charged, seen>>
    BY DEF Enter, chainVars, storeVars
  <1>3. RestTyped
    BY <1>1, <1>2 DEF RestTyped, CreateInv, TypeOK
  <1>4. \A q \in Request : Onward(q)
    BY <1>1 DEF Onward, Before, Named, Sent
  <1> QED
    BY <1>2, <1>3, <1>4, OnwardKeeps, SameIdsIfUnchanged DEF CreateInv

LEMMA ReadNextIdKeeps ==
  ASSUME CreateInv, NEW r \in Request, ReadNextId(r)
  PROVE  CreateInv'
  <1>1. /\ task' \in [Request -> Task]
        /\ \A q \in Request : q # r => task'[q] = task[q]
        /\ task[r].at = "reading" /\ task'[r].at = "predicted"
        /\ task'[r].intended = next_agreement_id
    BY ReadNextIdMoves DEF CreateInv
  <1>2. UNCHANGED <<now, chain, inflight, jobs, intents, charged, seen>>
    BY DEF ReadNextId, chainVars, storeVars
  <1>3. RestTyped
    BY <1>1, <1>2 DEF RestTyped, CreateInv, TypeOK
  <1>4. \A q \in Request : Onward(q)
    BY <1>1 DEF Onward, Before, Named, Sent
  <1> QED
    BY <1>2, <1>3, <1>4, OnwardKeeps, SameIdsIfUnchanged DEF CreateInv

LEMMA RepriceKeeps ==
  ASSUME CreateInv, NEW r \in Request, NEW p \in Process,
         NEW joins \in {0} \cup DOMAIN chain, Reprice(r, p, joins)
  PROVE  CreateInv'
  <1>1. /\ task' \in [Request -> Task]
        /\ \A q \in Request : q # r => task'[q] = task[q]
        /\ task[r].at = "quoted" /\ task'[r].at \in {"rejected", "verified"}
        /\ task'[r].file = task[r].file /\ task'[r].id = task[r].id
    BY RepriceMoves DEF CreateInv
  <1>2. UNCHANGED <<now, chain, inflight, jobs, intents, charged, seen>>
    BY DEF Reprice, chainVars, storeVars
  <1>3. RestTyped
    BY <1>1, <1>2 DEF RestTyped, CreateInv, TypeOK
  <1>4. \A q \in Request : Onward(q)
    BY <1>1 DEF Onward, Before, Named, Sent
  <1> QED
    BY <1>2, <1>3, <1>4, OnwardKeeps, SameIdsIfUnchanged DEF CreateInv

LEMMA CrashKeeps ==
  ASSUME CreateInv, NEW p \in Process, Crash(p)
  PROVE  CreateInv'
  <1>1. /\ task' \in [Request -> Task]
        /\ \A q \in Request :
              \/ task'[q] = task[q]
              \/ /\ task'[q].at = "dropped"
                 /\ task'[q].file = task[q].file /\ task'[q].id = task[q].id
    BY CrashMoves DEF CreateInv
  <1>2. UNCHANGED <<now, chain, jobs, intents, charged>> /\ inflight' \subseteq inflight
    BY DEF Crash, storeVars
  <1>3. DOMAIN seen' = Process /\ \A w \in Process : DOMAIN seen'[w] = Source
    BY DEF Crash, CreateInv, TypeOK
  <1>4. RestTyped
    BY <1>1, <1>2, <1>3 DEF RestTyped, CreateInv, TypeOK
  <1>5. \A q \in Request : Onward(q)
    BY <1>1 DEF Onward, Before, Named, Sent
  <1> QED
    BY <1>2, <1>4, <1>5, OnwardKeeps, SameIdsIfUnchanged DEF CreateInv

\* Steps that leave every request where it is.
LEMMA StillKeeps ==
  ASSUME CreateInv, SameIds, now' \in Nat,
         UNCHANGED <<inflight, intents, seen, task, charged>>
  PROVE  CreateInv'
  <1>1. RestTyped
    BY DEF RestTyped, CreateInv, TypeOK
  <1>2. \A q \in Request : Onward(q)
    BY DEF Onward
  <1> QED
    BY <1>1, <1>2, OnwardKeeps

\* A seat is taken: no agreement changes but in who paid.
LEMMA SeatTaken ==
  ASSUME TypeOK, NEW id, NEW payer \in Request \cup {Outsider},
         chain' = [chain EXCEPT ![id].payer = payer], UNCHANGED jobs
  PROVE  SameIds
  <1>1. \A i \in DOMAIN chain : chain[i] \in Agreement
    BY DEF TypeOK
  <1>2. \A a \in Agreement : /\ [a EXCEPT !.payer = payer] \in Agreement
                             /\ [a EXCEPT !.payer = payer].maker = a.maker
                             /\ [a EXCEPT !.payer = payer].file = a.file
    BY DEF Agreement
  <1>3. /\ DOMAIN chain' = DOMAIN chain
        /\ \A i \in DOMAIN chain :
             chain'[i] = IF i = id THEN [chain[i] EXCEPT !.payer = payer] ELSE chain[i]
    OBVIOUS
  <1>4. \A i \in DOMAIN chain :
          /\ chain'[i] \in Agreement
          /\ chain'[i].maker = chain[i].maker /\ chain'[i].file = chain[i].file
    BY <1>1, <1>2, <1>3
  <1> QED
    BY <1>3, <1>4 DEF SameIds, TypeOK

LEMMA JoinDirectlyKeeps ==
  ASSUME CreateInv, NEW id \in DOMAIN chain, JoinDirectly(id)
  PROVE  CreateInv'
  BY SeatTaken, StillKeeps DEF JoinDirectly, storeVars, CreateInv, TypeOK

LEMMA TickKeeps ==
  ASSUME CreateInv, Tick
  PROVE  CreateInv'
  <1>1. now' \in Nat
    BY DEF Tick, CreateInv, TypeOK
  <1> QED
    BY <1>1, SameIdsIfUnchanged, StillKeeps DEF Tick, chainVars, storeVars, CreateInv

LEMMA RecordIntentKeeps ==
  ASSUME CreateInv, NEW r \in Request, RecordIntent(r)
  PROVE  CreateInv'
  <1>1. /\ At(r, "creating") /\ task[r].at = "predicted"
        /\ intents' = Put(intents, task[r].intended, task[r].file)
        /\ UNCHANGED <<now, chain, inflight, jobs, charged, seen>>
    BY DEF RecordIntent, chainVars
  <1>2. task[r].intended \in 1..(MaxAgreements + 1) /\ task[r].file \in File
    BY <1>1, IdsAre, QuotesAssumption DEF CreateInv, IdsKnown, Named, TypeOK, Task
  <1>3. DOMAIN intents' = DOMAIN intents \cup {task[r].intended}
    BY <1>1, PutDomain
  <1>4. \A id \in DOMAIN intents' : intents'[id] \in File
    <2>1. intents'[task[r].intended] = task[r].file
      BY <1>1, PutRow
    <2>2. \A id \in DOMAIN intents : id # task[r].intended => intents'[id] = intents[id]
      BY <1>1, PutOthers
    <2> QED
      BY <1>2, <1>3, <2>1, <2>2 DEF CreateInv, TypeOK
  <1>5. DOMAIN intents' \subseteq 1..(MaxAgreements + 1) /\ charged' \subseteq Request
    BY <1>1, <1>2, <1>3 DEF CreateInv, TypeOK
  <1>6. SameIds
    BY <1>1, SameIdsIfUnchanged DEF CreateInv
  <1> QED
    BY <1>1, <1>4, <1>5, <1>6, AtKeeps DEF Place, Creating, Before, Named, Sent

\* An intent cleared.
LEMMA ClearedIntentTyped ==
  ASSUME TypeOK, NEW id, intents' = Drop(intents, id)
  PROVE  /\ DOMAIN intents' \subseteq 1..(MaxAgreements + 1)
         /\ \A i \in DOMAIN intents' : intents'[i] \in File
  <1>1. DOMAIN intents' = DOMAIN intents \ {id}
    BY DropDomain
  <1>2. \A i \in DOMAIN intents : i # id => intents'[i] = intents[i]
    BY DropOthers
  <1> QED
    BY <1>1, <1>2 DEF TypeOK

LEMMA ClearIntendedKeeps ==
  ASSUME CreateInv, NEW r \in Request, ClearIntended(r)
  PROVE  CreateInv'
  <1>1. /\ At(r, IF task[r].id = task[r].intended THEN "quoted" ELSE "shifted")
        /\ task[r].at = "written" /\ intents' = Drop(intents, task[r].intended)
        /\ UNCHANGED <<now, chain, inflight, jobs, charged, seen>>
    BY DEF ClearIntended, chainVars
  <1>2. /\ DOMAIN intents' \subseteq 1..(MaxAgreements + 1)
        /\ \A i \in DOMAIN intents' : intents'[i] \in File
        /\ charged' \subseteq Request
    BY <1>1, ClearedIntentTyped DEF CreateInv, TypeOK
  <1>3. SameIds
    BY <1>1, SameIdsIfUnchanged DEF CreateInv
  <1>4. PICK place \in {"quoted", "shifted"} : At(r, place)
    BY <1>1
  <1> QED
    BY <1>1, <1>2, <1>3, <1>4, AtKeeps
       DEF Place, Creating, Answered, Before, Named, Sent

LEMMA ClearActualKeeps ==
  ASSUME CreateInv, NEW r \in Request, ClearActual(r)
  PROVE  CreateInv'
  <1>1. /\ At(r, "quoted") /\ task[r].at = "shifted" /\ intents' = Drop(intents, task[r].id)
        /\ UNCHANGED <<now, chain, inflight, jobs, charged, seen>>
    BY DEF ClearActual, chainVars
  <1>2. /\ DOMAIN intents' \subseteq 1..(MaxAgreements + 1)
        /\ \A i \in DOMAIN intents' : intents'[i] \in File
        /\ charged' \subseteq Request
    BY <1>1, ClearedIntentTyped DEF CreateInv, TypeOK
  <1>3. SameIds
    BY <1>1, SameIdsIfUnchanged DEF CreateInv
  <1> QED
    BY <1>1, <1>2, <1>3, AtKeeps DEF Place, Answered, Before, Named, Sent

LEMMA ConfirmKeeps ==
  ASSUME CreateInv, NEW r \in Request, Confirm(r)
  PROVE  CreateInv'
  <1>1. PICK place \in {"created", "failed"} :
          At(r, place) /\ (place = "created" => Landed(r))
    BY DEF Confirm
  <1>2. /\ task[r].at = "submitted"
        /\ UNCHANGED <<now, chain, inflight, jobs, intents, charged, seen>>
    BY DEF Confirm, chainVars, storeVars
  <1> QED
    BY <1>1, <1>2, MoveKeeps DEF Place, Creating, Answered, Before, Named, Sent

LEMMA FailKeeps ==
  ASSUME CreateInv, NEW r \in Request, Fail(r) \/ TimeOut(r)
  PROVE  CreateInv'
  <1>1. /\ At(r, "failed") /\ inflight' \subseteq inflight
        /\ UNCHANGED <<now, chain, jobs, intents, charged, seen>>
    BY DEF Fail, TimeOut, AfterFailure, chainVars, storeVars
  <1> QED
    BY <1>1, MoveKeeps DEF Place, Answered, Before, Named, Sent

LEMMA DisconnectKeeps ==
  ASSUME CreateInv, NEW r \in Request, Disconnect(r)
  PROVE  CreateInv'
  <1>1. Moved(r, task[r].at)
    BY DisconnectMoves DEF CreateInv
  <1>2. UNCHANGED <<now, chain, inflight, jobs, intents, charged, seen>>
    BY DEF Disconnect, chainVars, storeVars
  <1>3. RestTyped
    BY <1>1, <1>2 DEF RestTyped, Moved, CreateInv, TypeOK
  <1>4. \A q \in Request : Onward(q)
    BY <1>1 DEF Onward, Moved
  <1> QED
    BY <1>2, <1>3, <1>4, OnwardKeeps, SameIdsIfUnchanged DEF CreateInv

LEMMA CheckMintKeeps ==
  ASSUME CreateInv, NEW r \in Request, CheckMint(r)
  PROVE  CreateInv'
  <1>1. PICK place \in {"checked", "rejected"} : At(r, place)
    BY DEF CheckMint
  <1>2. UNCHANGED <<now, chain, inflight, jobs, intents, charged, seen>>
    BY DEF CheckMint, chainVars, storeVars
  <1> QED
    BY <1>1, <1>2, MoveKeeps DEF Place, Paying, Answered, Before, Named, Sent

\* A mint changes a row's state and holder alone.
LEMMA MintIds ==
  ASSUME TypeOK, NEW r \in Request, Mint(r)
  PROVE  SameIds
  <1>1. /\ jobs' = [jobs EXCEPT ![task[r].wanted].state = "FUNDED",
                                ![task[r].wanted].holder = r]
        /\ UNCHANGED chain
    BY DEF Mint, chainVars
  <1>2. /\ DOMAIN jobs' = DOMAIN jobs
        /\ \A id \in DOMAIN jobs :
             jobs'[id] = IF id = task[r].wanted
                           THEN [[jobs[id] EXCEPT !.state = "FUNDED"] EXCEPT !.holder = r]
                           ELSE jobs[id]
    BY <1>1
  <1>3. \A row \in Job :
          LET new == [[row EXCEPT !.state = "FUNDED"] EXCEPT !.holder = r]
          IN  new \in Job /\ new.file = row.file
    BY DEF Job, JobState
  <1>4. \A id \in DOMAIN jobs : jobs'[id] \in Job /\ jobs'[id].file = jobs[id].file
    BY <1>2, <1>3 DEF TypeOK
  <1> QED
    BY <1>1, <1>2, <1>4 DEF SameIds, TypeOK

LEMMA MintKeeps ==
  ASSUME CreateInv, NEW r \in Request, Mint(r)
  PROVE  CreateInv'
  <1>1. At(r, "minted") /\ UNCHANGED <<now, inflight, intents, charged, seen>>
    BY DEF Mint, chainVars
  <1>2. SameIds
    BY MintIds DEF CreateInv
  <1>3. /\ DOMAIN intents' \subseteq 1..(MaxAgreements + 1)
        /\ \A id \in DOMAIN intents' : intents'[id] \in File
        /\ charged' \subseteq Request
    BY <1>1 DEF CreateInv, TypeOK
  <1> QED
    BY <1>1, <1>2, <1>3, AtKeeps DEF Place, Paying, Before, Named, Sent

LEMMA SettleKeeps ==
  ASSUME CreateInv, NEW r \in Request, Settle(r)
  PROVE  CreateInv'
  <1>1. /\ At(r, "settled") /\ charged' = charged \cup {r}
        /\ UNCHANGED <<now, inflight, jobs, intents, seen>>
        /\ \/ UNCHANGED chain
           \/ chain' = [chain EXCEPT ![task[r].joins].payer = r]
    BY DEF Settle, storeVars
  <1>2. SameIds
    BY <1>1, SameIdsIfUnchanged, SeatTaken DEF CreateInv
  <1>3. /\ DOMAIN intents' \subseteq 1..(MaxAgreements + 1)
        /\ \A id \in DOMAIN intents' : intents'[id] \in File
        /\ charged' \subseteq Request
    BY <1>1 DEF CreateInv, TypeOK
  <1> QED
    BY <1>1, <1>2, <1>3, AtKeeps DEF Place, Answered, Before, Named, Sent

LEMMA SettleFailsKeeps ==
  ASSUME CreateInv, NEW r \in Request, SettleFails(r)
  PROVE  CreateInv'
  <1>1. /\ At(r, "unsettled")
        /\ UNCHANGED <<now, chain, inflight, jobs, intents, charged, seen>>
    BY DEF SettleFails, chainVars, storeVars
  <1> QED
    BY <1>1, MoveKeeps DEF Place, Answered, Before, Named, Sent

\* Initially nothing is on chain and nobody has asked.
LEMMA InitCreate == Init => CreateInv
  <1> SUFFICES ASSUME Init PROVE CreateInv
    OBVIOUS
  <1>1. DOMAIN chain = {} /\ DOMAIN jobs = {} /\ DOMAIN intents = {}
        /\ inflight = {} /\ charged = {} /\ now = 0
    BY DEF Init
  <1>2. \A r \in Request : task[r] \in Task /\ task[r].at = "idle"
    BY DEF Init, Task
  <1>3. task \in [Request -> Task]
    BY <1>2 DEF Init
  <1>4. agreement_count = 0
    BY <1>1, FS_EmptySet DEF agreement_count
  <1>5. TypeOK
    <2>1. agreement_count \in 0..MaxAgreements /\ DOMAIN chain = 1..agreement_count
      BY <1>1, <1>4, QuotesAssumption
    <2>2. DOMAIN seen = Process /\ \A p \in Process : DOMAIN seen[p] = Source
      BY DEF Init
    <2> QED
      BY <1>1, <1>3, <2>1, <2>2 DEF TypeOK
  <1> QED
    BY <1>1, <1>2, <1>5
       DEF CreateInv, IdsKnown, Made, Told, Written, QuoteIsReal, Named, Sent

LEMMA NextCreate == CreateInv /\ [Next]_vars => CreateInv'
  <1> SUFFICES ASSUME CreateInv, [Next]_vars PROVE CreateInv'
    OBVIOUS
  <1>1. ASSUME NEW r \in Request, Ask(r) PROVE CreateInv'
    BY <1>1, ArriveKeeps, EnterKeeps, ReadNextIdKeeps, RecordIntentKeeps, SubmitKeeps,
       ConfirmKeeps, WriteRowKeeps, ClearIntendedKeeps, ClearActualKeeps, FailKeeps,
       DisconnectKeeps
       DEF Ask, Create
  <1>2. ASSUME NEW r \in Request, Pay(r) PROVE CreateInv'
    BY <1>2, RepriceKeeps, CheckMintKeeps, MintKeeps, SettleKeeps, SettleFailsKeeps DEF Pay
  <1>3. ASSUME Surroundings PROVE CreateInv'
    BY <1>3, TickKeeps, CrashKeeps, LandKeeps, CreateElsewhereKeeps, JoinDirectlyKeeps
       DEF Surroundings
  <1>4. CASE UNCHANGED vars
    <2>1. SameIds /\ now' \in Nat
      BY <1>4, SameIdsIfUnchanged DEF vars, CreateInv, TypeOK
    <2> QED
      BY <1>4, <2>1, StillKeeps DEF vars
  <1> QED
    BY <1>1, <1>2, <1>3, <1>4 DEF Next

LEMMA CreateAlways == Spec => []CreateInv
  BY InitCreate, NextCreate, PTL DEF Spec

\* Type correctness: every id is one the chain gave, every row, intent and
\* task holds what its column or local may hold.
THEOREM TypeCorrect == Spec => []TypeOK
  BY CreateAlways, PTL DEF CreateInv

\* A row's agreement is the one its own create returned, for the same bytes,
\* with any number of workers and whatever times out, crashes, lands late or is
\* created beside them (escrow.py's create names one id's boxes; pricing.py
\* writes the row under the id that create returned).
THEOREM QuotesAreReal == Spec => []QuoteIsReal
  BY CreateAlways, PTL DEF CreateInv

-----------------------------------------------------------------------------
(* One task of a worker at a time where the code lets in one.              *)

\* A request comes to hold a lock only by the action that takes it.
Held(q) ==
  /\ task'[q].at \in Creating => task[q].at \in Creating /\ task'[q].proc = task[q].proc
  /\ task'[q].at = "checked" => task[q].at = "checked" /\ task'[q].proc = task[q].proc

LEMMA HeldKeeps ==
  ASSUME OneCreator, OneMinter, \A q \in Request : Held(q)
  PROVE  OneCreator' /\ OneMinter'
  BY DEF OneCreator, OneMinter, Held

LEMMA EnterLocks ==
  ASSUME TypeOK, OneCreator, OneMinter, NEW r \in Request, Enter(r)
  PROVE  OneCreator' /\ OneMinter'
  <1>1. /\ \A q \in Request : q # r => task'[q] = task[q]
        /\ task'[r].at \in {"quoted", "refused", "reading"}
        /\ task'[r].proc = task[r].proc
    BY EnterMoves
  <1>2. \A q \in Request : ~(task[q].proc = task[r].proc /\ task[q].at \in Creating)
    BY DEF Enter, Locked
  <1>3. OneCreator'
    <2> SUFFICES ASSUME NEW a \in Request, NEW b \in Request,
                        task'[a].at \in Creating, task'[b].at \in Creating,
                        task'[a].proc = task'[b].proc
                 PROVE  a = b
      BY DEF OneCreator
    <2> QED
      BY <1>1, <1>2 DEF OneCreator
  <1>4. OneMinter'
    BY <1>1 DEF OneMinter
  <1> QED
    BY <1>3, <1>4

LEMMA CheckMintLocks ==
  ASSUME TypeOK, OneCreator, OneMinter, NEW r \in Request,
         ~Busy(task[r].proc), CheckMint(r)
  PROVE  OneCreator' /\ OneMinter'
  <1>1. PICK place \in {"checked", "rejected"} : At(r, place)
    BY DEF CheckMint
  <1>2. Moved(r, place)
    BY <1>1, AtMoves DEF Place, Paying, Answered
  <1>3. \A q \in Request : ~(task[q].proc = task[r].proc /\ task[q].at = "checked")
    BY DEF Busy
  <1>4. OneCreator'
    BY <1>2 DEF OneCreator, Moved, Creating
  <1>5. OneMinter'
    BY <1>2, <1>3 DEF OneMinter, Moved
  <1> QED
    BY <1>4, <1>5

LEMMA NextLocks ==
  ASSUME TypeOK, OneCreator, OneMinter, [Next]_vars
  PROVE  OneCreator' /\ OneMinter'
  <1>1. ASSUME NEW r \in Request, NEW place \in Place, At(r, place),
               place \in Creating => task[r].at \in Creating,
               place = "checked" => task[r].at = "checked"
        PROVE  \A q \in Request : Held(q)
    BY <1>1, AtMoves DEF Held, Moved
  <1>2. ASSUME NEW r \in Request, NEW p \in Process, NEW f \in File, NEW s \in Source,
               Arrive(r, p, f, s)
        PROVE  \A q \in Request : Held(q)
    BY <1>2, ArriveMoves DEF Held, Creating
  <1>3. ASSUME NEW r \in Request, ReadNextId(r)
        PROVE  \A q \in Request : Held(q)
    BY <1>3, ReadNextIdMoves DEF Held, Creating
  <1>4. ASSUME NEW r \in Request, Submit(r)
        PROVE  \A q \in Request : Held(q)
    BY <1>4, SubmitMoves DEF Held, Creating
  <1>5. ASSUME NEW r \in Request,
               RecordIntent(r) \/ Confirm(r) \/ WriteRow(r) \/ ClearIntended(r)
                 \/ ClearActual(r) \/ Fail(r) \/ TimeOut(r)
        PROVE  \A q \in Request : Held(q)
    <2>1. task[r].at \in Creating
      BY <1>5 DEF RecordIntent, Confirm, WriteRow, ClearIntended, ClearActual, Fail,
                  TimeOut, Creating
    <2>2. PICK place \in {"creating", "created", "failed", "written", "quoted", "shifted"} :
            At(r, place)
      BY <1>5 DEF RecordIntent, Confirm, WriteRow, ClearIntended, ClearActual, Fail,
                  TimeOut, AfterFailure
    <2> QED
      BY <2>1, <2>2, <1>1 DEF Place, Creating, Answered
  <1>6. ASSUME NEW r \in Request, Disconnect(r)
        PROVE  \A q \in Request : Held(q)
    BY <1>6, DisconnectMoves DEF Held, Moved
  <1>7. ASSUME NEW r \in Request, NEW p \in Process, NEW joins \in {0} \cup DOMAIN chain,
               Reprice(r, p, joins)
        PROVE  \A q \in Request : Held(q)
    BY <1>7, RepriceMoves DEF Held, Creating
  <1>8. ASSUME NEW r \in Request, Mint(r) \/ Settle(r) \/ SettleFails(r)
        PROVE  \A q \in Request : Held(q)
    <2>1. PICK place \in {"minted", "settled", "unsettled"} : At(r, place)
      BY <1>8 DEF Mint, Settle, SettleFails
    <2> QED
      BY <2>1, <1>1 DEF Place, Creating, Paying, Answered
  <1>9. ASSUME NEW p \in Process, Crash(p)
        PROVE  \A q \in Request : Held(q)
    BY <1>9, CrashMoves DEF Held, Creating
  <1>10. ASSUME UNCHANGED task
         PROVE  \A q \in Request : Held(q)
    BY <1>10 DEF Held
  <1>11. ASSUME NEW r \in Request, Ask(r)
         PROVE  OneCreator' /\ OneMinter'
    BY <1>11, <1>2, <1>3, <1>4, <1>5, <1>6, HeldKeeps, EnterLocks DEF Ask, Create
  <1>12. ASSUME NEW r \in Request, Pay(r)
         PROVE  OneCreator' /\ OneMinter'
    BY <1>12, <1>7, <1>8, HeldKeeps, CheckMintLocks DEF Pay
  <1>13. ASSUME Surroundings \/ UNCHANGED vars
         PROVE  OneCreator' /\ OneMinter'
    BY <1>13, <1>9, <1>10, HeldKeeps
       DEF Surroundings, Tick, Land, CreateElsewhere, JoinDirectly, vars
  <1> QED
    BY <1>11, <1>12, <1>13 DEF Next

\* create_lock admits one create of a worker at a time, and one of its tasks at
\* a time is between the SELECT and the UPDATE of a mint, whatever crashes,
\* times out or disconnects.
THEOREM OneOfEach == Spec => [](OneCreator /\ OneMinter)
  <1>1. Init => OneCreator /\ OneMinter
    BY DEF Init, OneCreator, OneMinter, Creating
  <1>2. TypeOK /\ (OneCreator /\ OneMinter) /\ [Next]_vars => (OneCreator /\ OneMinter)'
    BY NextLocks
  <1> QED
    BY <1>1, <1>2, TypeCorrect, PTL DEF Spec

-----------------------------------------------------------------------------
(* Nobody is turned away but for requests let in within the last minute.   *)

Turned == {"idle", "limited"}

\* What a worker's list says of a request: it was let in then, for that caller,
\* and has not been turned away since, since it is let in but once.
LetIn(e, source) ==
  /\ e \in Entry
  /\ task[e.by].at \notin Turned
  /\ task[e.by].from = source /\ task[e.by].came = e.at

LimiterInv ==
  /\ \A p \in Process, s \in Source : \A e \in seen[p][s] : LetIn(e, s)
  /\ IsFiniteSet({r \in Request : task[r].at # "idle"})

\* A step that is not for the limiter leaves a request turned away alone, and
\* lets in nobody.
Passes(q) ==
  /\ task'[q].from = task[q].from /\ task'[q].came = task[q].came
  /\ task[q].at \in Turned \/ task'[q].at \in Turned => task'[q] = task[q]

Beyond ==
  /\ \A q \in Request : Passes(q)
  /\ \A p \in Process, s \in Source : seen'[p][s] \subseteq seen[p][s]

LEMMA BeyondKeeps ==
  ASSUME TypeOK, LimiterInv, Beyond
  PROVE  LimiterInv'
  <1>1. \A p \in Process, s \in Source : \A e \in seen'[p][s] : LetIn(e, s)'
    <2> SUFFICES ASSUME NEW p \in Process, NEW s \in Source, NEW e \in seen'[p][s]
                 PROVE  LetIn(e, s)'
      OBVIOUS
    <2>1. LetIn(e, s)
      BY DEF Beyond, LimiterInv
    <2>2. Passes(e.by)
      BY <2>1 DEF LetIn, Entry, Beyond
    <2> QED
      BY <2>1, <2>2 DEF LetIn, Passes
  <1>2. {r \in Request : task'[r].at # "idle"} = {r \in Request : task[r].at # "idle"}
    BY DEF Beyond, Passes, Turned
  <1> QED
    BY <1>1, <1>2 DEF LimiterInv

\* A step of one request that has been let in, to a state in which it still is.
LEMMA OnePasses ==
  ASSUME TypeOK, NEW r \in Request, NEW t, task' = [task EXCEPT ![r] = t],
         task[r].at \notin Turned, t.at \notin Turned,
         t.from = task[r].from, t.came = task[r].came
  PROVE  \A q \in Request : Passes(q)
  <1>1. \A q \in Request : task'[q] = IF q = r THEN t ELSE task[q]
    BY DEF TypeOK
  <1> QED
    BY <1>1 DEF Passes

LEMMA AtPasses ==
  ASSUME TypeOK, NEW r \in Request, NEW place, At(r, place),
         task[r].at \notin Turned, place \notin Turned
  PROVE  \A q \in Request : Passes(q)
  <1> DEFINE t == [task[r] EXCEPT !.at = place]
  <1>1. task[r] \in Task
    BY DEF TypeOK
  <1>2. t.at = place /\ t.from = task[r].from /\ t.came = task[r].came
    BY <1>1 DEF Task
  <1>3. task' = [task EXCEPT ![r] = t]
    BY DEF At
  <1> QED
    BY <1>2, <1>3, OnePasses

LEMMA EnterPasses ==
  ASSUME TypeOK, NEW r \in Request, Enter(r)
  PROVE  \A q \in Request : Passes(q)
  <1> DEFINE t == IF Reusable(task[r].file) # {}
                    THEN [task[r] EXCEPT !.at = "quoted", !.id = Min(Reusable(task[r].file))]
                  ELSE IF CountUnfunded >= MaxUnfunded
                    THEN [task[r] EXCEPT !.at = "refused"]
                  ELSE [task[r] EXCEPT !.at = "reading", !.asked = now]
  <1>1. task[r] \in Task
    BY DEF TypeOK
  <1>2. /\ t.at \in {"quoted", "refused", "reading"}
        /\ t.from = task[r].from /\ t.came = task[r].came
    BY <1>1 DEF Task
  <1>3. task' = [task EXCEPT ![r] = t] /\ task[r].at = "queued"
    BY DEF Enter
  <1> HIDE DEF t
  <1> QED
    BY <1>2, <1>3, OnePasses DEF Turned

LEMMA RepricePasses ==
  ASSUME TypeOK, NEW r \in Request, NEW p, NEW joins, Reprice(r, p, joins)
  PROVE  \A q \in Request : Passes(q)
  <1> DEFINE found == Reusable(task[r].file)
             t == IF found = {} THEN [task[r] EXCEPT !.at = "rejected"]
                  ELSE [task[r] EXCEPT !.at = "verified", !.proc = p,
                                       !.wanted = Min(found), !.joins = joins]
  <1>1. task[r] \in Task
    BY DEF TypeOK
  <1>2. /\ t.at \in {"rejected", "verified"}
        /\ t.from = task[r].from /\ t.came = task[r].came
    BY <1>1 DEF Task
  <1>3. task' = [task EXCEPT ![r] = t] /\ task[r].at = "quoted"
    BY DEF Reprice
  <1> HIDE DEF t
  <1> QED
    BY <1>2, <1>3, OnePasses DEF Turned

LEMMA CreatePasses ==
  ASSUME TypeOK, NEW r \in Request,
         ReadNextId(r) \/ Submit(r) \/ Disconnect(r)
  PROVE  \A q \in Request : Passes(q)
  <1>1. task[r] \in Task
    BY DEF TypeOK
  <1>2. CASE ReadNextId(r)
    <2> DEFINE t == [task[r] EXCEPT !.at = "predicted", !.intended = next_agreement_id]
    <2>1. t.at = "predicted" /\ t.from = task[r].from /\ t.came = task[r].came
      BY <1>1 DEF Task
    <2>2. task' = [task EXCEPT ![r] = t] /\ task[r].at = "reading"
      BY <1>2 DEF ReadNextId, TypeOK
    <2> QED
      BY <2>1, <2>2, OnePasses DEF Turned
  <1>3. CASE Submit(r)
    <2> DEFINE t == [task[r] EXCEPT !.at = "submitted", !.id = next_agreement_id]
    <2>1. t.at = "submitted" /\ t.from = task[r].from /\ t.came = task[r].came
      BY <1>1 DEF Task
    <2>2. task' = [task EXCEPT ![r] = t] /\ task[r].at = "creating"
      BY <1>3 DEF Submit, TypeOK
    <2> QED
      BY <2>1, <2>2, OnePasses DEF Turned
  <1>4. CASE Disconnect(r)
    <2> DEFINE t == [task[r] EXCEPT !.gone = TRUE]
    <2>1. t.at = task[r].at /\ t.from = task[r].from /\ t.came = task[r].came
      BY <1>1 DEF Task
    <2>2. task' = [task EXCEPT ![r] = t] /\ task[r].at \in {"queued"} \cup Creating
      BY <1>4 DEF Disconnect, AfterDisconnect
    <2> QED
      BY <2>1, <2>2, OnePasses DEF Turned, Creating
  <1> QED
    BY <1>2, <1>3, <1>4

LEMMA CrashPasses ==
  ASSUME TypeOK, NEW p \in Process, Crash(p)
  PROVE  Beyond
  <1> DEFINE lost == {r \in Request :
                        /\ task[r].proc = p
                        /\ task[r].at \in {"queued", "verified", "checked"} \cup Creating}
  <1>1. \A q \in Request : task[q] \in Task
    BY DEF TypeOK
  <1>2. \A q \in Request :
          task'[q] = IF q \in lost THEN [task[q] EXCEPT !.at = "dropped"] ELSE task[q]
    BY DEF Crash
  <1>3. \A t \in Task : LET new == [t EXCEPT !.at = "dropped"] IN
          new.at = "dropped" /\ new.from = t.from /\ new.came = t.came
    BY DEF Task
  <1>4. \A q \in lost : task[q].at \notin Turned
    BY DEF Turned, Creating
  <1> HIDE DEF lost
  <1>5. \A q \in Request : Passes(q)
    BY <1>1, <1>2, <1>3, <1>4 DEF Passes, Turned
  <1>6. \A w \in Process, s \in Source : seen'[w][s] \subseteq seen[w][s]
    BY DEF Crash, TypeOK
  <1> QED
    BY <1>5, <1>6 DEF Beyond

\* The limiter lets nobody in but at Arrive, and turns nobody away elsewhere.
LEMMA OnlyArrive ==
  ASSUME TypeOK, [Next]_vars
  PROVE  \/ Beyond
         \/ \E r \in Request, p \in Process, f \in File, s \in Source : Arrive(r, p, f, s)
  <1>1. ASSUME \A q \in Request : Passes(q), UNCHANGED seen
        PROVE  Beyond
    BY <1>1 DEF Beyond
  <1>2. ASSUME NEW r \in Request,
               RecordIntent(r) \/ Confirm(r) \/ WriteRow(r) \/ ClearIntended(r)
                 \/ ClearActual(r) \/ Fail(r) \/ TimeOut(r)
                 \/ CheckMint(r) \/ Mint(r) \/ Settle(r) \/ SettleFails(r)
        PROVE  Beyond
    <2>1. task[r].at \notin Turned
      BY <1>2 DEF RecordIntent, Confirm, WriteRow, ClearIntended, ClearActual, Fail,
                  TimeOut, CheckMint, Mint, Settle, SettleFails, Turned
    <2>2. \E place : At(r, place) /\ place \notin Turned
      BY <1>2 DEF RecordIntent, Confirm, WriteRow, ClearIntended, ClearActual, Fail,
                  TimeOut, AfterFailure, CheckMint, Mint, Settle, SettleFails, Turned
    <2>3. UNCHANGED seen
      BY <1>2 DEF RecordIntent, Confirm, WriteRow, ClearIntended, ClearActual, Fail,
                  TimeOut, CheckMint, Mint, Settle, SettleFails
    <2> QED
      BY <2>1, <2>2, <2>3, AtPasses, <1>1
  <1>3. ASSUME NEW r \in Request, ReadNextId(r) \/ Submit(r) \/ Disconnect(r) \/ Enter(r)
        PROVE  Beyond
    <2>1. UNCHANGED seen
      BY <1>3 DEF ReadNextId, Submit, Disconnect, Enter
    <2> QED
      BY <1>3, <2>1, CreatePasses, EnterPasses, <1>1
  <1>4. ASSUME NEW r \in Request, NEW p \in Process, NEW joins \in {0} \cup DOMAIN chain,
               Reprice(r, p, joins)
        PROVE  Beyond
    BY <1>4, RepricePasses, <1>1 DEF Reprice
  <1>5. ASSUME UNCHANGED <<task, seen>>
        PROVE  Beyond
    BY <1>5 DEF Beyond, Passes
  <1>6. ASSUME NEW r \in Request, Ask(r), ~Beyond
        PROVE  \E p \in Process, f \in File, s \in Source : Arrive(r, p, f, s)
    BY <1>6, <1>2, <1>3 DEF Ask, Create
  <1>7. ASSUME NEW r \in Request, Pay(r)
        PROVE  Beyond
    BY <1>7, <1>2, <1>4 DEF Pay
  <1>8. ASSUME Surroundings \/ UNCHANGED vars
        PROVE  Beyond
    BY <1>8, <1>5, CrashPasses
       DEF Surroundings, Tick, Land, CreateElsewhere, JoinDirectly, vars
  <1> QED
    BY <1>6, <1>7, <1>8 DEF Next

LEMMA ArriveLimits ==
  ASSUME TypeOK, LimiterInv, NEW r \in Request, NEW p \in Process, NEW f \in File,
         NEW s \in Source, Arrive(r, p, f, s)
  PROVE  LimiterInv'
  <1> DEFINE limited == Cardinality(Recent(p, s)) >= PerMinute
             t == [task[r] EXCEPT !.at = IF limited THEN "limited" ELSE "queued",
                                  !.proc = p, !.file = f, !.from = s, !.came = now]
  <1>1. task[r] \in Task /\ now \in Nat
    BY DEF TypeOK
  <1>2. /\ t.at = (IF limited THEN "limited" ELSE "queued")
        /\ t.from = s /\ t.came = now
    BY <1>1 DEF Task
  <1>3. \A q \in Request : task'[q] = IF q = r THEN t ELSE task[q]
    BY DEF Arrive, TypeOK
  <1>4. task[r].at \in Turned
    BY DEF Arrive, Turned
  <1>5. \A w \in Process, c \in Source :
          \/ seen'[w][c] \subseteq seen[w][c]
          \/ /\ ~limited /\ c = s
             /\ seen'[w][c] \subseteq seen[w][c] \cup {[by |-> r, at |-> now]}
    <2>1. seen' = [seen EXCEPT ![p] = IF limited THEN StillSeen(p) ELSE Counted(r, p, s)]
      BY DEF Arrive, AfterRefusal
    <2>2. \A c \in Source : StillSeen(p)[c] \subseteq seen[p][c]
      BY DEF StillSeen
    <2>3. Recent(p, s) \subseteq StillSeen(p)[s]
      BY DEF Recent, Fresh
    <2>4. DOMAIN StillSeen(p) = Source
      BY DEF StillSeen
    <2>5. \A c \in Source :
            Counted(r, p, s)[c] = IF c = s THEN Recent(p, s) \cup {[by |-> r, at |-> now]}
                                           ELSE StillSeen(p)[c]
      BY <2>4 DEF Counted
    <2>6. DOMAIN seen = Process
      BY DEF TypeOK
    <2> HIDE DEF limited
    <2> QED
      BY <2>1, <2>2, <2>3, <2>5, <2>6
  <1> HIDE DEF limited, t
  <1>6. \A w \in Process, c \in Source : \A e \in seen'[w][c] : LetIn(e, c)'
    <2> SUFFICES ASSUME NEW w \in Process, NEW c \in Source, NEW e \in seen'[w][c]
                 PROVE  LetIn(e, c)'
      OBVIOUS
    <2>1. CASE e \in seen[w][c]
      <3>1. LetIn(e, c)
        BY <2>1 DEF LimiterInv
      <3>2. e.by \in Request /\ e.by # r
        BY <3>1, <1>4 DEF LetIn, Entry
      <3> QED
        BY <3>1, <3>2, <1>3 DEF LetIn
    <2>2. CASE ~limited /\ c = s /\ e = [by |-> r, at |-> now]
      <3>1. e \in Entry /\ e.by = r /\ e.at = now
        BY <2>2, <1>1 DEF Entry
      <3> QED
        BY <2>2, <3>1, <1>2, <1>3 DEF LetIn, Turned
    <2> QED
      BY <1>5, <2>1, <2>2
  <1>7. IsFiniteSet({q \in Request : task'[q].at # "idle"})
    <2>1. {q \in Request : task'[q].at # "idle"}
            \subseteq {q \in Request : task[q].at # "idle"} \cup {r}
      BY <1>3
    <2>2. IsFiniteSet({q \in Request : task[q].at # "idle"} \cup {r})
      BY FS_AddElement DEF LimiterInv
    <2> QED
      BY <2>1, <2>2, FS_Subset
  <1> QED
    BY <1>6, <1>7 DEF LimiterInv

\* What turns a request away is let in within the minute, each of it another
\* request's.
LEMMA RecentAreOthers ==
  ASSUME LimiterInv, NEW p \in Process, NEW s \in Source
  PROVE  LET others == {q \in Request : /\ task[q].at \notin Turned
                                        /\ task[q].from = s
                                        /\ task[q].came > now - Minute}
         IN  /\ IsFiniteSet(others) /\ IsFiniteSet(Recent(p, s))
             /\ Cardinality(Recent(p, s)) <= Cardinality(others)
  <1> DEFINE others == {q \in Request : /\ task[q].at \notin Turned
                                        /\ task[q].from = s
                                        /\ task[q].came > now - Minute}
             whose == [e \in Recent(p, s) |-> e.by]
  <1>1. IsFiniteSet(others)
    <2>1. others \subseteq {q \in Request : task[q].at # "idle"}
      BY DEF Turned
    <2> QED
      BY <2>1, FS_Subset DEF LimiterInv
  <1>2. \A e \in Recent(p, s) : LetIn(e, s) /\ e.at > now - Minute
    BY DEF Recent, Fresh, StillSeen, LimiterInv
  <1>3. \A e \in Recent(p, s) : e.by \in others
    BY <1>2 DEF LetIn, Entry
  <1>4. \A d, e \in Recent(p, s) : d.by = e.by => d = e
    BY <1>2 DEF LetIn, Entry
  <1> HIDE DEF others
  <1>5. whose \in Injection(Recent(p, s), others)
    BY <1>3, <1>4 DEF Injection, IsInjective
  <1> HIDE DEF whose
  <1>6. IsFiniteSet(Recent(p, s)) /\ Cardinality(Recent(p, s)) <= Cardinality(others)
    BY <1>1, <1>5, FS_Injection
  <1> QED
    BY <1>1, <1>6 DEF others

LEMMA LimiterAlways == Spec => []LimiterInv
  <1>1. Init => LimiterInv
    <2> SUFFICES ASSUME Init PROVE LimiterInv
      OBVIOUS
    <2>1. {r \in Request : task[r].at # "idle"} = {}
      BY DEF Init
    <2> QED
      BY <2>1, FS_EmptySet DEF Init, LimiterInv
  <1>2. TypeOK /\ LimiterInv /\ [Next]_vars => LimiterInv'
    BY OnlyArrive, BeyondKeeps, ArriveLimits
  <1> QED
    BY <1>1, <1>2, TypeCorrect, PTL DEF Spec

\* Whoever is told to slow down was let in PerMinute times within the last
\* minute, by that worker, however often they asked while told so
\* (SourceLimiter.check raises before it appends).
THEOREM LimitedOnlyIfSo == Spec => LimitedOnlyIf
  <1>1. TypeOK /\ LimiterInv /\ [Next]_vars =>
          [\A r \in Request :
             task'[r] # task[r] /\ task'[r].at = "limited"
               => PerMinute <= Cardinality(
                    {other \in Request : /\ task[other].at \notin {"idle", "limited"}
                                         /\ task[other].from = task'[r].from
                                         /\ task[other].came > now - Minute})]_vars
    <2> SUFFICES ASSUME TypeOK, LimiterInv, [Next]_vars, NEW q \in Request,
                        task'[q] # task[q], task'[q].at = "limited"
                 PROVE  PerMinute <= Cardinality(
                          {other \in Request : /\ task[other].at \notin {"idle", "limited"}
                                               /\ task[other].from = task'[q].from
                                               /\ task[other].came > now - Minute})
      OBVIOUS
    <2>1. PICK r \in Request, p \in Process, f \in File, s \in Source : Arrive(r, p, f, s)
      BY OnlyArrive DEF Beyond, Passes, Turned
    <2> DEFINE limited == Cardinality(Recent(p, s)) >= PerMinute
               t == [task[r] EXCEPT !.at = IF limited THEN "limited" ELSE "queued",
                                    !.proc = p, !.file = f, !.from = s, !.came = now]
    <2>2. task[r] \in Task
      BY DEF TypeOK
    <2>3. t.at = (IF limited THEN "limited" ELSE "queued") /\ t.from = s
      BY <2>2 DEF Task
    <2>4. task'[q] = IF q = r THEN t ELSE task[q]
      BY <2>1 DEF Arrive, TypeOK
    <2> HIDE DEF t, limited
    <2>5. limited /\ task'[q].from = s
      BY <2>3, <2>4
    <2> DEFINE others == {other \in Request : /\ task[other].at \notin Turned
                                              /\ task[other].from = s
                                              /\ task[other].came > now - Minute}
    <2>6. /\ IsFiniteSet(others) /\ IsFiniteSet(Recent(p, s))
          /\ Cardinality(Recent(p, s)) <= Cardinality(others)
      BY RecentAreOthers
    <2>8. PerMinute <= Cardinality(others)
      BY <2>5, <2>6, FS_CardinalityType, QuotesAssumption DEF limited
    <2> QED
      BY <2>5, <2>8 DEF Turned
  <1> QED
    BY <1>1, TypeCorrect, LimiterAlways, PTL DEF Spec, LimitedOnlyIf

=============================================================================
