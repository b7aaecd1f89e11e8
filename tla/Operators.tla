----------------------------- MODULE Operators -----------------------------
(***************************************************************************)
(* The operator's scripts as they run: create_pool, release_edition and    *)
(* pool_ops, each a sequence of requests to algod with everybody else's    *)
(* calls in between.  A script decides on what it read; the contract       *)
(* decides on what is there when the call arrives.  Clients compares the   *)
(* two at one instant, this module across the instants.                    *)
(*                                                                         *)
(* A shell runs one script at a time.  A call that was sent and not heard  *)
(* of again is a run that stays where it is while the operator starts      *)
(* another from the second shell.                                          *)
(***************************************************************************)
EXTENDS Clients, Sequences

CONSTANTS
  Shell,            \* terminals
  Scenes,           \* bounds: what each shell runs, what is opened elsewhere
  Network,          \* settings.network: "mainnet" or "testnet"
  MeasuredCeiling,  \* MEASURED_SEAT_CEILING
  Day, Minute,      \* what the deadline flags count, in ticks
  DefaultDays,      \* DEFAULT_DEADLINE_DAYS
  VerifyAttempts,   \* VERIFY_ATTEMPTS
  Bundle,           \* the bytes behind each CID: a hash for each file name
  Keys,             \* the account each role signs for
  Treasury,         \* settings.treasury
  Verifier          \* settings.verifier

ASSUME ScriptAssumption ==
  /\ VerifyAttempts \in Nat \ {0}
  /\ Day \in Nat /\ Minute \in Nat /\ DefaultDays \in Nat
  /\ MeasuredCeiling \in Nat /\ MeasuredCeiling <= SeatsCeiling
  /\ Treasury \in Account /\ Verifier \in Account
  /\ Keys \in [DOMAIN Keys -> Account] /\ "admin" \in DOMAIN Keys

\* Every command line of a scene, and the scenes: what each shell is given to
\* run, in order, and what is opened elsewhere.
Commands == UNION {Range(scene.jobs[s]) : scene \in Scenes, s \in Shell}

Plans == [jobs : [Shell -> Seq(Commands)], offers : SUBSET OfferType]

\* Arguments are what the command line's parser makes of them, and what is sent
\* is what its encoding takes: a create's price and seats are not negative, its
\* hash has 32 bytes.
ASSUME SceneAssumption ==
  /\ Scenes \subseteq Plans
  /\ \A job \in Commands :
       /\ job.cmd = "create" =>
            /\ job.length \in Int
            /\ job.price \in Nat /\ job.seats \in Nat
            /\ job.manifest.sha256 \in Hash \cup {ZeroHash}
       /\ job.cmd = "drain" => {"cmd", "id", "count"} \subseteq DOMAIN job

VARIABLES
  run,       \* what each shell's script has left to do, and what it has read
  plan,      \* what is left of the scene: command lines, with the settings
             \* they are run under, and agreements opened elsewhere
  scanned,   \* for each pool, the newest agreement its creator's scan saw
  released   \* for each release a script sent: its note, its hash, its job

scriptVars == <<run, plan, scanned, released>>
allVars == <<vars, scriptVars>>

Idle == [pc |-> "idle"]

\* The shell's script goes on as `next`, the chain untouched.
Goes(s, next) ==
  /\ run' = [run EXCEPT ![s] = next]
  /\ UNCHANGED <<vars, plan, scanned, released>>

-----------------------------------------------------------------------------
(* Manifests, kinds and notes.  A file's name is its stem and its number.  *)

Kinds == {"index", "travel"}

StemOf(kind) == IF kind = "index" THEN "edition" ELSE "trip"

CommittedFile(kind, edition) == <<StemOf(kind), edition>>

\* committed_kind, empty where it raises.
CommittedKind(file, edition) ==
  {kind \in Kinds : file = CommittedFile(kind, edition)}

\* create_note, empty where it raises: a manifest without a file is the index's.
CreateKinds(manifest) ==
  IF manifest.edition < 1 THEN {}
  ELSE IF manifest.file = <<>> THEN {"index"}
  ELSE CommittedKind(manifest.file, manifest.edition)

\* The committed file's entry is not compared.
ReadsAsManifest_Unlisted(m) ==
  /\ m.edition >= 1
  /\ CommittedKind(m.file, m.edition) # {}

\* read_manifest accepts it: the bytes the gateways will be asked for under
\* the committed file's name are the bytes the pool committed to.
ReadsAsManifest(m) ==
  /\ m.edition >= 1
  /\ CommittedKind(m.file, m.edition) # {}
  /\ m.file \in DOMAIN m.files
  /\ m.files[m.file] = m.sha256

ReleaseNote(m, id, cid) ==
  [kind |-> CHOOSE kind \in Kinds : kind \in CommittedKind(m.file, m.edition),
   edition |-> m.edition, agreement |-> id, cid |-> cid]

NoNote == [kind |-> "none"]

\* recheck_gateways: RECHECK_GATEWAYS split at its commas, or the default.
Gateways(job) ==
  IF job.gateways = {} THEN {"default"} ELSE job.gateways \ {"blank"}

GatewaysAllowed(job) == Gateways(job) # {} /\ "path" \notin Gateways(job)

-----------------------------------------------------------------------------
(* Starting a script, and its end.                                         *)

DeadlineAllowed(job) ==
  /\ job.flag = "minutes" => Network # "mainnet"
  /\ job.flag \in {"minutes", "days"} => job.length >= 1

Lasting(job) ==
  IF job.flag = "minutes" THEN job.length * Minute
  ELSE Day * (IF job.flag = "days" THEN job.length ELSE DefaultDays)

\* What a script checks before it asks the chain anything.
Offline(job) ==
  CASE job.cmd = "create" ->
         /\ CreateKinds(job.manifest) # {}
         /\ job.seats <= MeasuredCeiling
         /\ DeadlineAllowed(job)
         /\ Verifier # Keys["admin"]
    [] job.cmd = "release_edition" ->
         /\ ReadsAsManifest(job.manifest)
         /\ GatewaysAllowed(job)
         /\ "verifier" \in DOMAIN Keys
    [] job.cmd = "refund" -> job.count \in 1..BatchCeiling
    [] OTHER -> TRUE

FirstRequest(job) ==
  CASE job.cmd = "create" -> "paused"
    [] job.cmd = "refund" -> "cursor"
    [] job.cmd = "claim" -> "seat"
    [] job.cmd = "close" -> "close"
    [] OTHER -> "record"

Begin(s) ==
  LET job == Head(plan.jobs[s]) IN
  /\ run[s] = Idle
  /\ plan.jobs[s] # <<>>
  /\ Offline(job)
  /\ plan' = [plan EXCEPT !.jobs[s] = Tail(@)]
  /\ run' = [run EXCEPT ![s] = [pc |-> FirstRequest(job), job |-> job]]
  /\ UNCHANGED <<vars, scanned, released>>

\* A refusal, an unanswered read, a refused call, or the operator's Ctrl-C:
\* the script ends and nothing of it is kept.
GiveUp(s) ==
  /\ run[s] # Idle
  /\ Goes(s, Idle)

\* A call that landed: the run goes on as `next`.
Lands(s, next) ==
  /\ run' = [run EXCEPT ![s] = next]
  /\ UNCHANGED <<plan, scanned, released>>

-----------------------------------------------------------------------------
(* create_pool: find_any_open_pool, then create_hash_agreement.            *)

\* The scan's clock is read before its first request.
ReadPaused(s) ==
  /\ run[s].pc = "paused"
  /\ ~paused
  /\ Goes(s, [pc |-> "count", job |-> run[s].job, moment |-> now])

ReadNewest(s) ==
  /\ run[s].pc = "count"
  /\ Goes(s, [pc |-> "scan", job |-> run[s].job, moment |-> run[s].moment,
              at |-> agreement_count, saw |-> agreement_count])

\* Only a pool of this edition's size and price stops the scan.
Blocks_ThisEdition(a, job, moment) ==
  /\ IsOpenPoolShape(a, moment)
  /\ a.min_seats = job.seats
  /\ a.share_price = job.price

Blocks(a, job, moment) == IsOpenPoolShape(a, moment)

\* One agreement, newest first; one that blocks ends the run.
ScanOne(s) ==
  LET r == run[s] IN
  /\ r.pc = "scan" /\ r.at > 0
  /\ Goes(s, IF r.at \in Live /\ Blocks(agreements[r.at], r.job, r.moment)
               THEN Idle ELSE [r EXCEPT !.at = @ - 1])

\* Nothing is open: the deadline is counted from here.
SettleDeadline(s) ==
  LET r == run[s] IN
  /\ r.pc = "scan" /\ r.at = 0
  /\ Goes(s, IF r.job.dry THEN Idle
             ELSE [pc |-> "name", job |-> r.job, saw |-> r.saw,
                   deadline |-> now + Lasting(r.job)])

\* create_hash_agreement refuses a pool of no seats.  The id is read once more,
\* to name the boxes; the deposit is computed.
NameBoxes(s) ==
  LET r == run[s] IN
  /\ r.pc = "name"
  /\ r.job.seats >= 1
  /\ Goes(s, [pc |-> "create", job |-> r.job, saw |-> r.saw,
              deadline |-> r.deadline, id |-> agreement_count + 1,
              deposit |-> RequiredDeposit(r.job.seats)])

OfferOf(r) ==
  [condition |-> "hash", share_price |-> r.job.price,
   min_seats |-> r.job.seats, max_seats |-> r.job.seats,
   deadline |-> r.deadline, commit_hash |-> r.job.manifest.sha256,
   beneficiary |-> Treasury, verifier |-> Verifier]

\* The contract writes the boxes of the id it assigns: they must be named.
CreateLands(r) ==
  /\ r.id = agreement_count + 1
  /\ CreatePasses(Keys["admin"], OfferOf(r), r.deposit)

SendCreate(s) ==
  LET r == run[s] IN
  /\ r.pc = "create"
  /\ CreateLands(r)
  /\ CreateAgreement(Keys["admin"], OfferOf(r), r.deposit)
  /\ scanned' = WithBox(scanned, run[s].id, run[s].saw)
  /\ run' = [run EXCEPT ![s] = Idle]
  /\ UNCHANGED <<plan, released>>

-----------------------------------------------------------------------------
(* pool_ops: expire, refund, claim, close, and drain, which chains them.   *)

\* What drain does next with the record it has just read.
DrainOn(job, a) ==
  LET step == DrainStep(a, Keys[job.role]) IN
  CASE a.state \in {"OPEN", "FUNDED", "FILLED"} -> [pc |-> "lost"]
    [] step = "refund_next" ->
         [pc |-> "cursor", job |-> [job EXCEPT !.count = RefundBatchSize(a)], before |-> a]
    [] step = "close" -> [pc |-> "close", job |-> job]
    [] OTHER -> Idle

ReadRecord(s) ==
  LET job == run[s].job a == agreements[job.id] IN
  /\ run[s].pc = "record"
  /\ job.cmd \in {"expire", "drain"}
  /\ job.id \in Live
  /\ Goes(s, IF job.cmd = "expire" \/ a.state \in {"OPEN", "FUNDED", "FILLED"}
               THEN [pc |-> "holding", job |-> job, rec |-> a]
               ELSE DrainOn(job, a))

\* _guard_expire: the beneficiary's holding is read, then the clock, which
\* --wait sits out.
ReadHolding(s) ==
  /\ run[s].pc = "holding"
  /\ StateExpires(run[s].rec)
  /\ Goes(s, [run[s] EXCEPT !.pc = "clock"])

ReadClock(s) ==
  /\ run[s].pc = "clock"
  /\ ClockExpires(run[s].rec, Keys[run[s].job.role])
  /\ Goes(s, [run[s] EXCEPT !.pc = "expire"])

SendExpire(s) ==
  LET job == run[s].job IN
  /\ run[s].pc = "expire"
  /\ Expire(Keys[job.role], job.id)
  /\ Lands(s, IF job.cmd = "drain" THEN [pc |-> "reread", job |-> job] ELSE Idle)

\* The cursor alone tells whether anything moved.
Unmoved_CursorOnly(a, before) == a.refund_cursor = before.refund_cursor

Unmoved(a, before) ==
  a.state = before.state /\ a.refund_cursor = before.refund_cursor

\* The record after a call; drain stops where nothing moved.
Reread(s) ==
  LET r == run[s] a == agreements[r.job.id] IN
  /\ r.pc = "reread"
  /\ r.job.id \in Live
  /\ Goes(s, IF "before" \in DOMAIN r /\ Unmoved(a, r.before)
               THEN [pc |-> "stalled"] ELSE DrainOn(r.job, a))

\* refund_next: the cursor, then the roster, then the call.
ReadCursor(s) ==
  LET r == run[s] IN
  /\ r.pc = "cursor"
  /\ r.job.id \in Live
  /\ Goes(s, [pc |-> "roster", job |-> r.job, rec |-> agreements[r.job.id],
              before |-> IF "before" \in DOMAIN r THEN r.before ELSE agreements[r.job.id]])

ReadRoster(s) ==
  LET r == run[s] id == r.job.id IN
  /\ r.pc = "roster"
  /\ Goes(s, [pc |-> "refund", job |-> r.job, rec |-> r.rec, before |-> r.before,
              named |-> IF id \in Live THEN NamedPayers(r.rec, roster[id], r.job.count)
                        ELSE {}])

SendRefund(s) ==
  LET r == run[s] IN
  /\ r.pc = "refund"
  /\ SentRefundPasses(r.job.id, r.job.count, r.named)
  /\ RefundNext(r.job.id, r.job.count)
  /\ Lands(s, IF r.job.cmd = "drain"
                THEN [pc |-> "reread", job |-> r.job, before |-> r.before] ELSE Idle)

\* claim_refund: the seat's payer is named from the roster.
ReadSeat(s) ==
  LET job == run[s].job IN
  /\ run[s].pc = "seat"
  /\ job.id \in Live
  /\ job.seat \in DOMAIN roster[job.id]
  /\ Goes(s, [pc |-> "claim", job |-> job, payer |-> roster[job.id][job.seat].payer])

SendClaim(s) ==
  LET r == run[s] IN
  /\ r.pc = "claim"
  /\ r.job.id \in Live
  /\ r.payer = roster[r.job.id][r.job.seat].payer
  /\ ClaimRefund(r.job.id, r.job.seat)
  /\ Lands(s, Idle)

SendClose(s) ==
  /\ run[s].pc = "close"
  /\ Close(run[s].job.id)
  /\ Lands(s, Idle)

-----------------------------------------------------------------------------
(* Releases: pool_ops release, and release_edition around its gateways.    *)

\* What pool_ops asks before a release without a note.
PlainRelease(job, a) ==
  /\ a.condition = "hash" /\ a.max_seats > 1 => job.no_edition_note
  /\ a.verifier = Keys["verifier"]
  /\ a.commit_hash = job.sha256

ReadForRelease(s) ==
  LET job == run[s].job IN
  /\ run[s].pc = "record" /\ job.cmd = "release"
  /\ job.id \in Live
  /\ PlainRelease(job, agreements[job.id])
  /\ Goes(s, [pc |-> "release", job |-> job, hash |-> job.sha256, note |-> NoNote])

\* releasable: the record, then the chain's clock.
ReadReleasable(s) ==
  LET r == run[s] IN
  /\ r.pc \in {"record", "again"} /\ r.job.cmd = "release_edition"
  /\ r.job.id \in Live
  /\ Goes(s, [pc |-> IF r.pc = "record" THEN "runway" ELSE "margin", job |-> r.job,
              rec |-> agreements[r.job.id], fetched |-> IF r.pc = "again" THEN r.fetched ELSE 0])

AfterFetch(r) == [pc |-> "again", job |-> r.job, fetched |-> now]

CheckRunway(s) ==
  LET r == run[s] IN
  /\ r.pc = "runway"
  /\ CheckReleasable(r.rec, Keys["verifier"], r.job.manifest.sha256, r.job.runway)
  /\ Goes(s, IF r.job.skip THEN AfterFetch(r)
             ELSE [pc |-> "fetch", job |-> r.job, attempt |-> 1,
                   pending |-> DOMAIN r.job.manifest.files])

\* One attempt: each pending file is asked of every gateway, and counts as
\* verified once one of them serves the published bytes.  A gateway serves
\* what is behind the CID, something else, or nothing.
Fetch(s) ==
  LET r == run[s]
      true == {name \in r.pending : /\ name \in DOMAIN Bundle[r.job.cid]
                                    /\ Bundle[r.job.cid][name] = r.job.manifest.files[name]}
  IN
  /\ r.pc = "fetch"
  /\ \E answers \in SUBSET (true \X Gateways(r.job)) :
       LET served == {answer[1] : answer \in answers} IN
       Goes(s, IF r.pending = served THEN AfterFetch(r)
               ELSE IF r.attempt = VerifyAttempts THEN Idle
               ELSE [r EXCEPT !.attempt = @ + 1, !.pending = @ \ served])

CheckMargin(s) ==
  LET r == run[s] IN
  /\ r.pc = "margin"
  /\ CheckReleasable(r.rec, Keys["verifier"], r.job.manifest.sha256, Margin)
  /\ Goes(s, IF r.job.dry THEN Idle
             ELSE [pc |-> "release", job |-> r.job, hash |-> r.rec.commit_hash,
                   fetched |-> r.fetched,
                   note |-> ReleaseNote(r.job.manifest, r.job.id, r.job.cid)])

SendRelease(s) ==
  LET r == run[s] IN
  /\ r.pc = "release"
  /\ ReleaseHash(Keys["verifier"], r.job.id, r.hash)
  /\ released' = WithBox(released, r.job.id, [note |-> r.note, hash |-> r.hash, job |-> r.job,
                                              seats |-> agreements[r.job.id].max_seats])
  /\ run' = [run EXCEPT ![s] = Idle]
  /\ UNCHANGED <<plan, scanned>>

-----------------------------------------------------------------------------
(* Everybody else, and the specification.                                  *)

Script(s) ==
  \/ Begin(s) \/ GiveUp(s)
  \/ ReadPaused(s) \/ ReadNewest(s) \/ ScanOne(s) \/ SettleDeadline(s)
  \/ NameBoxes(s) \/ SendCreate(s)
  \/ ReadRecord(s) \/ ReadHolding(s) \/ ReadClock(s) \/ SendExpire(s) \/ Reread(s)
  \/ ReadCursor(s) \/ ReadRoster(s) \/ SendRefund(s)
  \/ ReadSeat(s) \/ SendClaim(s) \/ SendClose(s)
  \/ ReadForRelease(s) \/ ReadReleasable(s) \/ CheckRunway(s) \/ Fetch(s)
  \/ CheckMargin(s) \/ SendRelease(s)

\* The server's creates for /pin, the buyers, and whoever calls what needs
\* no key.
Elsewhere ==
  \/ \E o \in plan.offers :
       /\ CreateAgreement(admin, o, RequiredDeposit(o.max_seats))
       /\ plan' = [plan EXCEPT !.offers = @ \ {o}]
       /\ UNCHANGED <<run, scanned, released>>
  \/ /\ UNCHANGED scriptVars
     /\ \/ \E value \in BOOLEAN \ {paused} : SetPaused(admin, value)
        \/ \E id \in Live :
             \/ \E payer \in Payers, p \in Payments : Join(payer, id, p)
             \/ ReleaseQuorum(id)
             \/ \E payer \in Payers : Expire(payer, id)
             \/ \E count \in 1..BatchCeiling : RefundNext(id, count)
             \/ \E seat \in Occupied(id) : ClaimRefund(id, seat)
             \/ Close(id)
        \/ Tick
        \/ \E acct \in Fickle : LoseHolding(acct) \/ RegainHolding(acct)

\* The application has been bootstrapped and opted in by deploy_config.
InitOperators ==
  /\ now = 0 /\ minFee = InitialFee
  /\ canReceive = Account \cup {App}
  /\ usdc = [a \in Account \cup {App} |-> IF a = App THEN 0 ELSE Funds]
  /\ algo = Funding /\ admin = Keys["admin"] /\ paused = FALSE
  /\ agreement_count = 0
  /\ agreements = [id \in {} |-> TRUE] /\ roster = [id \in {} |-> TRUE]
  /\ run = [s \in Shell |-> Idle] /\ plan \in Scenes
  /\ scanned = [id \in {} |-> 0] /\ released = [id \in {} |-> 0]

NextOperators == Elsewhere \/ \E s \in Shell : Script(s)

SpecOperators == InitOperators /\ [][NextOperators]_allVars

-----------------------------------------------------------------------------
(* What must be true.                                                      *)

\* Two pools are on sale at once only when the second one's scan had counted
\* the agreements before the first was created: whatever a run did see, of
\* this edition's price and size or another's, it did not open beside.
OnePoolUnlessRaced ==
  \A i, j \in DOMAIN scanned \cap Live :
    /\ i < j
    /\ IsOpenPoolShape(agreements[i], now)
    /\ IsOpenPoolShape(agreements[j], now)
    => scanned[j] < i

\* Settings no create passes with, which create_pool sends all the same: its
\* seats are looked at before, its price and hash by the contract alone.
NeverValid(job) == job.price = 0 \/ job.manifest.sha256 = ZeroHash

\* A create that its script lets through is refused only for what no check of
\* an earlier moment can see: a create that came between, a pause, a deadline
\* that has gone by, or a treasury that cannot receive; or for settings that
\* nothing checks but the contract.
CreateRefusedOnlyIf ==
  \A s \in Shell : LET r == run[s] IN
    r.pc = "create" =>
      \/ CreateLands(r)
      \/ r.id # agreement_count + 1 \/ paused \/ now >= r.deadline
      \/ Treasury \notin canReceive \/ agreement_count = MaxAgreements
      \/ NeverValid(r.job)

\* A call of drain or expire is refused only if the record has moved since the
\* script decided on it, or a filled agreement's beneficiary can receive again: a
\* window cut from a stale cursor is never the one thing wrong with it.
RefusedOnlyIfMoved ==
  \A s \in Shell :
    LET r == run[s] id == r.job.id IN
    /\ r.pc = "expire" =>
         \/ ExpirePasses(Keys[r.job.role], id)
         \/ id \notin Live \/ agreements[id] # r.rec
         \/ r.rec.state = "FILLED" /\ r.rec.beneficiary \in canReceive
    /\ r.pc = "refund" /\ r.job.cmd = "drain" =>
         \/ SentRefundPasses(id, r.job.count, r.named)
         \/ id \notin Live \/ agreements[id] # r.before
    /\ r.pc = "close" /\ r.job.cmd = "drain" => ClosePasses(id) \/ id \notin Live

\* Drain always knows what to do next, whoever else is moving the agreement:
\* it neither finds a call of its own to have changed nothing, nor a state it
\* cannot advance.
DrainKnowsItsWay == \A s \in Shell : run[s].pc \notin {"stalled", "lost"}

\* A release of release_edition that is refused was too late by the whole
\* margin, counted from the end of the gateway check however long that took,
\* or another release came first, or the beneficiary cannot receive.
ReleaseRefusedOnlyIf ==
  \A s \in Shell :
    LET r == run[s] id == r.job.id IN
    r.pc = "release" /\ r.job.cmd = "release_edition" =>
      \/ ReleaseHashPasses(Keys["verifier"], id, r.hash)
      \/ now - r.fetched >= Margin
      \/ id \notin Live \/ agreements[id].state = "RELEASED"
      \/ agreements[id].beneficiary \notin canReceive

\* Nothing a script sends is refused but for what moved after its last look.
CallsRefusedOnlyIf == CreateRefusedOnlyIf /\ RefusedOnlyIfMoved /\ ReleaseRefusedOnlyIf

\* A pool released by a script keeps its link: unless the operator said that
\* no edition is involved, the release carries a note from which alone a
\* reader gets to the bytes the pool committed to, by fetching the committed
\* file of the note's kind and edition under the note's CID.  Waiving the
\* gateway check waives the last part.
LinkKept ==
  \A id \in DOMAIN released :
    LET r == released[id] IN
    r.seats > 1 =>
      \/ r.job.cmd = "release" /\ r.job.no_edition_note
      \/ /\ r.note # NoNote
         /\ r.note.agreement = id
         /\ \/ r.job.skip
            \/ LET name == CommittedFile(r.note.kind, r.note.edition) IN
                 /\ name \in DOMAIN Bundle[r.note.cid]
                 /\ Bundle[r.note.cid][name] = r.hash
=============================================================================
