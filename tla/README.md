# Candidarc: verification project

Candidarc is a TypeScript web service with worker processes (`server/`) and a Python service for
the language-model work (`services/python-backend/`). A customer imports a resume and asks for a
tailored one; a *workflow run* is created and carried by queue jobs through research, generation,
checks and rendering. These modules model that path: the workflow engine, the queue and its
workers, the two pipelines that run on them (one paid call, or the older chain of versions and
audits) with their charges, the paid searches of research, the rendering of documents, the import
of a resume, and the Python service's guards around paid calls; and, beside it, accounts and
sessions. Paths below are relative to the repository root.

## 1. The system

| Component | State it keeps | Operations | What makes it correct |
|---|---|---|---|
| Stage graph `server/workflows/stages.ts` | none | which stage follows which, which queue works on it, what a job may claim | nothing leaves CANCELLED and FINAL_READY |
| Engine `server/workflows/engine.ts` | the `workflow_runs` row (stage, status, attempt, payload with the `claimed:<stage>` leases), `workflow_events` | start, transition, cancel, retry, recoverIncomplete | a run reaches an end; a cancelled run stays cancelled; a restart resumes it |
| Queue `server/workflows/queues.ts` | BullMQ jobs by deterministic id, tries | enqueue, deliver, time out, exhaust | a job is tried a bounded number of times, and its exhaustion is noticed |
| Handlers `server/bootstrap.ts`, `failure-handler.ts`, `handleStage` | none of their own | deliver a stage, release its lease, fail a run | one worker per stage; another worker's lease is never erased |
| Single-request pipeline `single-request-pipeline.ts` | the operation row of `resume_work_records`, usage reservation, version, render job | research, generate, charge, check, append, render | at most one paid call; the charge is backed and final; FINAL_READY means complete |
| Legacy pipeline `resume-pipeline.ts` | run payload (parked result, backend, repair note), versions, current version, audit rows, usage reservations | research, match, V0 to V4, four audits, Final QA and its repair | FINAL_READY only after QA passed; one repair, of a repairable failure; a version is paid for once |
| Rendering `resumes/export-cache.ts` | leases and checksums in `resume_work_records`, objects, `stored_files`, the application row | export a format, publish, give up; the customer's document retry | one publisher; what is offered is stored; a completed run is answered |
| Resume import `modules/resumes/import-service.ts` with `modules/profile` | `candidate_profiles`, `stored_files`, scan and extraction jobs | upload, scan, extract, review, confirm, save, fail | a confirmed resume survives its replacement; no late text comes in |
| Research `research/durable-collection.ts`, `team-collector.ts`, `sources.ts` | research records of `resume_work_records` by 15-minute window, the collector's cache and retrieval of a process, `researchKey` of a run's operation | make and claim a record, mark, search, store, release, name it in the operation | a search is paid for once; what a run names is settled |
| Accounts `auth/*`, routes of `app/api/v1/auth` | `users`, `tenant_memberships`, `auth_identities`, `sessions`, the session's and the transaction's cookie | sign in with Google, sign up, log in, log out | a session is its owner's; no account is linked by its email |
| Allowance (Python) `core/single_request.py`, `modules/single_request.py` | state, digest and response in the same operation row | consume, save | the allowance is never restored |
| Idempotency store (Python) `core/idempotency.py`, `routes.py` | Redis `:lock` and `:data` keys | begin, complete, release, renew | one execution, one response per key, no stale overwrite |
| Customer service, radar, notifications, storage, UI | see `PROJECT.json` | | modelled in part (customer service), or not |

They interact through rows and calls. The API and the workers write the run's row; the engine adds
a job after each row update and event; the queue calls the handler, which reads the run, claims the
stage by a compare-and-set and runs the body; the body calls the Python service, which writes the
operation row as well; a body that throws releases its claim, and the failure handler is called by
the queue's `failed` listener or, for a 4xx error, by the handler itself. The last stage of a run
adds a pdf-rendering job and completes the run without waiting for it: the application row is then
written by the renderer, the failure handler and the customer's retry. An import runs before all
this, over two other queues, and meets the customer's browser in the profile row.

What is hard: none of this is one transaction. Between two statements other deliveries run, the
process may die, a job's timeout fires while its promise runs on, a job is delivered again, a lease
runs out, an answer arrives after its caller has gone. The list, by line, is `hazards` in
`PROJECT.json`.

## 2. Modules

| Module | Models |
|---|---|
| `WorkflowStages` | the stage graph, no state |
| `WorkflowEngine` | one run, its jobs, the activities of the workers and the API clients; extends `WorkflowStages` |
| `SingleRequest` | the stage bodies of the single-request policy and the Python allowance; extends `WorkflowEngine` and replaces its "work" step |
| `LegacyPipeline` | the stage bodies of the older policy over a coarser engine; extends `WorkflowStages` |
| `LegacyPipelineInvariants` | the inductive invariants of `LegacyPipeline`, apart from their proofs so that TLC can evaluate them too; extended by `MCLegacyPipeline` and `LegacyPipelineProofs` |
| `Rendering` | the end of a single-request run: render job, artifacts, publication, failure, document retry |
| `ResumeImport` | a profile, its uploads, their scan and extraction, the candidate's saves |
| `ResearchCollection` | the research of an owner's runs about one job, over several worker processes |
| `SignIn` | accounts, identities, sessions and the two cookies of a browser |
| `Idempotency` | one idempotency key of the Python service |
| `ResponseCell` | what that key promises: a write-once cell; `Idempotency` implements it |
| `MC*` | symmetry sets for TLC |
| `*Proofs` | theorems about `WorkflowEngine`, `SingleRequest`, `LegacyPipeline`, `Idempotency`, `Rendering`, `ResumeImport`, `ResearchCollection`, `SignIn` |

A state change in the code that awaits nothing in between is one step, and so is one SQL statement;
two awaited calls are two steps with everything else in between. The exceptions are named below.

### WorkflowEngine

`run` is the row. `jobs` maps every job id that can ever be added to its state: BullMQ ignores the
addition of an id it knows, and finished jobs are kept (the code keeps the last 1000 completed ones
and all failed ones; a run has far fewer). `exec` maps each *activity* of the worker processes, and
each API client, to where it is. An activity is one asynchronous call chain: a delivery (`attached`
while the queue waits for it), a delivery that lost the race against its timeout or whose lock
lapsed and that runs on, the exhausted-retries hook, or start-up recovery.

Each statement that touches the database or the queue is an action: `TransitionRead`,
`TransitionWrite`, `AppendEvent` and `Enqueue` are the four calls of `engine.transition`; `Load`,
`ClaimStage`, the work, `Release` those of a delivery; `GiveUp`, `Refund`, the transition to
FAILED, `MarkApplication` those of the failure handler. `claimStage` and `releaseStageClaim` are
single UPDATE statements and stay one step. An event insert may collide (`AppendCollides`) when
another event went in since the row was updated: the real window, from reading the maximum to the
insert, lies inside that one.

A claim token is a fresh id, so the claim is represented by the delivery that drew it, and by
`"gone"` once that delivery has ended. A lease that has run out reads as no claim. A lease lasts
five minutes and every job times out after two or three, so it does not run out under a delivery
the queue still waits for (`MayExpire`); it may under one that runs on.

A customer's retry of a failed run (`CustomerRetry`, `resumes/customer-generate.ts`) moves it to the
stage the failure handler noted in the payload (`failedAt`), with the payload it read and attempt 1.

A body ends in its transitions or throws a retryable error or a permanent one (a 4xx `AppError`,
which goes straight to the failure handler). Any call of the engine itself may fail as well
(`EngineCallFails`, bounded by `MaxCallFailures`): inside `transition` that is an exception like
another; in the reads and the claim before the handler's `try`, in the release inside its `catch` and
in the failure handler it leaves the handler as it is. A call whose effect took place although it
reported a failure is the same as its success followed by the failure of the next call.

### SingleRequest

`body` says where each activity is in its stage and what it has read; `op` and `allowance` are two
parts of one row, the first patched by the worker and the second by Python; `provider` counts the
paid calls sent and still open; `usage` is the reservation and its cost row. The provider's answer
lands, fails, or is lost with the Python process, whether or not its caller still waits. `Findings`
stands for everything that enters the digest of a request: a second research delivery may change
it. The engine's steps leave these variables alone, except `Refund` (the failure handler's release
of the reservation) and a crash, which loses the local state.

### LegacyPipeline

`WorkflowEngine` has the races inside `transition`, `claimStage` and `releaseStageClaim`; here each
of those is one step and the enqueue after a transition another, so that the bodies can be opened
up. `exec[a].pc` is where an activity is in its body: `FirstStep` gives the first statement of each
stage, `Judge` what a body does with an answer, and a body's closing sequence of transitions and
application writes is a *script* (`ResearchScript`, `AuditScript` ...) that `Script` performs one
entry at a time. `run.payload` is the part of the JSON payload that controls something: the
parked generation (`pending`), the repair note, the backend, the claims. Bodies write it back as a
whole from the copy they claimed, and so does the model. What a model answered is a choice among
`Answers(op)`; the answer is then stored under the operation's idempotency key, and `AnswerExpires`
lets the key run out, which is when a repeated call is a second paid call.

A repair notes its number in the payload between its version and the pointer: `RereadRun` reads the
run again, `NoteVersion` writes what it read back as a whole. After FINAL_READY the script asks for
the documents (`EnqueueDocuments`); the rendering queue is not this module's, so the step changes
nothing here, but the call may fail or the worker die at it.

The runs of this module are not customer-facing. The workflow handler hands a customer-facing run
of the older policy to `preserveLegacyCustomerRun` (`bootstrap.ts:376`), which pauses it without a
stage body; that, and with it such a run, is not modelled.

A run is started at research or at the generation of a version (`Starts`), the earlier versions
being those of earlier runs. `MaxRunAttempts` is the run's `maxAttempts`, 5 in the code
(`engine.ts:194`). An audit stops in its review: the branch that goes on by itself
(`resume-pipeline.ts:1638`) reads `autoAdvanceAudits` from the application's metadata, where no code
sets it to true (`customer-generate.ts:241` sets it to false, `:801` sets it in the run's payload).

### Rendering

`RNext` has four kinds of actors on one application row. `Qa*` is the last stage body of the run.
`Deliver` to `Unlock` is `renderCustomerArtifacts`: take the lease `publish:<application>`, then for
each format `exportFormat` (claim, look the record up, head the object, render, record, upload,
verify, create the row, release), then publish. `GiveUp` to `HookMarks` is the pdf branch of
`handleWorkflowJobExhausted`. `RetryReads` to `RetryWrites` is the customer's document retry. Each
writes `app` from the copy it read. A lease is its holder and whether its time has passed;
`"gone"` holds the leases of processes that ended. The claim, renew, patch-by-token and release of
`resume-work-store.ts` are single statements. Bytes differ between two renderings of the same
document (`Bytes`), which is why checksums matter. A head request that fails counts as "not there",
as in the code. The single-request policy makes one version per application, so the tests for a
stale version are left out.

### ResumeImport

Actors are worker activities and browser sessions. Each action is one awaited call of `upload`,
`runMalwareScan`, `runExtraction`, `confirmImport`, `updateExtraction` or the profile service.
Every write of the profile is a compare-and-swap of `onboardingVersion`. The version is not kept:
a reader is `fresh` until somebody else writes, a fresh writer writes and makes all others stale,
and a stale one gets `ONBOARDING_STALE`; this is the same relation between reads and writes without
an unbounded number. An extraction is the file or typed career its facts come from, with the two
baselines the upload wrapped and the attempt that names its jobs. Parsing may fail, the scanner
refuses the files in `Infected`, the object store may return nothing, processes die and deliveries
lose the race against their timeout; other failing database calls are not modelled here.

### ResearchCollection

`SingleRequest` takes research as one step whose result may differ; this module opens it.
`records` are the rows of one scope, by 15-minute window: whether a search was attempted, what was
collected, the lease and whether its time has passed. A delivery (`exec`) goes through
`collectDurably`: `Put`, `Claim`, `Check` under the lease, `Mark`, `Collect`, `Store`, `Release`;
then the stage saves the record's key (`Name`). A patch names the token and not the time, so a
holder whose lease ran out may still write until somebody else claims. `Collect` meets the
collector of its process: its cache, or the retrieval under way, which others join whatever window
they came for, or one of its own. The searches of a retrieval go out one by one (`Search`), counted
by the usage row they are reserved under; which collection comes of them is a choice, a full one
only when every search was out (`Retrieved`). `"gone"` holds the leases of deliveries that ended
without a release. A delivery may start in any window, so that a slow clock or a late redelivery
needs no action of its own.

### SignIn

A request is a sign-in with Google from the start route to the callback's answer, a signup or a
login; `requests` says where it is and what it has read. Each action is one database call of its
route, with the computation up to the next. `Begin` sets the transaction's cookie of a browser,
whose tabs share it; `Return` is the callback up to the verified claims, any subject with any
email; `FindIdentity`, `FindEmailOwner`, `Recheck`, `CreateGoogleUser` and `LoadRaceWinner` are
`resolveGoogleSignIn`. The Google account is one transaction, the password account four inserts.
An account is named by the email it was created with. The unique indexes are guards of the
inserts. A process may die between two calls, which also stands for an answer that is lost.

### Idempotency

`begin` is a sequence of Redis commands and each is a step; the three Lua scripts are one step
each. An owner is a fresh uuid and stands for its request. `renew` moves an expiry only, so it
shows in what `LockExpires` requires: a lock whose owner's process is gone may lapse at any time, a
lock under a live owner only within the bound `MaxLapses` (a late heartbeat).

## 3. Runs

| Run | Question | Instance |
|---|---|---|
| `engine` | does a run end, whatever its stages throw (`RunSettles`)? is a run whose next job was never added picked up (`UnqueuedRunRecovers`)? does a cancelled run refuse new moves (`CancelBlocksNewMoves`)? | 2 activities, 2 racing starts, 2 tries per job; or 1 activity, 1 start and: 2 tries, a crash, a failing call or a detached delivery, and a worker start; 1 try, a cancel with an engine retry or a customer's retry |
| `engine_restart` | violated: `RecoveryResumes` | crash in a stage, then a worker start |
| `customer_retry` | violated: `RetryRequeues` | 1 worker, 1 try, no fault, 1 customer's retry |
| `single_request` | one paid call, a complete result, the right version, a backed and final charge, a live delivery's lease | 2 activities, 2 tries, 1 detached delivery, 1 crash, 2 research results |
| `legacy_pipeline` | is FINAL_READY gated by QA, a repair justified, a version paid for, a parked result kept? | 2 activities, 1 or 2 tries, starts at research, V1 and V4, one fault or client call |
| `rendering` | one publisher, agreeing artifacts, no empty offer, an answer | 2 workers, 1 retry, 2 renderings, 2 tries, one fault of any kind |
| `rendering_crash` | violated: `CompletionIsAnswered` | 2 workers, 1 crash |
| `resume_import` | does a confirmed resume survive, is a review kept, does late text stay out? | 2 sessions, 2 activities, 2 files (one infected), 2 uploads, 1 save, 1 fault |
| `import_infected` | violated: `CareerIsKept` | 1 session, 1 activity, 1 infected file, 2 saves, no fault |
| `research_collection` | is a search sent once, is a collection final and a named one settled? | 2 deliveries, 2 runs, 2 processes, 2 windows, 1 search, 2 full and 1 partial collection, 1 lapse, 1 fault |
| `sign_in` | is a session its subject's, is no account linked by its email, are refusals true and old sessions revoked? | 1 browser, 2 subjects, 2 emails, 2 sign-ins with Google, 1 signup, 1 login, 1 logout, 1 fault |
| `idempotency` | exclusive execution, one response, the cell | 3 requests, 2 bodies, 1 lapse, 1 expiry |

**Bounds.** Two activities are what each of these hazards needs: one that is late and one that
carries on (or one that works and one that runs the failure hook). Two tries give a first failure
that is retried and a second that exhausts the job; where one fault is already a crash, one try is
enough to reach exhaustion. One detached delivery and one crash each interact with every other
step. Three requests let one complete, one hold the lock and one look between the two. The products
of two workers with a customer's calls and with faults are too large; the constraint `CallsApart` of
`MCWorkflowEngine` keeps to one worker and one start from the first call or fault on (and with calls
to one try, and not both kinds of retry), so that one run asks the three questions. In `engine`, `legacy_pipeline`, `rendering` and
`resume_import` one fault out of all kinds (`MaxFaults`) keeps every kind reachable without their
products; so it is in `research_collection` and `sign_in`. The theorems hold for every number of them. The
three starts of `legacy_pipeline` cover research with its pauses, a generation with its audit, and
the last version with Final QA and the repair; the other stages differ from these by their number.
Its two run attempts are the first and one retry, which is what puts a second job on a stage.
Two uploads are a confirmed resume and its replacement, or a superseded upload and the current one.
Two deliveries in two processes are enough for a late holder and its successor, two windows for a
retrieval that a second record joins or a cache that outlives its window. Two sign-ins with Google
in one browser are two tabs, or two callbacks of one person; with a signup for the same email they
meet every unique index.

Terminal states exist (an idle system with a finished run, a settled import), so deadlock is not
checked.

**Fairness.** `RunSettles`, `UnqueuedRunRecovers` and `RecoveryResumes` are checked under fairness: each promise chain in a worker goes on, an API call that began is served, waiting
jobs are delivered by the queue, and leases run out with the clock. No client has to call, no process
has to fail, no worker has to start: `UnqueuedRunRecovers` starts from a recovery that is under way.
An activity's fairness is over all its steps, so that a body may always choose to throw.

**What the runs assume.**

- `LeaseIsKept` says who may take the lease of a delivery the queue waits for: a write of the whole
  payload, which is part of cancel, of the failure handler and of a customer's retry. The first two
  end the run with the same statement. More does not hold. With two late deliveries the run can be
  given up on with an old payload and then be moved on by a late blind update, and a delivery of
  the failed stage's job then works beside a claim that is not its own. A retry of a run that is being
  researched claims under a second key, so that two deliveries work on one stage. A cancel that
  races a transition is overwritten, for the update names the row by id alone; what holds, and what
  `CancelBlocksNewMoves` says, is that no transition that reads the row afterwards passes its check.
- `RunSettles` promises nothing once a customer called, a fault happened or a worker started: an
  event of a cancel or a retry can collide with a worker's event between the row update and the
  enqueue, and the redelivered job is then stale; when the enqueue itself fails, or its process dies
  before it, the redelivered job is stale as well and the run waits for a worker start. That is what
  `UnqueuedRunRecovers` is about. It starts when nothing is queued for the run or at
  work on it: recovery of a run that another delivery is still on puts two workers on it, and the
  late one's blind update can then move the run back to a stage whose job is already completed.
- With detached deliveries the blind update can move a run back to an earlier stage or over a
  terminal one; `ReadyIsComplete` and `VersionIsTheResponse` are about what remains true then.
- A response saved after the failure handler released its reservation can never be committed:
  `ChargeIsFinal` is the protection (nothing is charged after a refund), and the response is lost to
  the customer.
- `VersionsArePaid` speaks of V0 to V4 and of the stages past each of them. It does not speak of the
  version of the repair: a late delivery of the repair may append it while the run is already in Final
  QA, and commits its reservation only after that.
- `ReadyPassedQa` and `RepairFollowsFailure` read "none" as an answer whose key has run out.
- `OnePublisher` assumes that no lease ran out under a live holder, `ArtifactsAgree` also that no
  call failed: the upload does not look at the lease, and a failing head request counts as a missing
  object. Both name the condition in the formula. `OfferedIsStored` needs neither.
- `ConfirmedIsKept` and `WorkersKeepReviews` leave out steps in which the profile names an infected
  file (`Condemned`); what happens then is `import_infected`.
- That an import settles is not claimed: it stays in `pending_scan` when the object store returns
  nothing to the scan, or when the web process dies between the profile's update and the enqueue,
  until the next upload. While one file is extracted, the restored draft of an earlier one may be
  shown again by a save; `ParsedIsCurrent` is about text that newly comes in.
- `OneSearch`, `FoundIsStored` and `NamedIsSettled` are about runs in which no lease ran out under a
  live holder (`LeasesLast`, a condition in the formula). With a late holder a second delivery
  claims the record: it finds the attempt and gives up, or, when the late one had not yet marked it,
  searches again under the same usage rows. `CollectionIsFinal` needs no such condition. A collection that a process
  has cached is stored under a later window as well, without a search; that is by design.
- `SignIn` leaves time out: sessions and transactions do not expire, which can only take away
  states from the properties. `ReplacedIsRevoked` is about the session the request came with; two
  tabs that sign in at once leave two live sessions, one of them in no cookie.
- A customer's resume of a paused legacy run can leave it in RESEARCH_RUNNING: the job may run before
  the application leaves RESEARCH_REVIEW_REQUIRED and then returns (`customer-generate.ts:745`). The
  safety properties hold through it; that the run goes on does not.
- A worker of the older pipeline that dies, or whose enqueue fails, between FINAL_READY and the
  enqueue of the documents (`resume-pipeline.ts:2027`, `:2069`) leaves a finished run without the
  render job: the redelivered job finds the stage past its claim and ends. `LegacyPipeline` has the
  step and its failure, no property about the documents.

**The four disagreements** are under `findings`. In short: a worker that dies in a stage leaves a
lease that makes the redelivery look like a duplicate, and recovery re-adds an id the queue knows
(`engine_restart`); a customer's retry of a failed run goes back to the failed stage under attempt 1
and adds the job under the id of the exhausted one, which the queue ignores, while the answer and
the run say queued (`customer_retry`); the failure handler of an exhausted rendering throws before it marks the
application, because the run is FINAL_READY by then (`rendering_crash`); an infected file's restore
takes no account of a career that was confirmed since the upload (`import_infected`).

Two more are in the models without a run of their own. The repair of Final QA goes back to
V4_GENERATING under the same attempt, whose job id the queue has completed and ignores: the repair
never runs (`resume-pipeline.ts:2011`). A signup and a login draw a session id `ses_...`, which the
uuid column refuses, so on PostgreSQL the account is made and no session opened
(`auth/session.ts:34`; the development store in memory takes any id).

## 4. Proofs

Each module of proofs EXTENDS its component. All theorems are for every value of the constants,
from the named assumptions only (`EngineAssumption`, `SingleRequestAssumption`,
`LegacyAssumption`, `IdempotencyAssumption`, `RenderingAssumption`, `ImportAssumption`, `ResearchAssumption`,
`SignInAssumption`: names do not coincide, bounds are natural numbers).

- **`WorkflowEngineProofs`**: `Spec => []TypeOK`. The type is not inductive: it says that a job's
  tries stay within `QueueAttempts`, which needs that a job that can still be delivered has tries
  left (`TriesAreLeft`) and that a delivery the queue waits for is the only one of an active job
  (`DeliveriesAreActive`), or two failures could be counted for one delivery. `Shapes` says which
  fields of an activity are set at which step, so that a job or a transition exists when it is
  used. One lemma per kind of step; most actions change one activity, which `ActorStepKeepsInv`
  covers once. `RenderingProofs` and `ResumeImportProofs` prove their types the same way.
  *Closed*: `Carries` says how the transitions an activity still has to make (`todo`) come from the
  step before, and `RunMoves` that the run's stage changes only in a write an activity checked.
  `MovesInv` then bounds every `todo` by the moves the code contains, none of which is a successor of
  CANCELLED: `CancelledIsClosed` needs the graph only and not the status, which a retry may write over.
  *Leases*: `FaultsLeaveTheRun` and `LiveLeaseStays` go through who may write the claims of a payload;
  that the failure handler writes FAILED with it, and no other move, is `HandlersFail`, inductive with
  the type. `LeasesAreKept` follows.
- **`SingleRequestProofs`**: at most one dispatch, a charge is backed and final, the version is the
  response. The invariant `DataInv` relates the allowance, the provider, the reservation and what
  each activity carries; it needs nothing from the engine, which may deliver, lose and repeat work
  as it likes. That is the design's own claim: the allowance protects even when a worker loses its
  lease. `ImplementsEngine` is the refinement: each step of the opened-up bodies is the engine's work
  step, one of its other steps or a stutter, with the engine's variables themselves as the mapping. What is proved of
  the engine is thereby true of the bodies: the types (`SRTypeCorrect`), the leases
  (`BodiesKeepTheirLeases`), and what `ReadyRunsAreComplete` starts from. For that one, `RowsStay` says that
  version, render job and committed charge are never taken back, so `Complete` lasts;
  `ProgressIsSaved` that an activity past a statement of its body finds that statement's effect in
  the rows; `OnlyCompleteEnds` that only an activity that saw the rows complete has FINAL_READY
  among its moves. A stale delivery may still move the run to FINAL_READY, and is harmless.
- **`LegacyPipelineProofs`**, in seven layers, defined in `LegacyPipelineInvariants`. `LegacyInv` is the type with what makes it inductive:
  the shape of an activity at each step of each stage's body (`Shapes`: its operation, what its
  script may still contain), tries and deliveries as in the engine, and `V4Known`: whoever is past
  the making of V4 finds V4 among the versions, so the newest one is V4 or its repair.
  `AnswersFit`: the answer a body holds is the one Python keeps under the operation's key, and a body
  that judges has paid for it.
  `Lineage`: a run started at research gets no further than the review of its first audit (an audit
  skipped for a mismatched lens would move on from that review, but the review is only reached with
  another answer), so Final QA is none of its stages; one started at a version never goes back to
  research, where the customer's resume would move it.
  `QaInv`: where there is any trace of a repair (`Announced`), V4's judgement is paid for and is a
  repairable failure, or has run out and then either the repaired version is there (`Forgotten`) or
  nobody judges V4 before it is (`Repairing`, `NotRepaired`); and FINAL_READY, written or still in a
  script, comes with the newest version passed and paid (`ReadyIsCleared`). The disjuncts are there
  because the repair is announced in the payload, made in another job and judged in a third, and any
  of them may be delivered again, crash or go on detached in between. Steps that make no progress are
  one class (`Calm`); every other step has a lemma of its own. `ReadyHasPassedQa` and
  `RepairsFollowFailures` follow for any number of activities, clients, tries, expired answers and
  faults, where the run has two activities and one fault.
  `Lines`: which stages one run can be at. A run started at research or at V0, V1 or V2 makes that
  version and ends at its audit (`Early`), for the deliveries of the audit agree on where to send it
  (`Agreed`: they carry the one answer Python keeps, and an answer runs out only when nobody holds it);
  one started at V3 makes it, and from then on it, V4 and the repair are all it makes (`Late`).
  `PaidInv`: the run, a delivery past a finalization and whatever carries the note of a repair have a
  version that is there and committed (`RunFollows`, `Follows`). It needs `Lines`: a delivery given
  up on long ago may finish its version late, and the lines say that it is no version the run has gone
  past unpaid. `VersionsStayPaid` follows.
  `ParkInv`: a result parked in the payload, or in the copy of a body, whose answer has run out before
  its version was made is `Lost`; then the run itself has it parked and everyone at work starts from it
  (`Marked`): a body of a generation is about that version, holds it in its copy and is at a step that
  does not lead through a call. It is there because an answer only runs out while nobody is at work, so
  whoever works later claimed a payload that had it. That the claim of a generating stage is about the
  parked version and no other needs `Lines` (`LostIsAskedFor`): the run makes one version, or it makes
  V4 and its repair, and a payload that parks the repair has its note (`PayloadFits`). A version whose
  answer ran out after it was made is `Forgot`: a body about it is before its look at
  the versions, past the call, or holds the result (`Asks`). `ParkedStaysPaid` follows, for any number
  of expiries, crashes and late deliveries.
- **`IdempotencyProofs`**: type, exclusive execution, single response, right body, no overwrite, and
  `IdemSpec => ImplementsCell`. The invariant says that the lock's owner is inside its critical
  section or gone, that an owner that runs does so while nothing is published, and which requests
  hold replies; the recheck under the lock is what establishes the second. The refinement maps
  `data` to the cell and the replies to its answers, each step to a cell step or a stutter.
- **`RenderingProofs`**, in five layers over the type.
  *One publisher*: `LeasesAreHeld` says that, while no lease ran out under a live holder, a worker
  between taking and giving up a lease is its holder and no lease of a live holder is past its time;
  two publishers would be two holders.
  *Agreement*: `ArtifactsAreKnown` adds what the holder of a format's lease knows at each step (the
  object is missing while it renders, its checksum is the recorded one while it uploads), which the
  previous layer protects from others.
  *Offers*: `KeysAreStored` says of every copy of the application row, in whoever's hands, that its
  keys are of formats with an object and a row; objects and rows are never taken away, so a stale
  copy is harmless. It needs no lease.
  *Answers*: `AnswersCome` says that, undisturbed, from the moment the job is added either there is
  an answer or somebody is still to publish (`Pending`): a delivery to come, one before the lock, or
  the lock's holder. A delivery that is refused the lock leaves the holder behind; the holder
  accounts for every format it is done with as failed or downloadable (`Accounted`), which makes its
  publication an answer. `JobsComeFirst` says that the run is not ahead of its job.
- **`ResumeImportProofs`**: `RIInv` adds to the type what a *fresh* reader knows (`Knows`): what made
  it go on still holds, because whoever could have changed it would have made it stale. Each write
  of the profile then keeps the confirmed resume, the review and the order of the files; the three
  action properties follow action by action.
- **`ResearchCollectionProofs`**, in two layers. `StateInv` needs no assumption on leases: a delivery
  past its start has a window, a process and a run (`Placed`), the token of a record is that of a
  delivery in its locked section or of one that is gone (`TokensAreHeld`), a record has one holder
  (`HoldersAreAlone`), and who starts a retrieval waits for it (`StartersWait`). `Lasting` holds while
  leases last: a delivery in the locked section has the lease (`LockedHold`); the record is marked
  before it searches (`AttemptsAreMarked`), so a search that went out is that of a marked record and
  no second retrieval starts for it (`RetrievalsAreFresh`), which gives `OneSearch`; and what is
  found under the lease or named by a run is `Settled`: collected for good, or attempted and with
  nobody left to store. The hard case is a delivery that took an earlier attempt for an interrupted
  one and named the record: that it stays without a collection is what `Settled` must say of every
  holder.
- **`SignInProofs`**: per request, what it carries is placed (`Placed`), the account it resolved is
  that of its subject or, for a login, one with a workspace (`Resolved`), and the session it replaces
  is revoked before its own is opened and stays so (`Replaces`). `CookiesNameSessions` says that a
  cookie names a session that was opened, so that what a request revokes is not opened later.

Every safety property of the passing runs, invariant or action property, is thereby a theorem. Only
model-checked: liveness, which is `RunSettles` and `UnqueuedRunRecovers` of the engine (fairness and
ENABLED are outside the prover's reach, as is induction over data; no module here needs a recursive
operator), and the statements of the four runs that expect a violation, which the code refutes.

## 5. Not modelled, and plan

Not modelled: the customer's generate and refine
(`customer-generate.ts:146-275`, `772-825`); what a search or a page contains, fetching
and its SSRF checks; token formats, the expiry of sessions and of Google's transactions, CSRF and
the guards of other routes; the watchdog over preparations that take too long; UsageService's own calls,
which are on no run's path; version comparison and audit adjudication, which are data. Job radar,
assistant, notifications, applications and audits services are single-row reads and writes or
heuristics without a protocol of their own. Text, prompts, scores, layout, job-board heuristics
and the front end are data or plumbing. The in-process queue and the memory stores
are for development and tests; the modules follow the BullMQ, Postgres and Redis versions. These
parts are most of the repository's lines; the modules cover what runs concurrently with something
else over shared rows.

What is left, most important first:

1. The customer's generate and refine over the engine; the leases of
   `resume_work_records` against an abstract lock.

Runs stay few: one passing run for a module where the state space allows it, and runs that turn out
to ask the same question are merged.
