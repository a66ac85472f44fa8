----------------------------- MODULE SingleRequest -----------------------------
(***************************************************************************)
(* What the single-request policy does while the engine says "work":       *)
(* runSingleRequestStage of server/workflows/single-request-pipeline.ts,   *)
(* with the rows it writes (the operation record, the usage reservation,   *)
(* the resume version, the render job) and the Python service it calls:    *)
(* generate_once and its allowance (services/python-backend/app).          *)
(*                                                                         *)
(* WorkflowEngine delivers work more than once and loses claims; this      *)
(* module is about what must nevertheless happen at most once.             *)
(***************************************************************************)
EXTENDS WorkflowEngine

CONSTANTS
    Findings     \* what public research can come back with; it enters the request's digest

ASSUME SingleRequestAssumption == "none" \notin Findings

VARIABLES
    body,      \* where each activity is inside the stage body, and what it has read
    op,        \* the operation row of resume_work_records, the data the worker patches
    allowance, \* the same row: state, request_digest and response, written by Python
    provider,  \* paid calls: how many were ever sent, and which are still open
    usage,     \* the reservation in usage_ledger and its provider_cost row
    version,   \* the content of the resume version of this operation, "none" before it exists
    render     \* the pdf-rendering job has been enqueued

dataVars == <<body, op, allowance, provider, usage, version, render>>
allVars == <<vars, dataVars>>

Results == {"good", "bad"}   \* a response that passes the local checks, one that does not

Steps == {"start", "reserve", "dispatch", "await", "patch", "commit", "check", "version", "attach",
          "gather", "found", "render"}

Body == [step : Steps, research : Findings \cup {"none"}, result : Results \cup {"none"}]
NotStarted == [step |-> "start", research |-> "none", result |-> "none"]

SRInit ==
    /\ Init
    /\ body = [p \in Procs |-> NotStarted]
    /\ op = [research |-> "none", checked |-> "none", version |-> FALSE]
    /\ allowance = [state |-> "ready", digest |-> "none", response |-> "none"]
    /\ provider = [sent |-> 0, open |-> 0]
    /\ usage = [status |-> "absent", cost |-> FALSE]
    /\ version = "none"
    /\ render = FALSE

SRTypeOK ==
    /\ TypeOK
    /\ body \in [Procs -> Body]
    /\ op \in [research : Findings \cup {"none"}, checked : Results \cup {"none"},
               version : BOOLEAN]
    /\ allowance \in [state : {"ready", "dispatched", "uncertain", "response_saved"},
                      digest : Findings \cup {"none"}, response : Results \cup {"none"}]
    /\ provider \in [sent : Nat, open : Nat]
    /\ usage \in [status : {"absent", "reserved", "committed", "released"}, cost : BOOLEAN]
    /\ version \in Results \cup {"none"}
    /\ render \in BOOLEAN

\* p is in the body of a stage, at a step of it.
In(p, stage, step) ==
    /\ At(p, "work")
    /\ RunningCounterpart(ClaimKey(p)) = stage
    /\ body[p].step = step

GoTo(p, step) == body' = [body EXCEPT ![p].step = step]
Receives(p, result) ==
    body' = [body EXCEPT ![p] =
               [step |-> "patch", research |-> body[p].research, result |-> result]]
Throws(p, error) == WorkThrows(p, error) /\ body' = [body EXCEPT ![p] = NotStarted]
Finishes(p) == WorkDone(p) /\ body' = [body EXCEPT ![p] = NotStarted]

-----------------------------------------------------------------------------
(* RESEARCH: skip when a research key is saved, else gather and patch.      *)

LookUpResearch(p) ==
    /\ In(p, "RESEARCH_RUNNING", "start")
    /\ IF op.research # "none" THEN Finishes(p) ELSE GoTo(p, "gather") /\ UNCHANGED vars
    /\ UNCHANGED <<op, allowance, provider, usage, version, render>>

\* parseJob and collectDurably; another lease holder makes collectDurably throw.
Gather(p) ==
    /\ In(p, "RESEARCH_RUNNING", "gather")
    /\ \/ \E f \in Findings :
            body' = [body EXCEPT ![p].step = "found", ![p].research = f] /\ UNCHANGED vars
       \/ Throws(p, "retryable")
    /\ UNCHANGED <<op, allowance, provider, usage, version, render>>

\* store.patch("operation", ...) merges without a token.
PatchResearch(p) ==
    /\ In(p, "RESEARCH_RUNNING", "found")
    /\ op' = [op EXCEPT !.research = body[p].research]
    /\ Finishes(p)
    /\ UNCHANGED <<allowance, provider, usage, version, render>>

-----------------------------------------------------------------------------
(* V0_GENERATING: reserve, generate once, record, commit, check, append.    *)

ReadOperation(p) ==
    /\ In(p, "V0_GENERATING", "start")
    /\ body' = [body EXCEPT ![p].step = "reserve", ![p].research = op.research]
    /\ UNCHANGED <<vars, op, allowance, provider, usage, version, render>>

\* usage.append: ON CONFLICT DO NOTHING, whatever the status of the row that is there.
Reserve(p) ==
    /\ In(p, "V0_GENERATING", "reserve")
    /\ usage' = IF usage.status = "absent" THEN [usage EXCEPT !.status = "reserved"] ELSE usage
    /\ GoTo(p, "dispatch")
    /\ UNCHANGED <<vars, op, allowance, provider, version, render>>

\* Mutant of MayDispatch: an outcome that is not known is tried again.
MayDispatchAgain == allowance.response = "none"

MayDispatch == allowance.state = "ready"

\* SingleRequestLedger.consume, SELECT ... FOR UPDATE: the only path to a paid call.
Consume(p) ==
    /\ In(p, "V0_GENERATING", "dispatch")
    /\ MayDispatch
    /\ allowance' = [allowance EXCEPT !.state = "dispatched", !.digest = body[p].research]
    /\ provider' = [sent |-> provider.sent + 1, open |-> provider.open + 1]
    /\ GoTo(p, "await")
    /\ UNCHANGED <<vars, op, usage, version, render>>

\* consume finds the allowance used and returns the saved response, for the same input only.
Replay(p) ==
    /\ In(p, "V0_GENERATING", "dispatch")
    /\ ~MayDispatch
    /\ allowance.digest = body[p].research
    /\ allowance.response # "none"
    /\ Receives(p, allowance.response)
    /\ UNCHANGED <<vars, op, allowance, provider, usage, version, render>>

\* 409 OPERATION_INPUT_CHANGED or GENERATION_OUTCOME_UNCERTAIN.  The client raises a
\* PythonBackendError, which is not an AppError: the queue tries again.
Refused(p) ==
    /\ In(p, "V0_GENERATING", "dispatch")
    /\ ~MayDispatch
    /\ allowance.digest # body[p].research \/ allowance.response = "none"
    /\ Throws(p, "retryable")
    /\ UNCHANGED <<op, allowance, provider, usage, version, render>>

\* generate_once returns from the provider and saves; it runs on when its caller has gone.
Answers(p) ==
    IF \E q \in Procs : In(q, "V0_GENERATING", "await")
    THEN p \in Procs /\ In(p, "V0_GENERATING", "await") ELSE TRUE

Lands(p, result) ==
    /\ provider.open > 0
    /\ Answers(p)
    /\ provider' = [provider EXCEPT !.open = @ - 1]
    /\ allowance' = [allowance EXCEPT !.state = "response_saved", !.response = result]
    /\ IF In(p, "V0_GENERATING", "await") THEN Receives(p, result) ELSE UNCHANGED body
    /\ UNCHANGED <<vars, op, usage, version, render>>

\* The call fails or is cancelled: save(None).  The state is uncertain, never ready again.
FailsToLand(p) ==
    /\ provider.open > 0
    /\ Answers(p)
    /\ provider' = [provider EXCEPT !.open = @ - 1]
    /\ allowance' = [allowance EXCEPT !.state = "uncertain"]
    /\ IF In(p, "V0_GENERATING", "await") THEN Throws(p, "retryable") ELSE UNCHANGED <<vars, body>>
    /\ UNCHANGED <<op, usage, version, render>>

\* The Python process dies with the call: nothing is saved.
LostInFlight(p) ==
    /\ provider.open > 0
    /\ Answers(p)
    /\ provider' = [provider EXCEPT !.open = @ - 1]
    /\ IF In(p, "V0_GENERATING", "await") THEN Throws(p, "retryable") ELSE UNCHANGED <<vars, body>>
    /\ UNCHANGED <<op, allowance, usage, version, render>>

\* The worker's client aborts after 60 seconds; the Python side does not notice.
AbortsWaiting(p) ==
    /\ In(p, "V0_GENERATING", "await")
    /\ Throws(p, "retryable")
    /\ UNCHANGED <<op, allowance, provider, usage, version, render>>

PatchValidation(p) ==
    /\ In(p, "V0_GENERATING", "patch")
    /\ op' = [op EXCEPT !.checked = body[p].result]
    /\ GoTo(p, "commit")
    /\ UNCHANGED <<vars, allowance, provider, usage, version, render>>

\* Mutants of Commit: no cost row; a released reservation is passed over, or charged all the same.
CommitWithoutCost(p) ==
    /\ In(p, "V0_GENERATING", "commit")
    /\ IF usage.status = "released"
       THEN Throws(p, "permanent") /\ UNCHANGED usage
       ELSE /\ usage' = [usage EXCEPT !.status = "committed"]
            /\ GoTo(p, "check")
            /\ UNCHANGED vars
    /\ UNCHANGED <<op, allowance, provider, version, render>>

CommitIfReserved(p) ==
    /\ In(p, "V0_GENERATING", "commit")
    /\ usage' = IF usage.status = "released" THEN usage ELSE [status |-> "committed", cost |-> TRUE]
    /\ GoTo(p, "check")
    /\ UNCHANGED <<vars, op, allowance, provider, version, render>>

\* commitReservedWithCost, one transaction; idempotent once committed, 409 once released.
Commit(p) ==
    /\ In(p, "V0_GENERATING", "commit")
    /\ IF usage.status = "released"
       THEN Throws(p, "permanent") /\ UNCHANGED usage
       ELSE /\ usage' = [status |-> "committed", cost |-> TRUE]
            /\ GoTo(p, "check")
            /\ UNCHANGED vars
    /\ UNCHANGED <<op, allowance, provider, version, render>>

\* Mutant of CheckDraft: the checks are recorded and not enforced.
PassDraft(p) ==
    /\ In(p, "V0_GENERATING", "check")
    /\ GoTo(p, "version")
    /\ UNCHANGED <<vars, op, allowance, provider, usage, version, render>>

\* LOCAL_CORRECTION_REQUIRED: no document is made of a draft that failed the checks.
CheckDraft(p) ==
    /\ In(p, "V0_GENERATING", "check")
    /\ IF body[p].result = "bad" THEN Throws(p, "permanent")
       ELSE GoTo(p, "version") /\ UNCHANGED vars
    /\ UNCHANGED <<op, allowance, provider, usage, version, render>>

\* appendVersion is keyed by the operation: the first one stays.
AppendVersion(p) ==
    /\ In(p, "V0_GENERATING", "version")
    /\ version' = IF version = "none" THEN body[p].result ELSE version
    /\ GoTo(p, "attach")
    /\ UNCHANGED <<vars, op, allowance, provider, usage, render>>

AttachVersion(p) ==
    /\ In(p, "V0_GENERATING", "attach")
    /\ op' = [op EXCEPT !.version = TRUE]
    /\ Finishes(p)
    /\ UNCHANGED <<allowance, provider, usage, version, render>>

-----------------------------------------------------------------------------
(* FINAL_QA_RUNNING: the saved checks and version, then the render job.     *)

FinalQa(p) ==
    /\ In(p, "FINAL_QA_RUNNING", "start")
    /\ IF op.checked = "good" /\ op.version
       THEN GoTo(p, "render") /\ UNCHANGED vars ELSE Throws(p, "permanent")
    /\ UNCHANGED <<op, allowance, provider, usage, version, render>>

EnqueueRender(p) ==
    /\ In(p, "FINAL_QA_RUNNING", "render")
    /\ render' = TRUE
    /\ Finishes(p)
    /\ UNCHANGED <<op, allowance, provider, usage, version>>

-----------------------------------------------------------------------------

\* Any database or network call of the body may fail; the queue's tries bound how often.
CallFails(p) ==
    /\ At(p, "work")
    /\ body[p].step # "await"
    /\ Throws(p, "retryable")
    /\ UNCHANGED <<op, allowance, provider, usage, version, render>>

BodyStep(p) ==
    \/ LookUpResearch(p) \/ Gather(p) \/ PatchResearch(p)
    \/ ReadOperation(p) \/ Reserve(p) \/ Consume(p) \/ Replay(p) \/ Refused(p)
    \/ AbortsWaiting(p) \/ PatchValidation(p) \/ Commit(p) \/ CheckDraft(p)
    \/ AppendVersion(p) \/ AttachVersion(p) \/ FinalQa(p) \/ EnqueueRender(p) \/ CallFails(p)

PythonStep ==
    \E p \in Procs :
        \/ \E result \in Results : Lands(p, result)
        \/ FailsToLand(p) \/ LostInFlight(p)

\* Mutant of RefundReserved: releases the run's reservation whatever its status.
RefundAll(p) ==
    /\ Refund(p)
    /\ usage' = IF usage.status = "absent" THEN usage ELSE [usage EXCEPT !.status = "released"]
    /\ UNCHANGED <<body, op, allowance, provider, version, render>>

\* releaseReservedForWorkflowRun, in the failure handler.
RefundReserved(p) ==
    /\ Refund(p)
    /\ usage' = IF usage.status = "reserved" THEN [usage EXCEPT !.status = "released"] ELSE usage
    /\ UNCHANGED <<body, op, allowance, provider, version, render>>

\* The engine's own steps do not touch the pipeline's rows.
EngineStep ==
    /\ \/ \E p \in Procs :
            \/ \E j \in JobIds : Deliver(p, j)
            \/ Load(p) \/ ClaimStage(p) \/ Release(p) \/ TransitionRead(p) \/ TransitionWrite(p)
            \/ AppendEvent(p) \/ AppendCollides(p) \/ Enqueue(p) \/ GiveUp(p)
            \/ MarkApplication(p) \/ Resolve(p) \/ Reject(p)
            \/ JobStalls(p) \/ RecoverIncomplete(p)
            \/ \E q \in Procs : JobTimeout(p, q)
       \/ \E c \in Clients : Call(c) \/ Serve(c) \/ ClientCrash(c)
       \/ \E a \in Actors : EngineCallFails(a)
       \/ Clock
    /\ UNCHANGED dataVars

CrashBody(P) ==
    /\ WorkerCrash(P)
    /\ body' = [p \in Procs |-> IF p \in P THEN NotStarted ELSE body[p]]
    /\ UNCHANGED <<op, allowance, provider, usage, version, render>>

SRNext ==
    \/ \E p \in Procs : BodyStep(p) \/ RefundReserved(p)
    \/ PythonStep
    \/ EngineStep
    \/ \E P \in SUBSET Procs : CrashBody(P)

SRSpec == SRInit /\ [][SRNext]_allVars

-----------------------------------------------------------------------------
(* Properties.                                                              *)

\* docs/single-request-resume-rollout.md: "at most one dispatch by this application", whatever is
\* delivered twice, times out, crashes or is answered after its caller has gone.
AtMostOneDispatch == provider.sent <= 1

\* ADR-009 and the transaction of commitReservedWithCost: a charge has its cost row, is for a
\* response that was received.
ChargeIsBacked ==
    /\ usage.cost <=> usage.status = "committed"
    /\ usage.cost => allowance.response # "none"

\* A reservation that was committed or released stays so: no failure handler refunds what another
\* delivery committed, and an answer that lands after the refund is not charged.
ChargeIsFinal == [][usage.status \in {"committed", "released"} => usage' = usage]_allVars

\* A finished run has a version made of a response that passed the checks, a charge for it and a
\* render job, even if research was done twice or the run was thrown back to an earlier stage.
ReadyIsComplete ==
    run.stage = "FINAL_READY" =>
        /\ version = "good" /\ op.version /\ render
        /\ usage.status = "committed"

\* The version is the saved response; no failed draft, and no second response, becomes one.
VersionIsTheResponse == version # "none" => version = "good" /\ version = allowance.response

=============================================================================
