---------------------------- MODULE WorkflowEngine ----------------------------
(***************************************************************************)
(* One workflow run driven through a BullMQ queue by the worker processes: *)
(* server/workflows/engine.ts (start, transition, cancel, retry and        *)
(* recoverIncomplete), the queue adapter, the queue handler of             *)
(* server/bootstrap.ts, handleStage of resume-pipeline.ts and the          *)
(* exhausted-retries handler.  Every statement that reads or writes the    *)
(* database, or the queue, is a step: other actors run between two of them.*)
(*                                                                         *)
(* An activity (Procs) is one asynchronous call chain in a worker process: *)
(* a delivery of a job, a delivery the queue has given up on but whose     *)
(* promise still runs, the exhausted-retries hook, or start-up recovery.   *)
(* A client makes one API call.  What a stage does between claiming and    *)
(* its first transition is one step here; SingleRequest opens it up.       *)
(***************************************************************************)
EXTENDS WorkflowStages, Naturals, Sequences, FiniteSets

CONSTANTS
    Procs,           \* activities of the worker processes
    Starters, Cancellers, Retriers,  \* API clients, one call of engine.ts each
    Resumers,        \* customers, one retry of a failed run each
    MaxRunAttempts,  \* the run's maxAttempts (5 in the code)
    QueueAttempts,   \* deliveries of one job before it is exhausted (4 or 5 in the code)
    MaxDetached,     \* bound: job timeouts and stalls
    MaxCrashes,      \* bound: process crashes
    MaxCallFailures, \* bound: database and queue calls of the engine that fail
    MaxFaults,       \* bound: all of these together
    MaxWorkerStarts  \* bound: worker processes started while the run exists

Clients == Starters \cup Cancellers \cup Retriers \cup Resumers
Actors == Procs \cup Clients

ASSUME EngineAssumption ==
    /\ Procs \cap (Clients \cup {"nobody", "gone"}) = {}
    /\ Resumers \cap (Starters \cup Cancellers \cup Retriers) = {}
    /\ MaxRunAttempts \in Nat \ {0}
    /\ QueueAttempts \in Nat \ {0}
    /\ MaxDetached \in Nat
    /\ MaxCrashes \in Nat
    /\ MaxCallFailures \in Nat
    /\ MaxFaults \in Nat
    /\ MaxWorkerStarts \in Nat

VARIABLES
    run,    \* the workflow_runs row; "claims" is the claimed:<stage> part of its payload
    jobs,   \* the queue: every job that could ever be added, by its deterministic id
    exec,   \* the activities and the clients
    faults  \* how much of each fault budget is used

vars == <<run, jobs, exec, faults>>

-----------------------------------------------------------------------------
(* The single-request pipeline: its stages, and the transitions its body    *)
(* ends with at each of them.                                               *)

PipelineStages == {"RESEARCH_QUEUED", "RESEARCH_RUNNING", "V0_GENERATING", "FINAL_QA_RUNNING"}

Plan(stage) ==
    IF stage = "RESEARCH_RUNNING" THEN <<"V0_GENERATING">>
    ELSE IF stage = "V0_GENERATING" THEN <<"V0_READY", "FINAL_QA_RUNNING">>
    ELSE <<"FINAL_READY">>

\* FINAL_READY is the one transition whose caller names the status.
StatusAfter(stage) == IF stage = "FINAL_READY" THEN "completed" ELSE DerivedStatus(stage)

Statuses ==
    {"queued", "running", "retrying", "waiting_review", "completed", "failed", "cancelled"}

RunStages ==
    PipelineStages \cup {"V0_READY", "FINAL_READY", "FAILED", "CANCELLED"}

-----------------------------------------------------------------------------
(* Claims.  A token is a fresh id, so it stands for the delivery that took  *)
(* it; "gone" is the token of a delivery that has ended.  A lease that has  *)
(* run out can be taken and its removal changes nothing, so it reads like   *)
(* no claim: "nobody".                                                      *)

NoClaims == [k \in PipelineStages |-> "nobody"]
Holders == Procs \cup {"nobody", "gone"}

\* The claims as they read once the deliveries of P have ended.
Orphaned(claims, P) ==
    [k \in PipelineStages |-> IF claims[k] \in P THEN "gone" ELSE claims[k]]

-----------------------------------------------------------------------------
(* Jobs.  The id is a hash of the queue and of the idempotency key          *)
(* <run key>:<stage>:<attempt> or <run key>:retry:<attempt>.                *)

Attempts == 1..MaxRunAttempts
StageJob(stage, attempt) == <<"stage", stage, attempt>>
RetryJob(stage, attempt) == <<"retry", QueueForStage(stage), attempt>>
JobIds ==
    ({"stage"} \X PipelineStages \X Attempts)
      \cup ({"retry"} \X {"research", "resume-generation", "resume-audit"} \X Attempts)
NoJob == <<"none", "none", 0>>

Job ==
    [state : {"absent", "waiting", "active", "completed", "failed"},
     tries : 0..QueueAttempts,
     stage : PipelineStages]

-----------------------------------------------------------------------------
(* Activities and clients.                                                  *)

WorkPcs == {"work", "read", "write", "append", "enqueue"}

Pcs ==
    WorkPcs \cup
    {"idle", "load", "claim", "release", "giveup", "refund", "mark", "resolved", "rejected",
     "create", "cancel", "retry", "done"}

Activity ==
    [pc : Pcs,
     job : JobIds \cup {NoJob},             \* the job being delivered
     attached : BOOLEAN,                    \* the queue still waits for this delivery
     todo : Seq(RunStages),                 \* transitions left to make
     giving : BOOLEAN,                      \* inside handleWorkflowJobExhausted
     seen : [PipelineStages -> Holders],      \* claims in the payload it read, to be written back
     adds : JobIds \cup {NoJob},            \* the job to add once its event is in
     addsStage : PipelineStages,            \* and that job's payload.stage
     attempt : Attempts \cup {0},           \* engine.retry: the attempt number it computed
     raced : BOOLEAN,                       \* another event went in since its row update
     error : {"none", "retryable", "permanent"}]

Run ==
    [made : BOOLEAN, stage : RunStages, status : Statuses, attempt : Attempts,
     claims : [PipelineStages -> Holders],
     failedAt : PipelineStages]             \* payload.failedAtStage, the first stage without it

Faults ==
    [detached : 0..MaxDetached, crashes : 0..MaxCrashes, failures : 0..MaxCallFailures,
     starts : 0..MaxWorkerStarts]

Idle ==
    [pc |-> "idle", job |-> NoJob, attached |-> FALSE, todo |-> <<>>, giving |-> FALSE,
     seen |-> NoClaims, adds |-> NoJob, addsStage |-> "RESEARCH_QUEUED", attempt |-> 0,
     raced |-> FALSE, error |-> "none"]

Init ==
    /\ run = [made |-> FALSE, stage |-> "RESEARCH_QUEUED", status |-> "queued", attempt |-> 1,
              claims |-> NoClaims, failedAt |-> "RESEARCH_QUEUED"]
    /\ jobs = [j \in JobIds |-> [state |-> "absent", tries |-> 0, stage |-> "RESEARCH_QUEUED"]]
    /\ exec = [p \in Actors |-> Idle]
    /\ faults = [detached |-> 0, crashes |-> 0, failures |-> 0, starts |-> 0]

TypeOK ==
    /\ run \in Run
    /\ jobs \in [JobIds -> Job]
    /\ exec \in [Actors -> Activity]
    /\ faults \in Faults

FaultsLeft == faults.detached + faults.crashes + faults.failures < MaxFaults

At(p, pc) == exec[p].pc = pc
Go(p, rec) == exec' = [exec EXCEPT ![p] = rec]
ClaimKey(p) == jobs[exec[p].job].stage

\* A stage body is running for p's delivery (not the failure handler).
Working(p) == exec[p].pc \in WorkPcs /\ exec[p].job # NoJob /\ ~exec[p].giving

\* The deliveries of P are over: their slots are free and their tokens belong to nobody.
End(P) ==
    /\ run' = [run EXCEPT !.claims = Orphaned(@, P)]
    /\ exec' = [q \in Actors |->
                  IF q \in P THEN Idle
                  ELSE [exec[q] EXCEPT !.seen = Orphaned(@, P)]]

-----------------------------------------------------------------------------
(* The queue delivers a job: the handler of bootstrap.ts, then handleStage. *)

Deliver(p, j) ==
    /\ At(p, "idle")
    /\ jobs[j].state = "waiting"
    /\ jobs' = [jobs EXCEPT ![j].state = "active"]
    /\ Go(p, [Idle EXCEPT !.pc = "load", !.job = j, !.attached = TRUE])
    /\ UNCHANGED <<run, faults>>

\* Both reads of the run (the handler's and handleStage's) test the same thing; a stale job
\* resolves without doing anything.
Load(p) ==
    /\ At(p, "load")
    /\ Go(p, [exec[p] EXCEPT !.pc =
                IF /\ StageMatchesJobClaim(run.stage, ClaimKey(p))
                   /\ run.status \notin {"cancelled", "failed"}
                THEN "claim" ELSE "resolved"])
    /\ UNCHANGED <<run, jobs, faults>>

Claimable(stage) ==
    /\ StageMatchesJobClaim(run.stage, stage)
    /\ run.claims[stage] = "nobody"

\* The compare-and-set of claimStage: one UPDATE statement.
ClaimStage(p) ==
    LET stage == ClaimKey(p) IN
    /\ At(p, "claim")
    /\ IF Claimable(stage)
       THEN /\ run' = [run EXCEPT !.stage = RunningCounterpart(stage), !.status = "running",
                                  !.claims[stage] = p]
            /\ Go(p, [exec[p] EXCEPT !.pc = "work"])
       ELSE /\ Go(p, [exec[p] EXCEPT !.pc = "resolved"])
            /\ UNCHANGED run
    /\ UNCHANGED <<jobs, faults>>

\* The stage's own work, which ends in its transitions or throws.
WorkDone(p) ==
    /\ At(p, "work")
    /\ Go(p, [exec[p] EXCEPT !.pc = "read", !.todo = Plan(RunningCounterpart(ClaimKey(p)))])
    /\ UNCHANGED <<run, jobs, faults>>

WorkThrows(p, error) ==
    /\ At(p, "work")
    /\ Go(p, [exec[p] EXCEPT !.pc = "release", !.error = error])
    /\ UNCHANGED <<run, jobs, faults>>

\* Mutants of Releasable: looks under the running stage's key; does not compare the token.
ReleasableUnderRunningKey(p) ==
    /\ StageMatchesJobClaim(run.stage, ClaimKey(p))
    /\ run.claims[RunningCounterpart(ClaimKey(p))] = p

ReleasableByStage(p) == StageMatchesJobClaim(run.stage, ClaimKey(p))

\* releaseStageClaim: only its own token, and only while the run is still at the stage.
Releasable(p) ==
    /\ StageMatchesJobClaim(run.stage, ClaimKey(p))
    /\ run.claims[ClaimKey(p)] = p

\* The catch block: release the claim, then rethrow.  A permanent error (a 4xx AppError) goes to
\* handleWorkflowJobExhausted, any other back to the queue.
Release(p) ==
    /\ At(p, "release")
    /\ run' = IF Releasable(p) THEN [run EXCEPT !.claims[ClaimKey(p)] = "nobody"] ELSE run
    /\ Go(p, [exec[p] EXCEPT !.pc = IF exec[p].error = "permanent" THEN "giveup" ELSE "rejected",
                               !.error = "none"])
    /\ UNCHANGED <<jobs, faults>>

-----------------------------------------------------------------------------
(* engine.transition: read and check, blind update, event, enqueue.         *)

Done(c) == [Idle EXCEPT !.pc = "done"]

\* What an exception thrown inside transition leads to.
Throw(p, error) ==
    IF p \in Clients THEN Done(p)
    ELSE [exec[p] EXCEPT !.pc = IF exec[p].giving \/ exec[p].job = NoJob THEN "rejected"
                                ELSE "release",
                         !.error = error, !.todo = <<>>, !.raced = FALSE, !.adds = NoJob,
                         !.addsStage = Idle.addsStage]

TransitionRead(p) ==
    /\ At(p, "read")
    /\ Go(p, IF /\ run.status # "cancelled"
                /\ CanTransition(run.stage, Head(exec[p].todo))
             THEN [exec[p] EXCEPT !.pc = "write"]
             ELSE Throw(p, "permanent"))
    /\ UNCHANGED <<run, jobs, faults>>

\* The update names the row only by its id.  The failure handler's patch carries the payload it
\* read, claims included, and the stage of the job it gives up; a customer's retry clears the
\* claims (Idle has seen none) and starts the attempts again.  RESEARCH_QUEUED is left by
\* ClaimStage, so the "same family" exception to enqueueing never applies.
TransitionWrite(p) ==
    LET stage == Head(exec[p].todo)
        attempt == IF p \in Resumers THEN 1 ELSE run.attempt IN
    /\ At(p, "write")
    /\ run' = [run EXCEPT !.stage = stage,
                          !.status = StatusAfter(stage),
                          !.attempt = attempt,
                          !.claims = IF exec[p].giving \/ p \in Resumers THEN exec[p].seen ELSE @,
                          !.failedAt = IF exec[p].giving THEN ClaimKey(p) ELSE @]
    /\ Go(p, [exec[p] EXCEPT
                !.pc = "append", !.todo = Tail(@), !.seen = NoClaims,
                !.adds = IF stage \in PipelineStages THEN StageJob(stage, attempt) ELSE NoJob,
                !.addsStage = IF stage \in PipelineStages THEN stage ELSE @])
    /\ UNCHANGED <<jobs, faults>>

\* What follows an event, and a job added.
After(rec) ==
    [rec EXCEPT !.adds = NoJob, !.addsStage = Idle.addsStage, !.raced = FALSE,
                !.pc = IF rec.todo # <<>> THEN "read"
                       ELSE IF rec.giving THEN "mark" ELSE "resolved"]

\* appendEvent computes max(seq) + 1 and inserts it under a unique index.
AppendEvent(p) ==
    /\ At(p, "append")
    /\ exec' = [q \in Actors |->
                  IF q = p THEN IF exec[p].adds # NoJob THEN [exec[p] EXCEPT !.pc = "enqueue"]
                                ELSE After(exec[p])
                  ELSE [exec[q] EXCEPT !.raced = @ \/ At(q, "append")]]
    /\ UNCHANGED <<run, jobs, faults>>

\* It read the maximum before another event took the number.
AppendCollides(p) ==
    /\ At(p, "append")
    /\ exec[p].raced
    /\ Go(p, Throw(p, "retryable"))
    /\ UNCHANGED <<run, jobs, faults>>

\* BullMQ ignores an id it knows, in whatever state the job is; finished jobs are kept.
Added(j, stage) ==
    IF jobs[j].state = "absent"
    THEN [jobs EXCEPT ![j] = [state |-> "waiting", tries |-> 0, stage |-> stage]]
    ELSE jobs

Enqueue(p) ==
    /\ At(p, "enqueue")
    /\ jobs' = Added(exec[p].adds, exec[p].addsStage)
    /\ Go(p, After(exec[p]))
    /\ UNCHANGED <<run, faults>>

-----------------------------------------------------------------------------
(* handleWorkflowJobExhausted, workflow branch.                             *)

GiveUp(p) ==
    /\ At(p, "giveup")
    /\ Go(p, IF run.stage = "FAILED" \/ run.status = "failed"
             THEN [exec[p] EXCEPT !.pc = "resolved"]
             ELSE [exec[p] EXCEPT !.pc = "refund", !.giving = TRUE, !.seen = run.claims,
                                  !.todo = <<"FAILED">>])
    /\ UNCHANGED <<run, jobs, faults>>

\* releaseReservedForWorkflowRun, then markApplicationFailed: no state of this module.
Refund(p) ==
    /\ At(p, "refund")
    /\ Go(p, [exec[p] EXCEPT !.pc = "read"])
    /\ UNCHANGED <<run, jobs, faults>>

MarkApplication(p) ==
    /\ At(p, "mark")
    /\ Go(p, [exec[p] EXCEPT !.pc = "resolved"])
    /\ UNCHANGED <<run, jobs, faults>>

-----------------------------------------------------------------------------
(* The queue learns how a delivery ended.                                   *)

\* Mutant of AfterFailure: one try too many.
AfterFailureLate(j) ==
    [jobs EXCEPT ![j] = [state |-> IF @.tries < QueueAttempts THEN "waiting" ELSE "failed",
                         tries |-> @.tries + 1,
                         stage |-> @.stage]]

\* A failed delivery: another try, or the job is exhausted.
AfterFailure(j) ==
    [jobs EXCEPT ![j] = [state |-> IF @.tries + 1 < QueueAttempts THEN "waiting" ELSE "failed",
                         tries |-> @.tries + 1,
                         stage |-> @.stage]]

Exhausts(j) == jobs[j].tries + 1 = QueueAttempts

Resolve(p) ==
    /\ p \in Procs
    /\ At(p, "resolved")
    /\ jobs' = IF exec[p].attached THEN [jobs EXCEPT ![exec[p].job].state = "completed"] ELSE jobs
    /\ End({p})
    /\ UNCHANGED faults

\* The "failed" listener of an exhausted job goes on as the exhausted-retries hook, which
\* nothing waits for; an error of the hook is logged and dropped.
Reject(p) ==
    LET j == exec[p].job IN
    /\ p \in Procs
    /\ At(p, "rejected")
    /\ jobs' = IF exec[p].attached THEN AfterFailure(j) ELSE jobs
    /\ IF exec[p].attached /\ Exhausts(j)
       THEN /\ run' = [run EXCEPT !.claims = Orphaned(@, {p})]
            /\ exec' = [q \in Actors |->
                          IF q = p THEN [Idle EXCEPT !.pc = "giveup", !.job = j]
                          ELSE [exec[q] EXCEPT !.seen = Orphaned(@, {p})]]
       ELSE End({p})
    /\ UNCHANGED faults

-----------------------------------------------------------------------------
(* Faults of the workers and time.                                          *)

\* The race against the job timeout is lost: the delivery fails, its promise runs on.  If that
\* was the last try another activity, q, runs the exhausted hook.
JobTimeout(p, q) ==
    LET j == exec[p].job IN
    /\ exec[p].attached
    /\ faults.detached < MaxDetached /\ FaultsLeft
    /\ faults' = [faults EXCEPT !.detached = @ + 1]
    /\ jobs' = AfterFailure(j)
    /\ IF Exhausts(j)
       THEN /\ q \in Procs /\ At(q, "idle")
            /\ exec' = [exec EXCEPT ![p].attached = FALSE,
                                    ![q] = [Idle EXCEPT !.pc = "giveup", !.job = j]]
       ELSE /\ q = p
            /\ exec' = [exec EXCEPT ![p].attached = FALSE]
    /\ UNCHANGED run

\* BullMQ finds the job's lock lapsed and hands the job out again; the first delivery runs on.
JobStalls(p) ==
    /\ exec[p].attached
    /\ faults.detached < MaxDetached /\ FaultsLeft
    /\ faults' = [faults EXCEPT !.detached = @ + 1]
    /\ jobs' = [jobs EXCEPT ![exec[p].job].state = "waiting"]
    /\ exec' = [exec EXCEPT ![p].attached = FALSE]
    /\ UNCHANGED run

\* The five-minute lease runs out.  Every job times out earlier (two or three minutes), so never
\* while the queue still waits for the holder.
MayExpire(holder) == holder # "nobody" /\ (holder \in Procs => ~exec[holder].attached)

\* Copies of the payload hold the same expiry time.
ExpireLease(k) ==
    /\ MayExpire(run.claims[k])
    /\ run' = [run EXCEPT !.claims[k] = "nobody"]
    /\ exec' = [q \in Actors |->
                  IF exec[q].seen[k] = run.claims[k]
                  THEN [exec[q] EXCEPT !.seen[k] = "nobody"] ELSE exec[q]]
    /\ UNCHANGED <<jobs, faults>>

\* A worker process dies with the activities P; BullMQ hands their jobs out again.
WorkerCrash(P) ==
    /\ P # {}
    /\ \A p \in P : ~At(p, "idle")
    /\ faults.crashes < MaxCrashes /\ FaultsLeft
    /\ faults' = [faults EXCEPT !.crashes = @ + 1]
    /\ jobs' = [j \in JobIds |->
                  IF \E p \in P : exec[p].attached /\ exec[p].job = j
                  THEN [jobs[j] EXCEPT !.state = "waiting"] ELSE jobs[j]]
    /\ End(P)

ClientCrash(c) ==
    /\ c \in Clients
    /\ ~At(c, "idle") /\ ~At(c, "done")
    /\ faults.crashes < MaxCrashes /\ FaultsLeft
    /\ faults' = [faults EXCEPT !.crashes = @ + 1]
    /\ Go(c, [Idle EXCEPT !.pc = "done"])
    /\ UNCHANGED <<run, jobs>>

\* The steps that are one call of the database or the queue.  Inside transition and recovery a
\* failure is an exception like any other; elsewhere (the reads and the claim before the try,
\* the release in the catch, the failure handler) it leaves the handler as it is.
TransitionPcs == {"read", "write", "append", "enqueue"}
HandlerPcs == {"load", "claim", "release", "giveup", "refund", "mark"}
CallPcs == TransitionPcs \cup HandlerPcs \cup {"create", "cancel", "retry"}

EngineCallFails(a) ==
    /\ exec[a].pc \in CallPcs
    /\ faults.failures < MaxCallFailures /\ FaultsLeft
    /\ faults' = [faults EXCEPT !.failures = @ + 1]
    /\ Go(a, IF exec[a].pc \in HandlerPcs
             THEN [exec[a] EXCEPT !.pc = "rejected", !.error = "none"]
             ELSE Throw(a, "retryable"))
    /\ UNCHANGED <<run, jobs>>

\* worker/main.ts: a starting worker lists the incomplete runs and enqueues each of them.
Incomplete ==
    /\ run.made
    /\ run.status \in {"queued", "running", "retrying"}
    /\ run.stage \notin TerminalStages

\* Mutant of RecoverIncomplete: the job names the running counterpart of the run's stage.
RecoverAsRunning(p) ==
    /\ At(p, "idle")
    /\ faults.starts < MaxWorkerStarts
    /\ faults' = [faults EXCEPT !.starts = @ + 1]
    /\ Incomplete
    /\ run.stage \in PipelineStages
    /\ Go(p, [Idle EXCEPT !.pc = "enqueue", !.adds = StageJob(run.stage, run.attempt),
                          !.addsStage = RunningCounterpart(run.stage)])
    /\ UNCHANGED <<run, jobs>>

RecoverIncomplete(p) ==
    /\ At(p, "idle")
    /\ faults.starts < MaxWorkerStarts
    /\ faults' = [faults EXCEPT !.starts = @ + 1]
    /\ Incomplete
    /\ run.stage \in PipelineStages
    /\ Go(p, [Idle EXCEPT !.pc = "enqueue", !.adds = StageJob(run.stage, run.attempt),
                          !.addsStage = run.stage])
    /\ UNCHANGED <<run, jobs>>

-----------------------------------------------------------------------------
(* The API calls.                                                           *)

StartFinds(c) ==
    /\ At(c, "idle")
    /\ Go(c, [Idle EXCEPT !.pc = IF run.made THEN "done" ELSE "create"])
    /\ UNCHANGED <<run, jobs, faults>>

\* The insert; the unique index on the idempotency key throws at the second one.
StartCreates(c) ==
    /\ At(c, "create")
    /\ IF run.made
       THEN Go(c, Done(c)) /\ UNCHANGED run
       ELSE /\ run' = [run EXCEPT !.made = TRUE]
            /\ Go(c, [exec[c] EXCEPT !.pc = "append", !.adds = StageJob("RESEARCH_QUEUED", 1),
                                     !.addsStage = "RESEARCH_QUEUED"])
    /\ UNCHANGED <<jobs, faults>>

CancelReads(c) ==
    /\ At(c, "idle")
    /\ run.made
    /\ Go(c, IF run.stage \in TerminalStages /\ run.status = "completed"
             THEN Done(c) ELSE [Idle EXCEPT !.pc = "cancel", !.seen = run.claims])
    /\ UNCHANGED <<run, jobs, faults>>

CancelWrites(c) ==
    /\ At(c, "cancel")
    /\ run' = [run EXCEPT !.stage = "CANCELLED", !.status = "cancelled", !.claims = exec[c].seen]
    /\ Go(c, [exec[c] EXCEPT !.pc = "append", !.seen = NoClaims])
    /\ UNCHANGED <<jobs, faults>>

RetryReads(c) ==
    /\ At(c, "idle")
    /\ run.made
    /\ Go(c, IF run.status = "cancelled" \/ run.attempt + 1 > MaxRunAttempts
             THEN Done(c) ELSE [Idle EXCEPT !.pc = "retry", !.attempt = run.attempt + 1])
    /\ UNCHANGED <<run, jobs, faults>>

\* A stage without a queue sends the job to "maintenance", whose handler does not look at it.
RetryWrites(c) ==
    /\ At(c, "retry")
    /\ run' = [run EXCEPT !.attempt = exec[c].attempt, !.status = "retrying"]
    /\ Go(c, [exec[c] EXCEPT
                !.pc = "append", !.attempt = 0,
                !.adds = IF run.stage \in PipelineStages THEN RetryJob(run.stage, exec[c].attempt)
                         ELSE NoJob,
                !.addsStage = IF run.stage \in PipelineStages THEN run.stage ELSE @])
    /\ UNCHANGED <<jobs, faults>>

\* CustomerGenerateService.retry: back to the stage the run failed at.  It is refused for a draft
\* that failed its checks, which this module does not see.
CustomerRetry(c) ==
    /\ At(c, "idle")
    /\ run.made
    /\ \/ /\ run.stage = "FAILED" \/ run.status = "failed"
          /\ Go(c, [Idle EXCEPT !.pc = "read", !.todo = <<run.failedAt>>])
       \/ Go(c, Done(c))
    /\ UNCHANGED <<run, jobs, faults>>

Answer(c) ==
    /\ c \in Clients
    /\ At(c, "resolved")
    /\ Go(c, Done(c))
    /\ UNCHANGED <<run, jobs, faults>>

-----------------------------------------------------------------------------

\* What the code itself does next, without faults.
Step(p) ==
    \/ Load(p) \/ ClaimStage(p) \/ WorkDone(p)
    \/ \E error \in {"retryable", "permanent"} : WorkThrows(p, error)
    \/ Release(p) \/ TransitionRead(p) \/ TransitionWrite(p)
    \/ AppendEvent(p) \/ AppendCollides(p) \/ Enqueue(p)
    \/ GiveUp(p) \/ Refund(p) \/ MarkApplication(p) \/ Resolve(p) \/ Reject(p)

Call(c) ==
    \/ c \in Starters /\ StartFinds(c)
    \/ c \in Cancellers /\ CancelReads(c)
    \/ c \in Retriers /\ RetryReads(c)
    \/ c \in Resumers /\ CustomerRetry(c)

Serve(c) ==
    \/ StartCreates(c) \/ CancelWrites(c) \/ RetryWrites(c)
    \/ TransitionRead(c) \/ TransitionWrite(c)
    \/ AppendEvent(c) \/ AppendCollides(c) \/ Enqueue(c) \/ Answer(c)

Fault ==
    \/ \E p, q \in Procs : JobTimeout(p, q)
    \/ \E p \in Procs : JobStalls(p) \/ RecoverIncomplete(p)
    \/ \E P \in SUBSET Procs : WorkerCrash(P)
    \/ \E c \in Clients : ClientCrash(c)
    \/ \E a \in Actors : EngineCallFails(a)

Clock == \E k \in PipelineStages : ExpireLease(k)

Next ==
    \/ \E p \in Procs : Step(p) \/ \E j \in JobIds : Deliver(p, j)
    \/ \E c \in Clients : Call(c) \/ Serve(c)
    \/ Fault
    \/ Clock

Spec == Init /\ [][Next]_vars

\* Promises resolve, an API call that began is served, waiting jobs are delivered and leases run
\* out.  Nothing makes a client call, a process fail or a worker start.
Fairness ==
    /\ \A p \in Procs : WF_vars(Step(p))
    /\ \A c \in Clients : WF_vars(Serve(c))
    /\ WF_vars(\E p \in Procs, j \in JobIds : Deliver(p, j))
    /\ WF_vars(Clock)

FairSpec == Spec /\ Fairness

-----------------------------------------------------------------------------
(* Properties.                                                              *)

Settled == run.stage \in {"FINAL_READY", "FAILED", "CANCELLED"}

\* Nobody cancels or retries the run, nothing fails and no worker starts.
NoCalls == \A c \in Clients \ Starters : At(c, "idle")
NoFaults == \A kind \in DOMAIN faults : faults[kind] = 0
Undisturbed == NoCalls /\ NoFaults

\* A run that was created reaches an end, unless a customer's call or a fault interferes: every
\* error of a stage body, retryable or not, every exhausted job and every skipped duplicate leaves
\* something that carries the run on.
RunSettles == run.made /\ Undisturbed ~> Settled \/ ~Undisturbed

\* A starting worker is about to enqueue the run again, and no crash or failed call is still to
\* come.
RecoveryUnderWay ==
    /\ Incomplete
    /\ ~FaultsLeft \/ (faults.crashes = MaxCrashes /\ faults.failures = MaxCallFailures)
    /\ \E p \in Procs :
          /\ At(p, "enqueue") /\ exec[p].job = NoJob
          /\ exec[p].adds = StageJob(run.stage, run.attempt)   \* it listed the run as it is now

\* A run left without the job of its stage, because whoever was to add it died or could not reach
\* the queue, is carried to an end by a worker that starts: by then the job that moved the run has
\* been redelivered, found stale and completed.  (While a delivery or a slow start still goes on,
\* recovery puts a second worker beside it, and their blind updates and events can collide.)
UnqueuedRunRecovers ==
    (/\ RecoveryUnderWay
     /\ jobs[StageJob(run.stage, run.attempt)].state = "absent"
     /\ \A j \in JobIds : jobs[j].state \notin {"waiting", "active"}
     /\ \A p \in Procs : exec[p].job = NoJob
     /\ \A c \in Clients : ~At(c, "append")) ~> Settled

\* engine.ts:32 "Re-enqueue durable runs after a worker or process restart.": a run that a worker
\* died on goes on to an end once a worker has started again.
RecoveryResumes == RecoveryUnderWay ~> Settled

\* engine.ts:102 "Cannot transition a cancelled workflow": no transition passes its check on a
\* cancelled run.  The check has two halves, the status and the stage graph, and a racing
\* engine.retry can overwrite the status: the graph must then hold.
CancelBlocksNewMoves ==
    [][run.stage = "CANCELLED" =>
          \A a \in Actors : At(a, "write")' => At(a, "write")]_vars

\* src/test/customer-resume.test.ts:362 "Retry should succeed and re-queue from FINAL_QA_RUNNING":
\* a customer's retry that has gone through leaves a job for the stage it goes back to.
RetryRequeues ==
    [][\A c \in Resumers :
          At(c, "enqueue") /\ At(c, "resolved")'
          => jobs'[exec[c].adds].state \in {"waiting", "active"}]_vars

\* docs/audit-takeover.md:18: queue retries execute "without erasing another worker's claim".  A
\* delivery the queue waits for keeps the lease it works under: neither a delivery that was given
\* up on and runs on, nor a release, nor time takes it away.  Only the writes of a whole payload
\* do, those of cancel, of the failure handler and of a customer's retry, and the first two end
\* the run with the same statement.
LeaseIsKept ==
    [][\A p \in Procs :
          /\ Working(p) /\ exec[p].attached /\ run.claims[ClaimKey(p)] = p
          /\ Working(p)' /\ exec'[p].attached
          => \/ run'.claims[ClaimKey(p)] = p
             \/ run'.stage \in {"FAILED", "CANCELLED"}
             \/ \E c \in Resumers : At(c, "write") /\ At(c, "append")']_vars

=============================================================================
