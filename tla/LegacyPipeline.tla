----------------------------- MODULE LegacyPipeline -----------------------------
(***************************************************************************)
(* The audit pipeline of server/workflows/resume-pipeline.ts: research,    *)
(* evidence matching, the versions V0 to V4 with an audit between two of   *)
(* them, and Final QA with its one repair.  One run of one application,    *)
(* started at research or at the generation of a version; earlier versions *)
(* come from earlier runs.  Customer-facing runs of this policy are no     *)
(* part of it: the handler of bootstrap.ts pauses them.                    *)
(*                                                                         *)
(* WorkflowEngine models the races inside transition, claim and release;   *)
(* here each of these is one step and the enqueue that follows a           *)
(* transition another, and the bodies of the stages are opened up: every   *)
(* statement that reads or writes a row, or calls the Python service, is a *)
(* step.  The payload of the run is one JSON value that the bodies write   *)
(* back from the copy they claimed.                                        *)
(***************************************************************************)
EXTENDS WorkflowStages, Naturals, Sequences, FiniteSets

CONSTANTS
    Procs,        \* activities of the worker processes
    Customers,    \* one call each that resumes a paused run
    Retriers,     \* one call each of engine.retry
    Starts,       \* the stages runs are started at
    MaxRunAttempts, \* the run's maxAttempts (5 in the code)
    Tries,        \* the deliveries a job may be given before it is exhausted
    MaxDetached,  \* bound: deliveries that lose the race against the job timeout
    MaxCrashes,   \* bound: workers that die
    MaxFailures,  \* bound: calls that fail although what they do is correct
    MaxExpiries,  \* bound: answers of the Python service whose keys run out
    MaxFaults     \* bound: all of these and the clients' calls together

Clients == Customers \cup Retriers
Actors == Procs \cup Clients

ASSUME LegacyAssumption ==
    /\ Procs \cap (Clients \cup {"nobody", "gone"}) = {}
    /\ Customers \cap Retriers = {}
    /\ Starts \subseteq {"RESEARCH_QUEUED"} \cup GeneratingStages
    /\ MaxRunAttempts \in Nat \ {0}
    /\ Tries \subseteq Nat \ {0}
    /\ {MaxDetached, MaxCrashes, MaxFailures, MaxExpiries, MaxFaults} \subseteq Nat

VARIABLES
    run,       \* the workflow_runs row
    jobs,      \* the queue, by job id
    exec,      \* the activities and the clients
    app,       \* the application's workflowStage
    extracted, \* the application's jobExtractionAppliedAt
    ledger,    \* usage_ledger: the reservation of each operation
    answers,   \* the Python service: the answer stored under each operation's idempotency key
    versions,  \* resume_versions: the version numbers
    current,   \* resumes.currentVersionId
    audit,     \* the audit run of the version under review, with or without its findings
    faults     \* how much of each fault budget is used

vars == <<run, jobs, exec, app, extracted, ledger, answers, versions, current, audit, faults>>

-----------------------------------------------------------------------------
(* Versions, operations, jobs.                                              *)

VersionOf == [s \in GeneratingStages |->
    CASE s = "V0_GENERATING" -> 0 [] s = "V1_GENERATING" -> 1 [] s = "V2_GENERATING" -> 2
      [] s = "V3_GENERATING" -> 3 [] s = "V4_GENERATING" -> 4]

ReadyOf == [n \in 0..4 |->
    CASE n = 0 -> "V0_READY" [] n = 1 -> "V1_READY" [] n = 2 -> "V2_READY"
      [] n = 3 -> "V3_READY" [] n = 4 -> "V4_READY"]

\* What follows a version: nextRunning of finalizeResumeGenerationPersistence.
NextOf == [n \in 0..4 |->
    CASE n = 0 -> "HR_AUDIT_1_RUNNING" [] n = 1 -> "EM_AUDIT_1_RUNNING"
      [] n = 2 -> "HR_AUDIT_2_RUNNING" [] n = 3 -> "EM_AUDIT_2_RUNNING"
      [] n = 4 -> "FINAL_QA_RUNNING"]

ReviewOf == [s \in AuditStages |->
    CASE s = "HR_AUDIT_1_RUNNING" -> "HR_AUDIT_1_REVIEW"
      [] s = "EM_AUDIT_1_RUNNING" -> "EM_AUDIT_1_REVIEW"
      [] s = "HR_AUDIT_2_RUNNING" -> "HR_AUDIT_2_REVIEW"
      [] s = "EM_AUDIT_2_RUNNING" -> "EM_AUDIT_2_REVIEW"]

\* What an audit reviews; it produces the version after that.
Reviewed == [s \in AuditStages |->
    CASE s = "HR_AUDIT_1_RUNNING" -> 0 [] s = "EM_AUDIT_1_RUNNING" -> 1
      [] s = "HR_AUDIT_2_RUNNING" -> 2 [] s = "EM_AUDIT_2_RUNNING" -> 3]
ProducerOf == [s \in AuditStages |->
    CASE s = "HR_AUDIT_1_RUNNING" -> "V1_GENERATING" [] s = "EM_AUDIT_1_RUNNING" -> "V2_GENERATING"
      [] s = "HR_AUDIT_2_RUNNING" -> "V3_GENERATING" [] s = "EM_AUDIT_2_RUNNING" -> "V4_GENERATING"]

\* appendAllocatedVersion gives the repair the number after the last one, V4's.
RepairVersion == 5
NoVersion == 6

\* An operation is known by what the usage key and the idempotency key of the call are made of.
Operations ==
    ({"research", "match"} \X {0}) \cup ({"generate"} \X (0..RepairVersion))
      \cup ({"audit"} \X (0..3)) \cup ({"qa"} \X {4, RepairVersion})
NoOperation == <<"none", 0>>

\* generate of RepairVersion is the repair: its number is its alone.
OperationAt(stage, repairing, latest) ==
    CASE stage = "RESEARCH_RUNNING" -> <<"research", 0>>
      [] stage = "EVIDENCE_MATCHING_RUNNING" -> <<"match", 0>>
      [] stage \in GeneratingStages ->
            <<"generate", IF repairing THEN RepairVersion ELSE VersionOf[stage]>>
      [] stage \in AuditStages -> <<"audit", Reviewed[stage]>>
      [] OTHER -> <<"qa", latest>>

Latest == CHOOSE n \in versions : \A m \in versions : m <= n

\* What Python can answer: asked to pause (research), or how Final QA judged; "done" otherwise.
Answers(op) ==
    IF op[1] = "research" THEN {"done", "questions"}
    ELSE IF op[1] = "audit" THEN {"done", "mismatched"}
    ELSE IF op[1] = "qa" THEN {"passed", "repairable", "unrepairable"}
    ELSE {"done"}

AllAnswers == {"none", "done", "questions", "mismatched", "passed", "repairable", "unrepairable"}

\* <stage>:<attempt>, or retry:<attempt>; the stage is in the job's payload.
JobIds == WorkStages \X (1..MaxRunAttempts) \X {"stage", "retry"}
NoJob == <<"none", 0, "none">>

-----------------------------------------------------------------------------
(* State.                                                                   *)

Holders == Procs \cup {"nobody", "gone"}
NoClaims == [s \in WorkStages |-> "nobody"]

\* The parts of the payload that are read: stage claims, executionBackend,
\* pendingResumeGeneration, finalQaRepairAttempted.
Payload ==
    [claims : [WorkStages -> Holders], backend : BOOLEAN,
     pending : ({"generate"} \X (0..RepairVersion)) \cup {NoOperation}, repair : BOOLEAN]
NoPayload ==
    [claims |-> NoClaims, backend |-> FALSE, pending |-> NoOperation, repair |-> FALSE]

Statuses ==
    {"queued", "running", "retrying", "waiting_review", "completed", "failed", "cancelled"}

\* An instruction of a script: what a body or a handler still has to do at its end.
Instructions ==
    ({"move", "pause", "put", "app"} \X Stages) \cup ({"end"} \X {"resolved", "permanent"})
      \cup {<<"refund", "run">>, <<"next", "stage">>, <<"render", "documents">>}

Pcs == {"idle", "load", "claim", "extract", "look", "reserve", "backend", "call", "park", "append",
        "reread", "note", "point", "record", "findings", "commit", "judge", "ready", "next", "script", "enqueue",
        "release", "giveup", "resolved", "rejected", "done"}

Idle ==
    [pc |-> "idle", job |-> NoJob, attached |-> FALSE, copy |-> NoPayload, op |-> NoOperation,
     answer |-> "none", script |-> <<>>, adds |-> NoJob, error |-> "none", giving |-> FALSE]

Run == [stage : Stages, status : Statuses, attempt : 1..MaxRunAttempts, payload : Payload]

Job == [state : {"absent", "waiting", "active", "completed", "failed"}, left : Nat]

Activity ==
    [pc : Pcs, job : JobIds \cup {NoJob}, attached : BOOLEAN, copy : Payload,
     op : Operations \cup {NoOperation}, answer : AllAnswers, script : Seq(Instructions),
     adds : JobIds \cup {NoJob}, error : {"none", "retryable", "permanent"}, giving : BOOLEAN]

Faults ==
    [detached : 0..MaxDetached, crashes : 0..MaxCrashes, failures : 0..MaxFailures,
     expiries : 0..MaxExpiries]

LPTypeOK ==
    /\ run \in Run
    /\ jobs \in [JobIds -> Job]
    /\ exec \in [Actors -> Activity]
    /\ app \in Stages
    /\ extracted \in BOOLEAN
    /\ ledger \in [Operations -> {"absent", "reserved", "committed", "released"}]
    /\ answers \in [Operations -> AllAnswers]
    /\ versions \subseteq 0..RepairVersion
    /\ current \in 0..NoVersion
    /\ audit \in {"none", "bare", "full"}
    /\ faults \in Faults

\* engine.start of service.ts: the run at its first stage with its job.
Init ==
    /\ \E stage \in Starts, tries \in Tries :
         /\ run = [stage |-> stage, status |-> DerivedStatus(stage), attempt |-> 1,
                   payload |-> NoPayload]
         /\ jobs = [j \in JobIds |->
                      [state |-> IF j = <<stage, 1, "stage">> THEN "waiting" ELSE "absent",
                       left |-> tries]]
         /\ app = stage
         /\ versions = IF stage = "RESEARCH_QUEUED" THEN {} ELSE {n \in 0..4 : n < VersionOf[stage]}
         /\ current = IF versions = {} THEN NoVersion ELSE Latest
    /\ exec = [a \in Actors |-> Idle]
    /\ extracted = FALSE
    /\ ledger = [op \in Operations |-> "absent"]
    /\ answers = [op \in Operations |-> "none"]
    /\ audit = "none"
    /\ faults = [detached |-> 0, crashes |-> 0, failures |-> 0, expiries |-> 0]
-----------------------------------------------------------------------------
(* Delivery: the handler of bootstrap.ts and handleStage.                   *)

At(a, pc) == exec[a].pc = pc
Go(a, rec) == exec' = [exec EXCEPT ![a] = rec]
StageAt(p) == RunningCounterpart(exec[p].job[1])
rows == <<extracted, ledger, answers, versions, current, audit>>
Working(p) == exec[p].pc \notin {"idle", "resolved", "rejected", "done"}

\* Of a delivery, what is left at its end, and before its next step.
Rest(a, pc) == [Idle EXCEPT !.pc = pc, !.job = exec[a].job, !.attached = exec[a].attached]

\* Faults and calls of clients so far, for the bound on all of them together.
Disturbances ==
    faults.detached + faults.crashes + faults.failures
      + Cardinality({c \in Clients : ~At(c, "idle")})

Counts(kind, bound) ==
    /\ faults[kind] < bound
    /\ Disturbances < MaxFaults
    /\ faults' = [faults EXCEPT ![kind] = @ + 1]

Deliver(p, j) ==
    /\ At(p, "idle")
    /\ jobs[j].state = "waiting"
    /\ jobs' = [jobs EXCEPT ![j].state = "active"]
    /\ Go(p, [Idle EXCEPT !.pc = "load", !.job = j, !.attached = TRUE])
    /\ UNCHANGED <<run, app, rows, faults>>

\* The runs of this module are not customer-facing: preserveLegacyCustomerRun pauses those.
Load(p) ==
    /\ At(p, "load")
    /\ Go(p, [exec[p] EXCEPT !.pc =
                IF /\ run.status \notin {"cancelled", "failed"}
                   /\ StageMatchesJobClaim(run.stage, exec[p].job[1])
                THEN "claim" ELSE "resolved"])
    /\ UNCHANGED <<run, jobs, app, rows, faults>>

\* The switch over the claimed stage; the body keeps the row the claim returned.
FirstStep(stage) ==
    IF stage = "RESEARCH_RUNNING" THEN "extract"
    ELSE IF stage \in GeneratingStages \cup {"FINAL_QA_RUNNING"} THEN "look" ELSE "reserve"

\* A lease of five minutes outlives every delivery the queue still waits for; any other may or
\* may not have run out.
MayBeFree(key) ==
    LET holder == run.payload.claims[key] IN holder \in Procs => ~exec[holder].attached

ClaimStage(p) ==
    LET key == exec[p].job[1] IN
    /\ At(p, "claim")
    /\ \/ /\ StageMatchesJobClaim(run.stage, key) /\ MayBeFree(key)
          /\ run' = [run EXCEPT !.stage = RunningCounterpart(key), !.status = "running",
                                !.payload.claims[key] = p]
          /\ Go(p, [exec[p] EXCEPT
                      !.pc = FirstStep(StageAt(p)), !.copy = run'.payload,
                      !.op = IF StageAt(p) = "FINAL_QA_RUNNING" THEN NoOperation
                             ELSE OperationAt(StageAt(p), run.payload.repair, 4)])
       \/ /\ ~(StageMatchesJobClaim(run.stage, key) /\ run.payload.claims[key] = "nobody")
          /\ Go(p, Rest(p, "resolved")) /\ UNCHANGED run    \* a stale job, or one still held
    /\ UNCHANGED <<jobs, app, rows, faults>>

\* An error leaves the body: a permanent one is a 4xx AppError.
Thrown(a, error) ==
    IF a \in Clients THEN Rest(a, "done")
    ELSE IF exec[a].giving THEN Rest(a, "rejected")
    ELSE [Rest(a, "release") EXCEPT !.error = error]

Release(p) ==
    LET key == exec[p].job[1] IN
    /\ At(p, "release")
    /\ run' = IF /\ StageMatchesJobClaim(run.stage, key)
                 /\ run.payload.claims[key] = p
              THEN [run EXCEPT !.payload.claims[key] = "nobody"] ELSE run
    /\ Go(p, Rest(p, IF exec[p].error = "permanent" THEN "giveup" ELSE "rejected"))
    /\ UNCHANGED <<jobs, app, rows, faults>>

-----------------------------------------------------------------------------
(* The end of a body: transitions and writes of the application, in order.  *)

Then(p, script, copy) == [Rest(p, "script") EXCEPT !.script = script, !.copy = copy]

\* Mutant: the status of a paused run is one the type does not know.
StatusAfterPause(kind, stage) ==
    IF kind = "pause" THEN "paused" ELSE DerivedStatus(stage)

StatusAfter(kind, stage) ==
    IF kind = "pause" THEN "waiting_review"
    ELSE IF stage = "FINAL_READY" THEN "completed"
    ELSE IF stage = "FINAL_QA_FAILED" THEN "failed"
    ELSE DerivedStatus(stage)

\* engine.transition up to its event: the update names the row by its id.  "put" also replaces
\* the payload.
Transition(a) ==
    LET kind == Head(exec[a].script)[1]
        stage == Head(exec[a].script)[2] IN
    /\ At(a, "script")
    /\ kind \in {"move", "pause", "put"}
    /\ IF run.status # "cancelled" /\ CanTransition(run.stage, stage)
       THEN /\ run' = [run EXCEPT !.stage = stage, !.status = StatusAfter(kind, stage),
                                  !.payload = IF kind = "put" THEN exec[a].copy ELSE @]
            /\ Go(a, [exec[a] EXCEPT
                        !.script = Tail(@),
                        !.pc = IF stage \in WorkStages THEN "enqueue" ELSE "script",
                        !.adds = IF stage \in WorkStages THEN <<stage, run.attempt, "stage">>
                                 ELSE NoJob])
       ELSE Go(a, Thrown(a, "permanent")) /\ UNCHANGED run
    /\ UNCHANGED <<jobs, app, rows, faults>>

\* A known id is ignored, whatever became of its job.
Enqueue(a) ==
    /\ At(a, "enqueue")
    /\ jobs' = IF jobs[exec[a].adds].state = "absent"
               THEN [jobs EXCEPT ![exec[a].adds].state = "waiting"] ELSE jobs
    /\ Go(a, [exec[a] EXCEPT !.pc = "script", !.adds = NoJob])
    /\ UNCHANGED <<run, app, rows, faults>>

WriteApplication(a) ==
    /\ At(a, "script")
    /\ Head(exec[a].script)[1] = "app"
    /\ app' = Head(exec[a].script)[2]
    /\ Go(a, [exec[a] EXCEPT !.script = Tail(@)])
    /\ UNCHANGED <<run, jobs, rows, faults>>

\* releaseReservedForWorkflowRun.
Refund(a) ==
    /\ At(a, "script")
    /\ Head(exec[a].script)[1] = "refund"
    /\ ledger' = [op \in Operations |-> IF ledger[op] = "reserved" THEN "released" ELSE ledger[op]]
    /\ Go(a, [exec[a] EXCEPT !.script = Tail(@)])
    /\ UNCHANGED <<run, jobs, app, extracted, answers, versions, current, audit, faults>>

\* The pdf-rendering job of a finished run goes to a queue of its own; what matters to this one is
\* that the call may fail when the run is FINAL_READY already.
EnqueueDocuments(a) ==
    /\ At(a, "script")
    /\ Head(exec[a].script)[1] = "render"
    /\ Go(a, [exec[a] EXCEPT !.script = Tail(@)])
    /\ UNCHANGED <<run, jobs, app, rows, faults>>

\* The body returns, or throws what it announced with its last transition.
EndScript(a) ==
    /\ At(a, "script")
    /\ Head(exec[a].script)[1] = "end"
    /\ Go(a, IF a \in Clients THEN Rest(a, "done")
             ELSE IF Head(exec[a].script)[2] = "permanent" THEN Thrown(a, "permanent")
             ELSE Rest(a, "resolved"))
    /\ UNCHANGED <<run, jobs, app, rows, faults>>

-----------------------------------------------------------------------------
(* What every stage does: reserve, persist the backend, call, commit.       *)

\* Appends without effect when the key exists, whatever its status.
Reserve(p) ==
    /\ At(p, "reserve")
    /\ ledger' = IF ledger[exec[p].op] = "absent"
                 THEN [ledger EXCEPT ![exec[p].op] = "reserved"] ELSE ledger
    /\ Go(p, [exec[p] EXCEPT !.pc = "backend"])
    /\ UNCHANGED <<run, jobs, app, extracted, answers, versions, current, audit, faults>>

\* Mutant: the parked result is not looked at.
PersistBackendOnly(p) ==
    /\ At(p, "backend")
    /\ run' = IF exec[p].copy.backend THEN run
              ELSE [run EXCEPT !.payload = [exec[p].copy EXCEPT !.backend = TRUE]]
    /\ Go(p, [exec[p] EXCEPT !.pc = "call"])
    /\ UNCHANGED <<jobs, app, rows, faults>>

\* ensureExecutionBackendPersisted writes the claimed payload back; the body's own copy stays as
\* it was.  A generation whose parked result fits its operation does not call again.
PersistBackend(p) ==
    /\ At(p, "backend")
    /\ run' = IF exec[p].copy.backend THEN run
              ELSE [run EXCEPT !.payload = [exec[p].copy EXCEPT !.backend = TRUE]]
    /\ Go(p, [exec[p] EXCEPT !.pc = IF exec[p].copy.pending = exec[p].op THEN "append" ELSE "call"])
    /\ UNCHANGED <<jobs, app, rows, faults>>

AfterCall(p) ==
    CASE exec[p].op[1] = "generate" -> "park"
      [] exec[p].op[1] = "audit" /\ answers'[exec[p].op] = "done" -> "record"
      [] OTHER -> "commit"

Receives(p) == [exec[p] EXCEPT !.pc = AfterCall(p), !.answer = answers'[exec[p].op]]

\* Python carries an operation out once per idempotency key and then repeats its answer; the
\* caller may get it, or an error.
Calls(p) ==
    /\ At(p, "call")
    /\ IF answers[exec[p].op] = "none"
       THEN \E answer \in Answers(exec[p].op) :
              answers' = [answers EXCEPT ![exec[p].op] = answer]
       ELSE UNCHANGED answers
    /\ \/ Go(p, Receives(p)) /\ UNCHANGED faults
       \/ Go(p, Thrown(p, "retryable")) /\ Counts("failures", MaxFailures)
    /\ UNCHANGED <<run, jobs, app, extracted, ledger, versions, current, audit>>

\* Nothing was carried out, or what came back is refused.
CallThrows(p) ==
    /\ At(p, "call")
    /\ Counts("failures", MaxFailures)
    /\ \E error \in {"retryable", "permanent"} : Go(p, Thrown(p, error))
    /\ UNCHANGED <<run, jobs, app, rows>>

\* Mutant: a generation goes on without its commit.
CommitAuditsOnly(p) ==
    /\ At(p, "commit")
    /\ ledger' = IF exec[p].op[1] = "generate" THEN ledger
                 ELSE [ledger EXCEPT ![exec[p].op] = "committed"]
    /\ Go(p, [exec[p] EXCEPT !.pc = IF exec[p].op[1] = "generate" THEN "ready" ELSE "judge"])
    /\ UNCHANGED <<run, jobs, app, extracted, answers, versions, current, audit, faults>>

\* commitReservedWithCost; a released reservation cannot be committed (409).
Commit(p) ==
    /\ At(p, "commit")
    /\ IF ledger[exec[p].op] = "released"
       THEN Go(p, Thrown(p, "permanent")) /\ UNCHANGED ledger
       ELSE /\ ledger' = [ledger EXCEPT ![exec[p].op] = "committed"]
            /\ Go(p, [exec[p] EXCEPT
                        !.pc = IF exec[p].op[1] = "generate" THEN "ready" ELSE "judge"])
    /\ UNCHANGED <<run, jobs, app, extracted, answers, versions, current, audit, faults>>

-----------------------------------------------------------------------------
(* Research: the job is extracted first, and may need the customer.         *)

Pauses(p) ==
    Then(p, << <<"pause", "RESEARCH_REVIEW_REQUIRED">>, <<"end", "resolved">> >>, NoPayload)

\* An application under review stops here without a word.
GoesOn(p) ==
    IF app = "RESEARCH_REVIEW_REQUIRED" THEN Rest(p, "resolved")
    ELSE [exec[p] EXCEPT !.pc = "reserve"]

Extract(p) ==
    /\ At(p, "extract")
    /\ \/ extracted' = extracted /\ app' = app /\ Go(p, GoesOn(p))  \* done, or nothing to extract
       \/ /\ ~extracted
          /\ extracted' = TRUE /\ app' = app
          /\ Go(p, GoesOn(p))
       \/ /\ ~extracted                      \* the names found, or none, need confirmation
          /\ extracted' \in BOOLEAN
          /\ app' = "RESEARCH_REVIEW_REQUIRED"
          /\ Go(p, Pauses(p))
    /\ UNCHANGED <<run, jobs, ledger, answers, versions, current, audit, faults>>

\* Parsing failed.
ExtractionThrows(p) ==
    /\ At(p, "extract")
    /\ ~extracted
    /\ Counts("failures", MaxFailures)
    /\ \E error \in {"retryable", "permanent"} : Go(p, Thrown(p, error))
    /\ UNCHANGED <<run, jobs, app, rows>>

ResearchScript(answer) ==
    IF answer = "questions"
    THEN << <<"pause", "RESEARCH_COMPLETED">>, <<"app", "RESEARCH_COMPLETED">>,
            <<"end", "resolved">> >>
    ELSE << <<"move", "RESEARCH_COMPLETED">>, <<"app", "RESEARCH_COMPLETED">>,
            <<"app", "EVIDENCE_MATCHING_RUNNING">>, <<"move", "EVIDENCE_MATCHING_RUNNING">>,
            <<"end", "resolved">> >>

MatchScript ==
    << <<"move", "EVIDENCE_MATCHING_COMPLETED">>, <<"app", "V0_GENERATING">>,
       <<"move", "V0_GENERATING">>, <<"end", "resolved">> >>

-----------------------------------------------------------------------------
(* Generation.  op[2] is the number of the version to be.                   *)

Number(p) == exec[p].op[2]

\* A version that exists is only finalized again.
LookUpVersion(p) ==
    /\ At(p, "look")
    /\ exec[p].op[1] = "generate"
    /\ Go(p, [exec[p] EXCEPT !.pc = IF Number(p) \in versions THEN "point" ELSE "reserve"])
    /\ UNCHANGED <<run, jobs, app, rows, faults>>

Park(p) ==
    /\ At(p, "park")
    /\ run' = [run EXCEPT !.payload = [exec[p].copy EXCEPT !.pending = exec[p].op]]
    /\ Go(p, [exec[p] EXCEPT !.pc = "append"])
    /\ UNCHANGED <<jobs, app, rows, faults>>

\* appendAllocatedVersion, one transaction, returns the version of the operation if there is one.
AppendVersion(p) ==
    /\ At(p, "append")
    /\ versions' = versions \cup {Number(p)}
    /\ Go(p, [exec[p] EXCEPT !.pc = IF Number(p) = RepairVersion THEN "reread" ELSE "point"])
    /\ UNCHANGED <<run, jobs, app, extracted, ledger, answers, current, audit, faults>>

\* The number of a repair is noted in the payload: the run is read again, and what was read is
\* written back, with the number and without what others wrote in between.
RereadRun(p) ==
    /\ At(p, "reread")
    /\ Go(p, [exec[p] EXCEPT !.pc = "note", !.copy = run.payload])
    /\ UNCHANGED <<run, jobs, app, rows, faults>>

NoteVersion(p) ==
    /\ At(p, "note")
    /\ run' = [run EXCEPT !.payload = exec[p].copy]
    /\ Go(p, [exec[p] EXCEPT !.pc = "point"])
    /\ UNCHANGED <<jobs, app, rows, faults>>

SetCurrent(p) ==
    /\ At(p, "point")
    /\ current' = Number(p)
    /\ Go(p, [exec[p] EXCEPT !.pc = "commit"])
    /\ UNCHANGED <<run, jobs, app, extracted, ledger, answers, versions, audit, faults>>

\* The run is read again: its payload, without the parked result, goes into the transition.
BecomesReady(p) ==
    LET cleared == [run.payload EXCEPT !.pending = NoOperation] IN
    /\ At(p, "ready")
    /\ Go(p, IF run.stage = StageAt(p)
             THEN Then(p, << <<"put", ReadyOf[VersionOf[StageAt(p)]]>>, <<"next", "stage">> >>,
                       cleared)
             ELSE [exec[p] EXCEPT !.pc = "next", !.copy = cleared])
    /\ UNCHANGED <<run, jobs, app, rows, faults>>

Resumes(p) ==
    /\ At(p, "script")
    /\ Head(exec[p].script)[1] = "next"
    /\ Go(p, [exec[p] EXCEPT !.pc = "next", !.script = <<>>])
    /\ UNCHANGED <<run, jobs, app, rows, faults>>

\* The spread of the run's payload and of the cleared one.
Merged(p) ==
    [claims |-> IF exec[p].copy.repair THEN NoClaims
                ELSE [s \in WorkStages |-> IF exec[p].copy.claims[s] # "nobody"
                                           THEN exec[p].copy.claims[s] ELSE run.payload.claims[s]],
     backend |-> run.payload.backend \/ exec[p].copy.backend,
     pending |-> NoOperation,
     repair |-> run.payload.repair \/ exec[p].copy.repair]

\* Re-read again, then the next stage; or the parked result is cleared from a run already past it.
StartNext(p) ==
    LET n == VersionOf[StageAt(p)] IN
    /\ At(p, "next")
    /\ IF run.stage = ReadyOf[n]
       THEN /\ Go(p, Then(p, << <<"put", NextOf[n]>>, <<"app", NextOf[n]>>,
                                <<"end", "resolved">> >>, Merged(p)))
            /\ UNCHANGED run
       ELSE /\ Go(p, Then(p, << <<"app", IF run.stage = NextOf[n] THEN NextOf[n] ELSE ReadyOf[n]>>,
                                <<"end", "resolved">> >>, NoPayload))
            /\ run' = IF run.payload.pending # NoOperation
                      THEN [run EXCEPT !.payload = exec[p].copy] ELSE run
    /\ UNCHANGED <<jobs, app, rows, faults>>

-----------------------------------------------------------------------------
(* Audits: the run and its findings are two inserts.                        *)

RecordAudit(p) ==
    /\ At(p, "record")
    /\ audit' = IF audit = "none" THEN "bare" ELSE audit
    /\ Go(p, [exec[p] EXCEPT !.pc = IF audit = "none" THEN "findings" ELSE "commit"])
    /\ UNCHANGED <<run, jobs, app, extracted, ledger, answers, versions, current, faults>>

RecordFindings(p) ==
    /\ At(p, "findings")
    /\ audit' = "full"
    /\ Go(p, [exec[p] EXCEPT !.pc = "commit"])
    /\ UNCHANGED <<run, jobs, app, extracted, ledger, answers, versions, current, faults>>

\* An audit under another lens is skipped.
AuditScript(stage, answer) ==
    IF answer = "done"
    THEN << <<"move", ReviewOf[stage]>>, <<"app", ReviewOf[stage]>>, <<"end", "resolved">> >>
    ELSE << <<"move", ProducerOf[stage]>>, <<"app", ProducerOf[stage]>>, <<"end", "resolved">> >>

-----------------------------------------------------------------------------
(* Final QA of the latest version: local checks, Python's judgement, one    *)
(* repair.                                                                  *)

FailedQa == << <<"put", "FINAL_QA_FAILED">>, <<"app", "FINAL_QA_FAILED">>, <<"end", "permanent">> >>

\* withoutStageClaims, and the attempt is on record before the run moves.
StartRepair(p) ==
    LET payload == [exec[p].copy EXCEPT !.claims = NoClaims, !.repair = TRUE] IN
    /\ run' = [run EXCEPT !.payload = payload]
    /\ Go(p, Then(p, << <<"put", "V4_GENERATING">>, <<"app", "V4_GENERATING">>,
                        <<"end", "resolved">> >>, payload))

\* Mutant: a version the local checks refuse is sent to be repaired.
CheckLocallyRepairing(p) ==
    /\ At(p, "look")
    /\ exec[p].op = NoOperation
    /\ \/ /\ Go(p, [exec[p] EXCEPT !.pc = "reserve",
                                   !.op = OperationAt("FINAL_QA_RUNNING", FALSE, Latest)])
          /\ UNCHANGED run
       \/ StartRepair(p)
    /\ UNCHANGED <<jobs, app, rows, faults>>

CheckLocally(p) ==
    /\ At(p, "look")
    /\ exec[p].op = NoOperation
    /\ \/ Go(p, [exec[p] EXCEPT !.pc = "reserve",
                                !.op = OperationAt("FINAL_QA_RUNNING", FALSE, Latest)])
       \/ Go(p, Then(p, FailedQa, exec[p].copy))
    /\ UNCHANGED <<run, jobs, app, rows, faults>>

ReadyScript ==
    << <<"put", "FINAL_READY">>, <<"app", "FINAL_READY">>, <<"render", "documents">>,
       <<"end", "resolved">> >>

\* Mutant: after the repair, whatever is repairable passes.
JudgeQaLenient(p) ==
    IF exec[p].answer = "unrepairable"
    THEN Go(p, Thrown(p, "permanent")) /\ UNCHANGED run
    ELSE Go(p, Then(p, ReadyScript, exec[p].copy)) /\ UNCHANGED run

JudgeQa(p) ==
    \/ /\ exec[p].answer = "passed"
       /\ Go(p, Then(p, ReadyScript, exec[p].copy))
       /\ UNCHANGED run
    \/ /\ exec[p].answer # "passed" /\ exec[p].copy.repair
       /\ Go(p, Then(p, FailedQa, exec[p].copy))
       /\ UNCHANGED run
    \/ /\ exec[p].answer = "unrepairable" /\ ~exec[p].copy.repair
       /\ Go(p, Thrown(p, "permanent"))
       /\ UNCHANGED run
    \/ /\ exec[p].answer = "repairable" /\ ~exec[p].copy.repair
       /\ StartRepair(p)

Judge(p) ==
    LET stage == StageAt(p) IN
    /\ At(p, "judge")
    /\ \/ /\ stage = "RESEARCH_RUNNING"
          /\ Go(p, Then(p, ResearchScript(exec[p].answer), NoPayload)) /\ UNCHANGED run
       \/ /\ stage = "EVIDENCE_MATCHING_RUNNING"
          /\ Go(p, Then(p, MatchScript, NoPayload)) /\ UNCHANGED run
       \/ /\ stage \in AuditStages
          /\ Go(p, Then(p, AuditScript(stage, exec[p].answer), NoPayload)) /\ UNCHANGED run
       \/ stage = "FINAL_QA_RUNNING" /\ JudgeQa(p)
    /\ UNCHANGED <<jobs, app, rows, faults>>

-----------------------------------------------------------------------------
(* The failure handler, the queue's side of a delivery, faults.             *)

GiveUp(p) ==
    /\ At(p, "giveup")
    /\ Go(p, IF run.stage = "FAILED" \/ run.status = "failed"
             THEN Rest(p, "resolved")
             ELSE [Then(p, << <<"refund", "run">>, <<"put", "FAILED">>, <<"app", "FAILED">>,
                              <<"end", "resolved">> >>, run.payload) EXCEPT !.giving = TRUE])
    /\ UNCHANGED <<run, jobs, app, rows, faults>>

Orphaned(payload, P) ==
    [payload EXCEPT !.claims = [s \in WorkStages |-> IF @[s] \in P THEN "gone" ELSE @[s]]]

\* The activities of P are over; their tokens belong to nobody.
End(P) ==
    /\ run' = [run EXCEPT !.payload = Orphaned(@, P)]
    /\ exec' = [a \in Actors |->
                  IF a \in P THEN Idle ELSE [exec[a] EXCEPT !.copy = Orphaned(@, P)]]

AfterFailure(j) ==
    [jobs EXCEPT ![j] = [state |-> IF @.left > 1 THEN "waiting" ELSE "failed",
                         left |-> @.left - 1]]
Exhausts(j) == jobs[j].left = 1

Resolve(p) ==
    /\ p \in Procs
    /\ At(p, "resolved")
    /\ jobs' = IF exec[p].attached THEN [jobs EXCEPT ![exec[p].job].state = "completed"] ELSE jobs
    /\ End({p})
    /\ UNCHANGED <<app, rows, faults>>

Reject(p) ==
    LET j == exec[p].job IN
    /\ At(p, "rejected")
    /\ jobs' = IF exec[p].attached THEN AfterFailure(j) ELSE jobs
    /\ IF exec[p].attached /\ Exhausts(j)
       THEN /\ run' = [run EXCEPT !.payload = Orphaned(@, {p})]
            /\ exec' = [a \in Actors |->
                          IF a = p THEN [Idle EXCEPT !.pc = "giveup", !.job = j]
                          ELSE [exec[a] EXCEPT !.copy = Orphaned(@, {p})]]
       ELSE End({p})
    /\ UNCHANGED <<app, rows, faults>>

\* The promise runs on; of the last try the exhausted hook runs beside it, as q.
JobTimeout(p, q) ==
    LET j == exec[p].job IN
    /\ exec[p].attached
    /\ Counts("detached", MaxDetached)
    /\ jobs' = AfterFailure(j)
    /\ IF Exhausts(j)
       THEN /\ At(q, "idle")
            /\ exec' = [exec EXCEPT ![p].attached = FALSE,
                                    ![q] = [Idle EXCEPT !.pc = "giveup", !.job = j]]
       ELSE q = p /\ exec' = [exec EXCEPT ![p].attached = FALSE]
    /\ UNCHANGED <<run, app, rows>>

WorkerCrash(P) ==
    /\ P # {}
    /\ \A p \in P : ~At(p, "idle")
    /\ Counts("crashes", MaxCrashes)
    /\ jobs' = [j \in JobIds |->
                  IF \E p \in P : exec[p].attached /\ exec[p].job = j
                  THEN [jobs[j] EXCEPT !.state = "waiting"] ELSE jobs[j]]
    /\ End(P)
    /\ UNCHANGED <<app, rows>>

\* A call of the database or the queue fails.
CallFails(p) ==
    /\ Working(p) /\ ~At(p, "call")
    /\ At(p, "script") => Head(exec[p].script)[1] \notin {"next", "end"}
    /\ Counts("failures", MaxFailures)
    /\ Go(p, IF exec[p].pc \in {"load", "claim", "release", "giveup"}
             THEN Rest(p, "rejected") ELSE Thrown(p, "retryable"))
    /\ UNCHANGED <<run, jobs, app, rows>>

\* The stored answer's key runs out, a day later.
AnswerExpires(op) ==
    /\ answers[op] # "none"
    /\ \A p \in Procs : At(p, "idle")
    /\ faults.expiries < MaxExpiries
    /\ faults' = [faults EXCEPT !.expiries = @ + 1]
    /\ answers' = [answers EXCEPT ![op] = "none"]
    /\ UNCHANGED <<run, jobs, exec, app, extracted, ledger, versions, current, audit>>

-----------------------------------------------------------------------------
(* The calls of the API.                                                    *)

\* resumePausedWorkflow, after the answers are saved.
ResumePaused(c) ==
    /\ c \in Customers
    /\ At(c, "idle")
    /\ Disturbances < MaxFaults
    /\ \/ /\ app = "RESEARCH_REVIEW_REQUIRED"
          /\ Go(c, Then(c, << <<"move", "RESEARCH_RUNNING">>, <<"app", "RESEARCH_RUNNING">>,
                              <<"end", "resolved">> >>, NoPayload))
       \/ /\ app = "RESEARCH_COMPLETED" /\ run.status = "waiting_review"
          /\ Go(c, Then(c, << <<"move", "EVIDENCE_MATCHING_RUNNING">>,
                              <<"app", "EVIDENCE_MATCHING_RUNNING">>, <<"end", "resolved">> >>,
                           NoPayload))
    /\ UNCHANGED <<run, jobs, app, rows, faults>>

\* engine.retry.
Retry(c) ==
    /\ c \in Retriers
    /\ At(c, "idle")
    /\ run.status # "cancelled"
    /\ run.attempt + 1 <= MaxRunAttempts
    /\ Disturbances < MaxFaults
    /\ run' = [run EXCEPT !.attempt = @ + 1, !.status = "retrying"]
    /\ Go(c, IF run.stage \in WorkStages
             THEN [Idle EXCEPT !.pc = "enqueue", !.adds = <<run.stage, run.attempt + 1, "retry">>,
                               !.script = << <<"end", "resolved">> >>]
             ELSE [Idle EXCEPT !.pc = "done"])
    /\ UNCHANGED <<jobs, app, rows, faults>>

-----------------------------------------------------------------------------

Script(a) ==
    \/ Transition(a) \/ Enqueue(a) \/ WriteApplication(a) \/ Refund(a)
    \/ EnqueueDocuments(a) \/ EndScript(a)

Step(p) ==
    \/ Load(p) \/ ClaimStage(p) \/ Release(p) \/ GiveUp(p) \/ Resolve(p) \/ Reject(p)
    \/ Extract(p) \/ ExtractionThrows(p) \/ Reserve(p) \/ PersistBackend(p) \/ Calls(p)
    \/ CallThrows(p) \/ Commit(p) \/ Judge(p)
    \/ LookUpVersion(p) \/ Park(p) \/ AppendVersion(p) \/ RereadRun(p) \/ NoteVersion(p)
    \/ SetCurrent(p)
    \/ BecomesReady(p) \/ Resumes(p) \/ StartNext(p) \/ RecordAudit(p) \/ RecordFindings(p)
    \/ CheckLocally(p)

Fault ==
    \/ \E p, q \in Procs : JobTimeout(p, q)
    \/ \E P \in SUBSET Procs : WorkerCrash(P)
    \/ \E p \in Procs : CallFails(p)
    \/ \E op \in Operations : AnswerExpires(op)

Next ==
    \/ \E p \in Procs : Step(p) \/ Script(p) \/ \E j \in JobIds : Deliver(p, j)
    \/ \E c \in Clients : ResumePaused(c) \/ Retry(c) \/ Script(c)
    \/ Fault

LPSpec == Init /\ [][Next]_vars

-----------------------------------------------------------------------------
(* Properties.                                                              *)

\* docs/python-resume-intelligence-rollout.md:19 "No FINAL_READY without passing QA": a finished
\* run's last version is one that Final QA passed.
ReadyPassedQa ==
    run.stage = "FINAL_READY" =>
        /\ Latest >= 4
        /\ answers[<<"qa", Latest>>] \in {"passed", "none"}   \* "none": its key has run out
        /\ ledger[<<"qa", Latest>>] = "committed"

\* Only a repairable failure of V4 is repaired, and only once: its version comes after V4's
\* judgement and the repair was announced in the payload.
RepairFollowsFailure ==
    RepairVersion \in versions =>
        /\ answers[<<"qa", 4>>] \in {"repairable", "none"}
        /\ ledger[<<"qa", 4>>] = "committed"

\* The stages of a run that has gone past a version.
PastOf(n) ==
    {ReadyOf[n], NextOf[n]}
      \cup (IF n = 4 THEN {"FINAL_QA_FAILED", "FINAL_READY"} ELSE {ReviewOf[NextOf[n]]})

\* A run that has gone past a version, to its V<n>_READY, its audit or Final QA and on, has that
\* version, and the generation is paid for: finalizeResumeGenerationPersistence commits the
\* reservation before the run moves.
VersionsArePaid ==
    \A n \in 0..4 :
        run.stage \in PastOf(n) => n \in versions /\ ledger[<<"generate", n>>] = "committed"

\* The comment at resume-pipeline.ts:1335 "Durably park provider result before append so
\* crash/replay does not re-bill".
ParkedIsNotPaidAgain ==
    [][\A op \in Operations :
          run.payload.pending = op \/ (op[1] = "generate" /\ op[2] \in versions)
          => ~(answers[op] = "none" /\ answers'[op] # "none")]_vars

=============================================================================
