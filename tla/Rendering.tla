------------------------------- MODULE Rendering -------------------------------
(***************************************************************************)
(* The documents of a single-request resume: the last stage of the run     *)
(* (FINAL_QA of single-request-pipeline.ts) enqueues a pdf-rendering job;  *)
(* its deliveries run renderCustomerArtifacts of resumes/export-cache.ts   *)
(* under two kinds of leases of resume_work_records; the customer may ask  *)
(* for the failed formats again; the exhausted-retries handler of          *)
(* failure-handler.ts ends what the queue gives up on.                     *)
(*                                                                         *)
(* One application with one resume version: the single-request policy      *)
(* makes no second one, so the tests for a stale version are left out.     *)
(* The application row is written by four actors, each from the copy it    *)
(* read: what one of them wrote in between is lost.                        *)
(***************************************************************************)
EXTENDS Naturals, FiniteSets

CONSTANTS
    Workers,      \* activities of the document workers
    Customers,    \* customers' calls of retry, one each
    Bytes,        \* what rendering can produce: two renderings of one document differ
    Tries,        \* deliveries of a pdf-rendering job (3 in the code)
    MaxDetached,  \* bound: deliveries that lose the race against the job timeout
    MaxLapses,    \* bound: leases that run out under a live holder (a stalled process)
    MaxCrashes,   \* bound: workers that die
    MaxFailures,  \* bound: database, storage and queue calls that fail
    MaxFaults     \* bound: all of these together

ASSUME RenderingAssumption ==
    /\ Workers \cap {"nobody", "gone"} = {}
    /\ "first" \notin Customers
    /\ "none" \notin Bytes
    /\ Tries \in Nat \ {0}
    /\ {MaxDetached, MaxLapses, MaxCrashes, MaxFaults} \subseteq Nat
    /\ MaxFailures \in 0..3   \* fewer than the stage job's tries: it is not exhausted here

VARIABLES
    run,      \* the stage of the workflow run
    qa,       \* the activity in FINAL_QA: where it is, and the application it read
    app,      \* the application row: stage, customerFiles, customerFinalVersions, failure flag
    record,   \* export records: the checksum of the bytes to expect
    store,    \* the object under each format's key
    rows,     \* the stored_files rows: the checksum they were created with
    lease,    \* the leases of the export records and of publish:<application>
    jobs,     \* the pdf-rendering jobs
    exec,     \* the workers
    calls,    \* the customers' calls
    faults    \* how much of each fault budget is used

vars == <<run, qa, app, record, store, rows, lease, jobs, exec, calls, faults>>

Formats == {"pdf", "docx"}
Locks == Formats \cup {"publish"}
JobIds == {"first"} \cup Customers

\* customerFiles: made is whether it is there, keys the formats with a storage key, errors those
\* with an error code.  published: customerFinalVersions holds the version.
App ==
    [stage : {"FINAL_QA_RUNNING", "FINAL_READY", "FAILED"}, made : BOOLEAN,
     keys : SUBSET Formats, errors : SUBSET Formats, pending : SUBSET Formats,
     published : BOOLEAN, renderFailed : BOOLEAN]

NoFiles ==
    [stage |-> "FINAL_QA_RUNNING", made |-> FALSE, keys |-> {}, errors |-> {}, pending |-> {},
     published |-> FALSE, renderFailed |-> FALSE]

Free == [holder |-> "nobody", lapsed |-> FALSE]

Idle ==
    [pc |-> "idle", job |-> "first", attached |-> FALSE, left |-> {}, sum |-> "none",
     keys |-> {}, errors |-> {}, failed |-> {}, ok |-> FALSE, copy |-> NoFiles]

ExportPcs == {"claim", "lookup", "head", "render", "record", "upload", "verify", "row", "release"}
LockedPcs == ExportPcs \cup {"open", "assert", "publish", "unlock"}
HookPcs == {"giveup", "check", "fail", "reread", "mark"}
Pcs == LockedPcs \cup HookPcs \cup {"idle", "lock", "resolved", "rejected"}

Init ==
    /\ run = "FINAL_QA_RUNNING"
    /\ qa = [pc |-> "start", copy |-> NoFiles]
    /\ app = NoFiles
    /\ record = [f \in Formats |-> "none"]
    /\ store = [f \in Formats |-> "none"]
    /\ rows = [f \in Formats |-> "none"]
    /\ lease = [k \in Locks |-> Free]
    /\ jobs = [j \in JobIds |-> [state |-> "absent", tries |-> 0, formats |-> {}]]
    /\ exec = [w \in Workers |-> Idle]
    /\ calls = [c \in Customers |-> [pc |-> "idle", copy |-> NoFiles]]
    /\ faults = [detached |-> 0, lapses |-> 0, crashes |-> 0, failures |-> 0]

RTypeOK ==
    /\ run \in {"FINAL_QA_RUNNING", "FINAL_READY", "FAILED"}
    /\ qa \in [pc : {"start", "write", "enqueue", "check", "finish", "done"}, copy : App]
    /\ app \in App
    /\ record \in [Formats -> Bytes \cup {"none"}]
    /\ store \in [Formats -> Bytes \cup {"none"}]
    /\ rows \in [Formats -> Bytes \cup {"none"}]
    /\ lease \in [Locks -> [holder : Workers \cup {"nobody", "gone"}, lapsed : BOOLEAN]]
    /\ jobs \in [JobIds -> [state : {"absent", "waiting", "active", "completed", "failed"},
                            tries : 0..Tries, formats : SUBSET Formats]]
    /\ exec \in [Workers -> [pc : Pcs, job : JobIds, attached : BOOLEAN, left : SUBSET Formats,
                             sum : Bytes \cup {"none"}, keys : SUBSET Formats,
                             errors : SUBSET Formats, failed : SUBSET Formats, ok : BOOLEAN,
                             copy : App]]
    /\ calls \in [Customers -> [pc : {"idle", "enqueue", "write", "done"}, copy : App]]
    /\ faults \in [detached : 0..MaxDetached, lapses : 0..MaxLapses, crashes : 0..MaxCrashes,
                   failures : 0..MaxFailures]

\* One more fault of a kind.
Counts(kind, bound) ==
    /\ faults[kind] < bound
    /\ faults.detached + faults.lapses + faults.crashes + faults.failures < MaxFaults
    /\ faults' = [faults EXCEPT ![kind] = @ + 1]

At(w, pc) == exec[w].pc = pc
Go(w, rec) == exec' = [exec EXCEPT ![w] = rec]
Steps(w, pc) == Go(w, [exec[w] EXCEPT !.pc = pc])

\* The format p is at: pdf before docx.
Current(w) == IF "pdf" \in exec[w].left THEN "pdf" ELSE "docx"

\* A known job id is ignored.
Added(j, formats) ==
    IF jobs[j].state = "absent"
    THEN [jobs EXCEPT ![j] = [state |-> "waiting", tries |-> 0, formats |-> formats]]
    ELSE jobs

-----------------------------------------------------------------------------
(* FINAL_QA of the run.  A failed call makes the queue deliver it again.    *)

QaReads ==
    /\ qa.pc = "start"
    /\ qa' = [pc |-> IF run = "FINAL_QA_RUNNING" THEN "write" ELSE "done", copy |-> app]
    /\ UNCHANGED <<run, app, record, store, rows, lease, jobs, exec, calls, faults>>

QaWrites ==
    /\ qa.pc = "write"
    /\ app' = [qa.copy EXCEPT !.stage = "FINAL_QA_RUNNING"]
    /\ qa' = [pc |-> "enqueue", copy |-> NoFiles]
    /\ UNCHANGED <<run, record, store, rows, lease, jobs, exec, calls, faults>>

QaEnqueues ==
    /\ qa.pc = "enqueue"
    /\ jobs' = Added("first", Formats)
    /\ qa' = [qa EXCEPT !.pc = "check"]
    /\ UNCHANGED <<run, app, record, store, rows, lease, exec, calls, faults>>

\* engine.transition reads and checks, then updates by id; refused, the job ends (a stale one, or
\* a 409 whose handler finds the run failed).
QaChecks ==
    /\ qa.pc = "check"
    /\ qa' = [qa EXCEPT !.pc = IF run = "FINAL_QA_RUNNING" THEN "finish" ELSE "done"]
    /\ UNCHANGED <<run, app, record, store, rows, lease, jobs, exec, calls, faults>>

QaFinishes ==
    /\ qa.pc = "finish"
    /\ run' = "FINAL_READY"
    /\ qa' = [qa EXCEPT !.pc = "done"]
    /\ UNCHANGED <<app, record, store, rows, lease, jobs, exec, calls, faults>>

QaCallFails ==
    /\ qa.pc \in {"write", "enqueue", "check", "finish"}
    /\ Counts("failures", MaxFailures)
    /\ qa' = [pc |-> "start", copy |-> NoFiles]
    /\ UNCHANGED <<run, app, record, store, rows, lease, jobs, exec, calls>>

-----------------------------------------------------------------------------
(* Leases: claim when free or past its time, renew and patch by token only. *)

\* Mutant of Claimable: a lease is taken whoever holds it.
ClaimableAlways(k) == k \in Locks

Claimable(k) == lease[k].holder = "nobody" \/ lease[k].lapsed

Held(w, k) == lease[k].holder = w

Released(w, k) == IF Held(w, k) THEN [lease EXCEPT ![k] = Free] ELSE lease

\* The tokens of workers that have ended belong to nobody any more, and still block until their
\* time.
Orphaned(W) ==
    [k \in Locks |-> IF lease[k].holder \in W THEN [lease[k] EXCEPT !.holder = "gone"]
                     ELSE lease[k]]

\* The heartbeat of a live holder; without it the lease may run out.
Heartbeat(w) ==
    /\ \E k \in Locks :
          /\ Held(w, k) /\ lease[k].lapsed
          /\ lease' = [lease EXCEPT ![k].lapsed = FALSE]
    /\ UNCHANGED <<run, qa, app, record, store, rows, jobs, exec, calls, faults>>

LeaseLapses(k) ==
    /\ lease[k].holder # "nobody" /\ ~lease[k].lapsed
    /\ IF lease[k].holder = "gone" THEN UNCHANGED faults ELSE Counts("lapses", MaxLapses)
    /\ lease' = [lease EXCEPT ![k].lapsed = TRUE]
    /\ UNCHANGED <<run, qa, app, record, store, rows, jobs, exec, calls>>

-----------------------------------------------------------------------------
(* A delivery of a pdf-rendering job: renderCustomerArtifacts.              *)

Deliver(w, j) ==
    /\ At(w, "idle")
    /\ jobs[j].state = "waiting"
    /\ jobs' = [jobs EXCEPT ![j].state = "active"]
    /\ Go(w, [Idle EXCEPT !.pc = "lock", !.job = j, !.attached = TRUE])
    /\ UNCHANGED <<run, qa, app, record, store, rows, lease, calls, faults>>

\* 409 EXPORT_IN_PROGRESS when the publication lease is held.
Lock(w) ==
    /\ At(w, "lock")
    /\ IF Claimable("publish")
       THEN /\ lease' = [lease EXCEPT !["publish"] = [holder |-> w, lapsed |-> FALSE]]
            /\ Steps(w, "open")
       ELSE Steps(w, "rejected") /\ UNCHANGED lease
    /\ UNCHANGED <<run, qa, app, record, store, rows, jobs, calls, faults>>

\* The files start from those the application has.
Open(w) ==
    /\ At(w, "open")
    /\ Go(w, [exec[w] EXCEPT !.pc = "claim", !.left = jobs[exec[w].job].formats,
                             !.keys = app.keys, !.errors = app.errors])
    /\ UNCHANGED <<run, qa, app, record, store, rows, lease, jobs, calls, faults>>

\* A format is done: on to the next one, or to the publication.
Next1(w, ok) ==
    LET f == Current(w)
        left == exec[w].left \ {f}
    IN [exec[w] EXCEPT
          !.pc = IF left = {} THEN "assert" ELSE "claim",
          !.left = left, !.sum = "none", !.ok = FALSE,
          !.keys = IF ok THEN @ \cup {f} ELSE @,
          !.errors = IF ok THEN @ \ {f} ELSE @ \cup {f},
          !.failed = IF ok THEN @ ELSE @ \cup {f}]

\* What a failed step of exportFormat does: its finally block, then the catch of the loop.
FailsFormat(w) == Go(w, [exec[w] EXCEPT !.pc = "release", !.ok = FALSE])

ClaimFormat(w) ==
    LET f == Current(w) IN
    /\ At(w, "claim")
    /\ IF Claimable(f)
       THEN /\ lease' = [lease EXCEPT ![f] = [holder |-> w, lapsed |-> FALSE]]
            /\ Steps(w, "lookup")
       ELSE Go(w, Next1(w, FALSE)) /\ UNCHANGED lease
    /\ UNCHANGED <<run, qa, app, record, store, rows, jobs, calls, faults>>

LookUp(w) ==
    LET known == record[Current(w)] IN
    /\ At(w, "lookup")
    /\ Go(w, [exec[w] EXCEPT !.pc = IF known = "none" THEN "render" ELSE "head", !.sum = known])
    /\ UNCHANGED <<run, qa, app, record, store, rows, lease, jobs, calls, faults>>

\* Mutant of Head: a recorded checksum is taken for a stored object.
HeadTrusting(w) ==
    /\ At(w, "head")
    /\ Steps(w, "row")
    /\ UNCHANGED <<run, qa, app, record, store, rows, lease, jobs, calls, faults>>

\* complete(record): the stored object is reused when it has the recorded checksum.
Head(w) ==
    /\ At(w, "head")
    /\ Steps(w, IF store[Current(w)] = exec[w].sum THEN "row" ELSE "render")
    /\ UNCHANGED <<run, qa, app, record, store, rows, lease, jobs, calls, faults>>

Render(w) ==
    /\ At(w, "render")
    /\ \/ \E b \in Bytes : Go(w, [exec[w] EXCEPT !.pc = "record", !.sum = b])
       \/ FailsFormat(w)
    /\ UNCHANGED <<run, qa, app, record, store, rows, lease, jobs, calls, faults>>

\* Mutant of Record: the expected bytes are not recorded before the upload.
RecordNothing(w) ==
    /\ At(w, "record")
    /\ IF Held(w, Current(w)) THEN Steps(w, "upload") ELSE FailsFormat(w)
    /\ UNCHANGED <<run, qa, app, record, store, rows, lease, jobs, calls, faults>>

\* The expected bytes are recorded before they are stored, by token: a lease that was taken over
\* (which the heartbeat may have noticed already) ends the attempt.
Record(w) ==
    /\ At(w, "record")
    /\ IF Held(w, Current(w))
       THEN /\ record' = [record EXCEPT ![Current(w)] = exec[w].sum]
            /\ Steps(w, "upload")
       ELSE FailsFormat(w) /\ UNCHANGED record
    /\ UNCHANGED <<run, qa, app, store, rows, lease, jobs, calls, faults>>

\* putObject does not look at the lease.
Upload(w) ==
    /\ At(w, "upload")
    /\ store' = [store EXCEPT ![Current(w)] = exec[w].sum]
    /\ Steps(w, "verify")
    /\ UNCHANGED <<run, qa, app, record, rows, lease, jobs, calls, faults>>

Verify(w) ==
    /\ At(w, "verify")
    /\ IF store[Current(w)] = exec[w].sum THEN Steps(w, "row") ELSE FailsFormat(w)
    /\ UNCHANGED <<run, qa, app, record, store, rows, lease, jobs, calls, faults>>

\* The stored_files row is created once; its file id is derived from the identity.
CreateRow(w) ==
    LET f == Current(w) IN
    /\ At(w, "row")
    /\ rows' = IF rows[f] = "none" THEN [rows EXCEPT ![f] = exec[w].sum] ELSE rows
    /\ Go(w, [exec[w] EXCEPT !.pc = "release", !.ok = TRUE])
    /\ UNCHANGED <<run, qa, app, record, store, lease, jobs, calls, faults>>

ReleaseFormat(w) ==
    /\ At(w, "release")
    /\ lease' = Released(w, Current(w))
    /\ Go(w, Next1(w, exec[w].ok))
    /\ UNCHANGED <<run, qa, app, record, store, rows, jobs, calls, faults>>

\* renew of the publication lease: by token, and it revives a lease that ran out unnoticed.
AssertLease(w) ==
    /\ At(w, "assert")
    /\ IF Held(w, "publish")
       THEN lease' = [lease EXCEPT !["publish"].lapsed = FALSE] /\ Steps(w, "publish")
       ELSE UNCHANGED lease /\ Go(w, [exec[w] EXCEPT !.pc = "unlock", !.ok = FALSE])
    /\ UNCHANGED <<run, qa, app, record, store, rows, jobs, calls, faults>>

\* Mutant of Publish: an error does not make the failure known to the customer.
PublishQuietly(w) ==
    LET me == exec[w] IN
    /\ At(w, "publish")
    /\ app' = [stage |-> IF me.keys # {} THEN "FINAL_READY" ELSE "FAILED", made |-> TRUE,
               keys |-> me.keys, errors |-> me.errors,
               pending |-> {f \in Formats : f \notin me.keys \/ f \in me.errors},
               published |-> TRUE, renderFailed |-> me.keys = {}]
    /\ Go(w, [me EXCEPT !.pc = "unlock", !.ok = me.failed = {}])
    /\ UNCHANGED <<run, qa, record, store, rows, lease, jobs, calls, faults>>

\* A blind update that sets every column modelled here; formats that failed throw afterwards.
Publish(w) ==
    LET me == exec[w] IN
    /\ At(w, "publish")
    /\ app' = [stage |-> IF me.keys # {} THEN "FINAL_READY" ELSE "FAILED", made |-> TRUE,
               keys |-> me.keys, errors |-> me.errors,
               pending |-> {f \in Formats : f \notin me.keys \/ f \in me.errors},
               published |-> TRUE, renderFailed |-> me.failed # {}]
    /\ Go(w, [me EXCEPT !.pc = "unlock", !.ok = me.failed = {}])
    /\ UNCHANGED <<run, qa, record, store, rows, lease, jobs, calls, faults>>

Unlock(w) ==
    /\ At(w, "unlock")
    /\ lease' = Released(w, "publish")
    /\ Steps(w, IF exec[w].ok THEN "resolved" ELSE "rejected")
    /\ UNCHANGED <<run, qa, app, record, store, rows, jobs, calls, faults>>

-----------------------------------------------------------------------------
(* How a delivery ends, and what follows when its job is exhausted.         *)

Exhausts(j) == jobs[j].tries + 1 = Tries

\* Mutant of AfterFailure: one try too many.
AfterFailureLate(j) ==
    [jobs EXCEPT ![j].state = IF jobs[j].tries = Tries THEN "failed" ELSE "waiting",
                 ![j].tries = @ + 1]

AfterFailure(j) ==
    [jobs EXCEPT ![j].state = IF Exhausts(j) THEN "failed" ELSE "waiting", ![j].tries = @ + 1]

Hook(j) == [Idle EXCEPT !.pc = "giveup", !.job = j]

Resolve(w) ==
    /\ At(w, "resolved")
    /\ jobs' = IF exec[w].attached THEN [jobs EXCEPT ![exec[w].job].state = "completed"] ELSE jobs
    /\ lease' = Orphaned({w})
    /\ Go(w, Idle)
    /\ UNCHANGED <<run, qa, app, record, store, rows, calls, faults>>

Reject(w) ==
    LET j == exec[w].job IN
    /\ At(w, "rejected")
    /\ jobs' = IF exec[w].attached THEN AfterFailure(j) ELSE jobs
    /\ lease' = Orphaned({w})
    /\ Go(w, IF exec[w].attached /\ Exhausts(j) THEN Hook(j) ELSE Idle)
    /\ UNCHANGED <<run, qa, app, record, store, rows, calls, faults>>

\* handleWorkflowJobExhausted, pdf-rendering branch: a run that has not failed is to fail first ...
GiveUp(w) ==
    /\ At(w, "giveup")
    /\ Steps(w, IF run = "FAILED" THEN "reread" ELSE "check")
    /\ UNCHANGED <<run, qa, app, record, store, rows, lease, jobs, calls, faults>>

\* ... which the stage graph refuses a run that is FINAL_READY; the exception of a refused
\* transition is logged and the handler is over.
HookChecks(w) ==
    /\ At(w, "check")
    /\ IF run # "FINAL_READY" THEN Steps(w, "fail") ELSE Go(w, Idle)
    /\ UNCHANGED <<run, qa, app, record, store, rows, lease, jobs, calls, faults>>

HookFailsRun(w) ==
    /\ At(w, "fail")
    /\ run' = "FAILED"
    /\ Steps(w, "reread")
    /\ UNCHANGED <<qa, app, record, store, rows, lease, jobs, calls, faults>>

HookReadsApp(w) ==
    /\ At(w, "reread")
    /\ Go(w, [exec[w] EXCEPT !.pc = "mark", !.copy = app])
    /\ UNCHANGED <<run, qa, app, record, store, rows, lease, jobs, calls, faults>>

\* markApplicationFailed: completed formats stay available.
HookMarks(w) ==
    /\ At(w, "mark")
    /\ app' = [exec[w].copy EXCEPT
                  !.stage = IF exec[w].copy.keys # {} THEN "FINAL_READY" ELSE "FAILED",
                  !.renderFailed = TRUE]
    /\ Go(w, Idle)
    /\ UNCHANGED <<run, qa, record, store, rows, lease, jobs, calls, faults>>

-----------------------------------------------------------------------------
(* The customer asks for the failed formats again (retry, documentOnlyRetry).*)

\* Only while a failure is shown; any other retry is refused while the run is FINAL_READY.
RetryReads(c) ==
    /\ calls[c].pc = "idle"
    /\ app.renderFailed /\ app.published
    /\ calls' = [calls EXCEPT ![c] = [pc |-> "enqueue", copy |-> app]]
    /\ UNCHANGED <<run, qa, app, record, store, rows, lease, jobs, exec, faults>>

Wanted(copy) ==
    IF copy.pending # {} THEN copy.pending ELSE copy.errors \cup (Formats \ copy.keys)

RetryEnqueues(c) ==
    LET formats == Wanted(calls[c].copy) IN
    /\ calls[c].pc = "enqueue"
    /\ IF formats = {} THEN calls' = [calls EXCEPT ![c].pc = "done"] /\ UNCHANGED jobs
       ELSE /\ jobs' = Added(c, formats)
            /\ calls' = [calls EXCEPT ![c].pc = "write"]
    /\ UNCHANGED <<run, qa, app, record, store, rows, lease, exec, faults>>

\* Then the metadata it read, with the failure cleared; the stage column is not in the patch.
RetryWrites(c) ==
    LET copy == calls[c].copy
        formats == Wanted(copy)
    IN
    /\ calls[c].pc = "write"
    /\ app' = [copy EXCEPT !.stage = app.stage, !.renderFailed = FALSE, !.made = TRUE,
                           !.pending = formats, !.errors = @ \ formats]
    /\ calls' = [calls EXCEPT ![c] = [pc |-> "done", copy |-> NoFiles]]
    /\ UNCHANGED <<run, qa, record, store, rows, lease, jobs, exec, faults>>

-----------------------------------------------------------------------------
(* Faults.                                                                  *)

\* The promise runs on, heartbeats included; another worker runs the hook of an exhausted job.
JobTimeout(w, v) ==
    LET j == exec[w].job IN
    /\ exec[w].attached
    /\ Counts("detached", MaxDetached)
    /\ jobs' = AfterFailure(j)
    /\ IF Exhausts(j)
       THEN /\ At(v, "idle")
            /\ exec' = [exec EXCEPT ![w].attached = FALSE, ![v] = Hook(j)]
       ELSE v = w /\ exec' = [exec EXCEPT ![w].attached = FALSE]
    /\ UNCHANGED <<run, qa, app, record, store, rows, lease, calls>>

WorkerCrash(w) ==
    /\ ~At(w, "idle")
    /\ Counts("crashes", MaxCrashes)
    /\ jobs' = IF exec[w].attached THEN [jobs EXCEPT ![exec[w].job].state = "waiting"] ELSE jobs
    /\ lease' = Orphaned({w})
    /\ Go(w, Idle)
    /\ UNCHANGED <<run, qa, app, record, store, rows, calls>>

\* What a failing call leads to.  headObject answers "not there" for every error.
AfterCallFails(w) ==
    CASE At(w, "claim") -> Next1(w, FALSE)
      [] At(w, "head") -> [exec[w] EXCEPT !.pc = "render"]
      [] exec[w].pc \in {"lookup", "record", "upload", "verify", "row"} ->
            [exec[w] EXCEPT !.pc = "release", !.ok = FALSE]
      [] At(w, "release") -> Next1(w, FALSE)
      [] exec[w].pc \in {"open", "assert", "publish"} ->
            [exec[w] EXCEPT !.pc = "unlock", !.ok = FALSE]
      [] exec[w].pc \in {"lock", "unlock"} -> [exec[w] EXCEPT !.pc = "rejected"]
      [] OTHER -> Idle

CallFails(w) ==
    /\ exec[w].pc \notin {"idle", "render", "resolved", "rejected"}
    /\ Counts("failures", MaxFailures)
    /\ Go(w, AfterCallFails(w))
    /\ lease' = IF At(w, "release") /\ Held(w, Current(w))
                THEN [lease EXCEPT ![Current(w)].holder = "gone"] ELSE lease
    /\ UNCHANGED <<run, qa, app, record, store, rows, jobs, calls>>

CustomerCallFails(c) ==
    /\ calls[c].pc \in {"enqueue", "write"}
    /\ Counts("failures", MaxFailures)
    /\ calls' = [calls EXCEPT ![c] = [pc |-> "done", copy |-> NoFiles]]
    /\ UNCHANGED <<run, qa, app, record, store, rows, lease, jobs, exec>>

-----------------------------------------------------------------------------

Qa == QaReads \/ QaWrites \/ QaEnqueues \/ QaChecks \/ QaFinishes

Export(w) ==
    \/ ClaimFormat(w) \/ LookUp(w) \/ Head(w) \/ Render(w) \/ Record(w) \/ Upload(w)
    \/ Verify(w) \/ CreateRow(w) \/ ReleaseFormat(w)

Work(w) ==
    \/ Lock(w) \/ Open(w) \/ Export(w) \/ AssertLease(w) \/ Publish(w) \/ Unlock(w)
    \/ Resolve(w) \/ Reject(w)

Exhausted(w) ==
    GiveUp(w) \/ HookChecks(w) \/ HookFailsRun(w) \/ HookReadsApp(w) \/ HookMarks(w)

Retry(c) == RetryReads(c) \/ RetryEnqueues(c) \/ RetryWrites(c)

Fault ==
    \/ QaCallFails
    \/ \E w, v \in Workers : JobTimeout(w, v)
    \/ \E w \in Workers : WorkerCrash(w) \/ CallFails(w)
    \/ \E c \in Customers : CustomerCallFails(c)

RNext ==
    \/ Qa
    \/ \E w \in Workers, j \in JobIds : Deliver(w, j)
    \/ \E w \in Workers : Work(w) \/ Exhausted(w) \/ Heartbeat(w)
    \/ \E k \in Locks : LeaseLapses(k)
    \/ \E c \in Customers : Retry(c)
    \/ Fault

RSpec == Init /\ [][RNext]_vars

-----------------------------------------------------------------------------
(* Properties.                                                              *)

\* docs/single-request-resume-rollout.md:27: "per-application publication leases prevent concurrent
\* rendering/publication".  While no lease ran out under a live holder, one delivery at most is
\* inside renderArtifactsLocked: not a redelivery after a timeout, whose first delivery runs on,
\* nor one after a crash, nor one of another job.
OnePublisher ==
    faults.lapses = 0 =>
        \A w, v \in Workers :
            exec[w].pc \in LockedPcs /\ exec[v].pc \in LockedPcs => w = v

\* docs/single-request-resume-rollout.md:27: "upload checksums and metadata can recover from an
\* interrupted write".  Whatever a worker leaves when it dies, is given up on or fails to reach a
\* store, the object it stored has the recorded checksum and its row's, so that the next delivery
\* reuses it.  (Not after a lease was lost, for the upload does not look at it, nor after a head
\* request failed, which counts as "not there".)
ArtifactsAgree ==
    faults.lapses = 0 /\ faults.failures = 0 =>
        \A f \in Formats :
            /\ store[f] # "none" => store[f] = record[f]
            /\ rows[f] # "none" => rows[f] = store[f]

\* A format offered for download has an object and a row, in every interleaving and under every
\* fault: also when the offer was written by a caller from a copy of older files.
OfferedIsStored == \A f \in app.keys : store[f] # "none" /\ rows[f] # "none"

\* Nothing is under way or still to come.
Quiet ==
    /\ qa.pc = "done"
    /\ \A j \in JobIds : jobs[j].state \notin {"waiting", "active"}
    /\ \A w \in Workers : At(w, "idle")
    /\ \A c \in Customers : calls[c].pc \in {"idle", "done"}

Downloadable == app.stage = "FINAL_READY" /\ app.keys = Formats /\ app.errors = {}

\* docs/single-request-resume-rollout.md:28: "the current product promises PDF and Word downloads at
\* completion."  When a run is complete and nothing is under way, both formats can be downloaded or
\* the customer is shown a failure, which is what makes a retry possible.
CompletionIsAnswered ==
    run = "FINAL_READY" /\ Quiet => Downloadable \/ app.renderFailed

\* The same without crashes, failing calls and customers' retries: renderings that fail, time out
\* or lose their leases are all answered.
UndisturbedCompletionIsAnswered ==
    /\ faults.crashes = 0 /\ faults.failures = 0
    /\ \A c \in Customers : calls[c].pc = "idle"
    => CompletionIsAnswered

=============================================================================
