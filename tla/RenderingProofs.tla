---------------------------- MODULE RenderingProofs ----------------------------
(***************************************************************************)
(* Rendering for any number of workers, customers, tries and faults: its   *)
(* type; one publisher while no lease is lost; objects, rows and records   *)
(* that agree; nothing offered that is not stored; an answer for every     *)
(* completed run that nothing but timeouts, lost leases and failing        *)
(* renderings disturbed.                                                   *)
(***************************************************************************)
EXTENDS Rendering, TLAPS

Activity ==
    [pc : Pcs, job : JobIds, attached : BOOLEAN, left : SUBSET Formats,
     sum : Bytes \cup {"none"}, keys : SUBSET Formats, errors : SUBSET Formats,
     failed : SUBSET Formats, ok : BOOLEAN, copy : App]

\* A job that can still be delivered has a try left.
TriesAreLeft ==
    \A j \in JobIds : jobs[j].state \notin {"completed", "failed"} => jobs[j].tries < Tries

\* The queue waits for one delivery of an active job.
DeliveriesAreActive ==
    /\ \A w \in Workers : exec[w].attached => jobs[exec[w].job].state = "active"
    /\ \A w, v \in Workers :
          exec[w].attached /\ exec[v].attached /\ exec[w].job = exec[v].job => w = v

RInv == RTypeOK /\ TriesAreLeft /\ DeliveriesAreActive

FormatOf(me) == IF "pdf" \in me.left THEN "pdf" ELSE "docx"

\* Whoever works under a lease has it.
HasLeases(w, me, leases) ==
    /\ me.pc \in LockedPcs => leases["publish"].holder = w
    /\ me.pc \in ExportPcs \ {"claim"} => leases[FormatOf(me)].holder = w

NoneIsLost(leases) == \A k \in Locks : leases[k].lapsed => leases[k].holder \notin Workers

\* A lease runs out under a live holder only by a fault.
LeasesAreHeld ==
    faults.lapses = 0 =>
        NoneIsLost(lease) /\ \A w \in Workers : HasLeases(w, exec[w], lease)

Agree(f) ==
    /\ store[f] # "none" => store[f] = record[f]
    /\ rows[f] # "none" => rows[f] = store[f]

\* What the holder of a format's lease knows of its object and its record.
Knows(me) ==
    LET f == FormatOf(me) IN
    /\ me.pc = "head" => me.sum = record[f]
    /\ me.pc \in {"render", "record", "upload"} => store[f] = "none"
    /\ me.pc = "upload" => me.sum = record[f]
    /\ me.pc \in {"verify", "row"} => store[f] = me.sum

ArtifactsAreKnown ==
    faults.lapses = 0 /\ faults.failures = 0 =>
        (\A f \in Formats : Agree(f)) /\ \A w \in Workers : Knows(exec[w])

Stored == {f \in Formats : store[f] # "none" /\ rows[f] # "none"}

\* What a worker offers, or is about to offer, is stored.
Offers(me) ==
    /\ me.keys \subseteq Stored
    /\ me.copy.keys \subseteq Stored
    /\ me.pc \in {"head", "record", "upload", "verify", "row"} => me.sum # "none"
    /\ me.pc = "row" => store[FormatOf(me)] # "none"
    /\ me.pc = "release" /\ me.ok => FormatOf(me) \in Stored

\* Keys are those of stored formats, in the row and in every copy of it.
KeysAreStored ==
    /\ app.keys \subseteq Stored
    /\ qa.copy.keys \subseteq Stored
    /\ \A c \in Customers : calls[c].copy.keys \subseteq Stored
    /\ \A w \in Workers : Offers(exec[w])

Undisturbed ==
    /\ faults.crashes = 0 /\ faults.failures = 0
    /\ \A c \in Customers : calls[c].pc = "idle"

Answered == Downloadable \/ app.renderFailed

Publishing == LockedPcs \ {"unlock"}

\* Somebody is still to publish: a delivery to come, one before the lock, or the lock's holder.
Pending ==
    \/ jobs["first"].state = "waiting"
    \/ \E w \in Workers : At(w, "lock") \/ (Held(w, "publish") /\ exec[w].pc \in Publishing)

\* The run goes on after its job is enqueued, and workers work on jobs that are.
JobsComeFirst ==
    /\ qa.pc \in {"check", "finish"} \/ run = "FINAL_READY" => jobs["first"].state # "absent"
    /\ jobs["first"].state # "absent" => jobs["first"].formats = Formats
    /\ \A w \in Workers : ~At(w, "idle") => jobs[exec[w].job].state # "absent"

\* A format that a delivery has done with has failed, or can be downloaded.
Accounted(me) ==
    /\ me.pc \in ExportPcs => me.left # {}
    /\ me.pc \in {"assert", "publish"} => me.left = {}
    /\ me.pc \in ExportPcs \cup {"assert", "publish"} =>
          \A f \in Formats \ me.left : f \in me.failed \/ f \in me.keys \ me.errors

\* The holder of the publication lease is not past its publication, or there is an answer.
HolderAnswers(w) ==
    Held(w, "publish") => exec[w].pc \in Publishing \/ (At(w, "unlock") /\ Answered)

JobsAnswer ==
    /\ qa.pc \in {"start", "write", "enqueue"} => jobs["first"].state = "absent"
    /\ \A c \in Customers : jobs[c].state = "absent"
    /\ lease["publish"].holder # "gone"
    /\ jobs["first"].state # "absent" => Answered \/ Pending
    /\ \A w \in Workers : Accounted(exec[w]) /\ HolderAnswers(w)

AnswersCome == Undisturbed => JobsAnswer

-----------------------------------------------------------------------------
(* Facts about the operators.                                               *)

LEMMA CurrentIsFormat == \A w : Current(w) \in Formats
BY DEF Current, Formats

LEMMA FormatsAreLocks ==
    /\ Formats \subseteq Locks /\ "publish" \in Locks /\ "publish" \notin Formats
    /\ \A w : Current(w) \in Locks /\ Current(w) # "publish"
BY CurrentIsFormat DEF Locks, Formats

LEMMA NoFilesIsApp == NoFiles \in App
BY DEF NoFiles, App, Formats

LEMMA IdleIsActivity ==
    /\ Idle \in Activity /\ ~Idle.attached /\ Idle.pc = "idle"
    /\ Idle.keys = {} /\ Idle.copy.keys = {}
    /\ \A j \in JobIds : Hook(j) \in Activity /\ ~Hook(j).attached /\ Hook(j).job = j
                         /\ Hook(j).pc = "giveup" /\ Hook(j).keys = {} /\ Hook(j).copy.keys = {}
<1>1. Idle \in Activity
  BY NoFilesIsApp DEF Idle, Activity, Pcs, LockedPcs, ExportPcs, HookPcs, JobIds
<1>2. \A j \in JobIds : Hook(j) \in Activity
  BY NoFilesIsApp DEF Hook, Idle, Activity, Pcs, LockedPcs, ExportPcs, HookPcs
<1>3. QED
  BY <1>1, <1>2 DEF Hook, Idle, NoFiles

\* What is known of a format that is done.
LEMMA Next1IsActivity ==
    ASSUME NEW w, exec[w] \in Activity, NEW ok \in BOOLEAN
    PROVE  LET me == Next1(w, ok)
               f == Current(w)
           IN /\ me \in Activity
              /\ me.job = exec[w].job /\ me.attached = exec[w].attached
              /\ me.copy = exec[w].copy /\ me.ok = FALSE /\ me.sum = "none"
              /\ me.left = exec[w].left \ {f}
              /\ me.pc = IF me.left = {} THEN "assert" ELSE "claim"
              /\ me.keys = IF ok THEN exec[w].keys \cup {f} ELSE exec[w].keys
              /\ me.errors = IF ok THEN exec[w].errors \ {f} ELSE exec[w].errors \cup {f}
              /\ me.failed = IF ok THEN exec[w].failed ELSE exec[w].failed \cup {f}
BY CurrentIsFormat DEF Next1, Activity, Pcs, LockedPcs, ExportPcs

Leases == [Locks -> [holder : Workers \cup {"nobody", "gone"}, lapsed : BOOLEAN]]

LEMMA LeaseFacts ==
    ASSUME lease \in Leases
    PROVE  /\ \A w, k : Released(w, k) \in Leases
           /\ \A W : Orphaned(W) \in Leases
BY DEF Leases, Released, Orphaned, Free

LEMMA ClaimedIsLeases ==
    ASSUME lease \in Leases, NEW w \in Workers, NEW k,
           lease' = [lease EXCEPT ![k] = [holder |-> w, lapsed |-> FALSE]]
    PROVE  lease' \in Leases
<1> DEFINE mine == [holder |-> w, lapsed |-> FALSE]
<1>1. mine \in [holder : Workers \cup {"nobody", "gone"}, lapsed : BOOLEAN]
  OBVIOUS
<1>2. lease' = [lease EXCEPT ![k] = mine]
  OBVIOUS
<1> HIDE DEF mine
<1>3. QED
  BY <1>1, <1>2 DEF Leases

LEMMA RenewedIsLeases ==
    ASSUME lease \in Leases, NEW k, NEW b \in BOOLEAN, lease' = [lease EXCEPT ![k].lapsed = b]
    PROVE  lease' \in Leases
BY DEF Leases

LEMMA LostIsLeases ==
    ASSUME lease \in Leases, NEW k, lease' = [lease EXCEPT ![k].holder = "gone"]
    PROVE  lease' \in Leases
BY DEF Leases

-----------------------------------------------------------------------------
(* The type.                                                                *)

\* Everything but the jobs and the workers.
RowsOK ==
    /\ run \in {"FINAL_QA_RUNNING", "FINAL_READY", "FAILED"}
    /\ qa \in [pc : {"start", "write", "enqueue", "check", "finish", "done"}, copy : App]
    /\ app \in App
    /\ record \in [Formats -> Bytes \cup {"none"}]
    /\ store \in [Formats -> Bytes \cup {"none"}]
    /\ rows \in [Formats -> Bytes \cup {"none"}]
    /\ lease \in Leases
    /\ calls \in [Customers -> [pc : {"idle", "enqueue", "write", "done"}, copy : App]]
    /\ faults \in [detached : 0..MaxDetached, lapses : 0..MaxLapses, crashes : 0..MaxCrashes,
                   failures : 0..MaxFailures]

JobsOK ==
    jobs \in [JobIds -> [state : {"absent", "waiting", "active", "completed", "failed"},
                         tries : 0..Tries, formats : SUBSET Formats]]

LEMMA InvParts ==
    RInv <=> /\ RowsOK /\ JobsOK /\ exec \in [Workers -> Activity]
             /\ TriesAreLeft /\ DeliveriesAreActive
BY DEF RInv, RTypeOK, RowsOK, JobsOK, Activity, Leases

LEMMA InvPartsNext ==
    /\ RowsOK' /\ JobsOK' /\ exec' \in [Workers -> Activity]
    /\ TriesAreLeft' /\ DeliveriesAreActive'
    => RInv'
BY DEF RInv, RTypeOK, RowsOK, JobsOK, Activity, Leases

LEMMA CountsKeepType ==
    ASSUME RowsOK, NEW kind, NEW bound,
           \/ kind = "detached" /\ bound = MaxDetached
           \/ kind = "lapses" /\ bound = MaxLapses
           \/ kind = "crashes" /\ bound = MaxCrashes
           \/ kind = "failures" /\ bound = MaxFailures,
           Counts(kind, bound)
    PROVE  /\ faults' \in [detached : 0..MaxDetached, lapses : 0..MaxLapses,
                           crashes : 0..MaxCrashes, failures : 0..MaxFailures]
           /\ faults'.lapses = faults.lapses \/ faults'.lapses > 0
           /\ faults'.failures = faults.failures \/ faults'.failures > 0
           /\ faults'.crashes = faults.crashes \/ faults'.crashes > 0
           /\ kind = "lapses" => faults'.lapses > 0
           /\ kind = "crashes" => faults'.crashes > 0
           /\ kind = "failures" => faults'.failures > 0
           /\ kind # "lapses" => faults'.lapses = faults.lapses
           /\ kind # "crashes" => faults'.crashes = faults.crashes
           /\ kind # "failures" => faults'.failures = faults.failures
<1>1. /\ MaxFailures \in Nat /\ MaxLapses \in Nat /\ MaxCrashes \in Nat /\ MaxDetached \in Nat
  BY RenderingAssumption
<1>2. faults \in [detached : 0..MaxDetached, lapses : 0..MaxLapses, crashes : 0..MaxCrashes,
                  failures : 0..MaxFailures]
  BY DEF RowsOK
<1>3. CASE kind = "detached"
  BY <1>1, <1>2, <1>3 DEF Counts
<1>4. CASE kind = "lapses"
  BY <1>1, <1>2, <1>4 DEF Counts
<1>5. CASE kind = "crashes"
  BY <1>1, <1>2, <1>5 DEF Counts
<1>6. CASE kind = "failures"
  BY <1>1, <1>2, <1>6 DEF Counts
<1>7. QED
  BY <1>3, <1>4, <1>5, <1>6

\* Worker w becomes me; the jobs stay.
LEMMA StepKeepsInv ==
    ASSUME RInv, NEW w \in Workers, NEW me \in Activity,
           me.attached => exec[w].attached /\ me.job = exec[w].job,
           exec' = [exec EXCEPT ![w] = me], UNCHANGED jobs, RowsOK'
    PROVE  RInv'
<1>1. JobsOK /\ exec \in [Workers -> Activity] /\ TriesAreLeft /\ DeliveriesAreActive
  BY InvParts
<1>2. exec' \in [Workers -> Activity]
  BY <1>1
<1>3. JobsOK' /\ TriesAreLeft'
  BY <1>1 DEF JobsOK, TriesAreLeft
<1>4. DeliveriesAreActive'
  BY <1>1 DEF DeliveriesAreActive
<1>5. QED
  BY <1>2, <1>3, <1>4, InvPartsNext

\* The workers stay.
LEMMA RowStepKeepsInv ==
    ASSUME RInv, UNCHANGED <<jobs, exec>>, RowsOK'
    PROVE  RInv'
<1>1. JobsOK /\ exec \in [Workers -> Activity] /\ TriesAreLeft /\ DeliveriesAreActive
  BY InvParts
<1>2. JobsOK' /\ TriesAreLeft' /\ DeliveriesAreActive' /\ exec' \in [Workers -> Activity]
  BY <1>1 DEF JobsOK, TriesAreLeft, DeliveriesAreActive
<1>3. QED
  BY <1>2, InvPartsNext

\* A job is added.
LEMMA AddingKeepsInv ==
    ASSUME RInv, NEW j \in JobIds, NEW formats \in SUBSET Formats,
           jobs' = Added(j, formats), UNCHANGED exec, RowsOK'
    PROVE  RInv'
<1>1. JobsOK /\ exec \in [Workers -> Activity] /\ TriesAreLeft /\ DeliveriesAreActive
  BY InvParts
<1>2. 0 \in 0..Tries /\ 0 < Tries
  BY RenderingAssumption
<1>3. JobsOK' /\ \A i \in JobIds : jobs'[i] = jobs[i]
                    \/ (jobs[i].state = "absent" /\ jobs'[i].tries = 0)
  BY <1>1, <1>2 DEF JobsOK, Added
<1>4. TriesAreLeft'
  BY <1>1, <1>2, <1>3 DEF TriesAreLeft
<1>5. DeliveriesAreActive'
  BY <1>1, <1>3 DEF DeliveriesAreActive, Activity
<1>6. QED
  BY <1>1, <1>3, <1>4, <1>5, InvPartsNext

\* The queue learns how the delivery by w ended: it is attached to its job no more.
LEMMA AnsweringKeepsInv ==
    ASSUME RInv, NEW w \in Workers, exec[w].attached, exec' \in [Workers -> Activity],
           ~exec'[w].attached,
           \A v \in Workers \ {w} :
               exec'[v].attached => exec[v].attached /\ exec'[v].job = exec[v].job,
           NEW new, jobs' = [jobs EXCEPT ![exec[w].job] = new],
           new \in [state : {"absent", "waiting", "active", "completed", "failed"},
                    tries : 0..Tries, formats : SUBSET Formats],
           new.state \notin {"completed", "failed"} => new.tries < Tries,
           RowsOK'
    PROVE  RInv'
<1>1. JobsOK /\ exec \in [Workers -> Activity] /\ TriesAreLeft /\ DeliveriesAreActive
  BY InvParts
<1>2. exec[w].job \in JobIds
  BY <1>1 DEF Activity
<1>3. JobsOK' /\ jobs'[exec[w].job] = new
  BY <1>1, <1>2 DEF JobsOK
<1>4. TriesAreLeft'
  BY <1>1, <1>2, <1>3 DEF JobsOK, TriesAreLeft
<1>5. \A v \in Workers : exec'[v].attached =>
         exec[v].attached /\ exec'[v].job = exec[v].job /\ exec[v].job # exec[w].job
  BY <1>1 DEF DeliveriesAreActive
<1>6. \A v \in Workers : exec'[v].attached => jobs'[exec'[v].job].state = "active"
  BY <1>1, <1>2, <1>5 DEF JobsOK, DeliveriesAreActive
<1>7. DeliveriesAreActive'
  BY <1>1, <1>5, <1>6 DEF DeliveriesAreActive
<1>8. QED
  BY <1>3, <1>4, <1>7, InvPartsNext

LEMMA AfterFailureIsJobs ==
    ASSUME RInv, NEW j \in JobIds, jobs[j].state = "active"
    PROVE  \E new \in [state : {"absent", "waiting", "active", "completed", "failed"},
                       tries : 0..Tries, formats : SUBSET Formats] :
              /\ AfterFailure(j) = [jobs EXCEPT ![j] = new]
              /\ new.state = IF Exhausts(j) THEN "failed" ELSE "waiting"
              /\ new.tries = jobs[j].tries + 1 /\ new.formats = jobs[j].formats
              /\ new.state \notin {"completed", "failed"} => new.tries < Tries
<1> DEFINE new == [jobs[j] EXCEPT !.state = IF Exhausts(j) THEN "failed" ELSE "waiting",
                                  !.tries = @ + 1]
<1>1. JobsOK /\ TriesAreLeft
  BY InvParts
<1>2. jobs[j].tries \in 0..Tries /\ jobs[j].tries < Tries /\ Tries \in Nat
  BY <1>1, RenderingAssumption DEF JobsOK, TriesAreLeft
<1>3. jobs[j].tries + 1 \in 0..Tries /\ (~Exhausts(j) => jobs[j].tries + 1 < Tries)
  BY <1>2 DEF Exhausts
<1>4. new \in [state : {"absent", "waiting", "active", "completed", "failed"},
               tries : 0..Tries, formats : SUBSET Formats]
  BY <1>1, <1>3 DEF JobsOK
<1>5. /\ new.state = IF Exhausts(j) THEN "failed" ELSE "waiting"
      /\ new.tries = jobs[j].tries + 1 /\ new.formats = jobs[j].formats
  BY <1>1 DEF JobsOK
<1>6. AfterFailure(j) = [jobs EXCEPT ![j] = new]
  BY <1>1 DEF AfterFailure, JobsOK
<1> HIDE DEF new
<1>7. QED
  BY <1>3, <1>4, <1>5, <1>6

\* Worker w goes to another step, the rest of its activity is as it was.
LEMMA SteppingKeepsInv ==
    ASSUME RInv, NEW w \in Workers, NEW pc \in Pcs, Steps(w, pc), UNCHANGED jobs, RowsOK'
    PROVE  RInv'
<1> DEFINE me == [exec[w] EXCEPT !.pc = pc]
<1>1. exec[w] \in Activity
  BY InvParts
<1>2. me \in Activity /\ me.attached = exec[w].attached /\ me.job = exec[w].job
  BY <1>1 DEF Activity
<1>3. exec' = [exec EXCEPT ![w] = me]
  BY DEF Steps, Go
<1> HIDE DEF me
<1>4. QED
  BY <1>2, <1>3, StepKeepsInv

LEMMA FailingFormatKeepsInv ==
    ASSUME RInv, NEW w \in Workers, FailsFormat(w), UNCHANGED jobs, RowsOK'
    PROVE  RInv'
<1> DEFINE me == [exec[w] EXCEPT !.pc = "release", !.ok = FALSE]
<1>1. exec[w] \in Activity
  BY InvParts
<1>2. me \in Activity /\ me.attached = exec[w].attached /\ me.job = exec[w].job
  BY <1>1 DEF Activity, Pcs, LockedPcs, ExportPcs
<1>3. exec' = [exec EXCEPT ![w] = me]
  BY DEF FailsFormat, Go
<1> HIDE DEF me
<1>4. QED
  BY <1>2, <1>3, StepKeepsInv

LEMMA QaKeepsInv ==
    ASSUME RInv, Qa \/ QaCallFails
    PROVE  RInv'
<1>1. RowsOK
  BY InvParts
<1>2. CASE QaReads
  BY <1>1, <1>2, RowStepKeepsInv DEF QaReads, RowsOK
<1>3. CASE QaWrites
  <2>1. [qa.copy EXCEPT !.stage = "FINAL_QA_RUNNING"] \in App
    BY <1>1 DEF RowsOK, App
  <2>2. RowsOK'
    BY <1>1, <1>3, <2>1, NoFilesIsApp DEF QaWrites, RowsOK
  <2>3. QED
    BY <1>3, <2>2, RowStepKeepsInv DEF QaWrites
<1>4. CASE QaEnqueues
  <2>1. RowsOK'
    BY <1>1, <1>4 DEF QaEnqueues, RowsOK
  <2>2. "first" \in JobIds
    BY DEF JobIds
  <2>3. QED
    BY <1>4, <2>1, <2>2, AddingKeepsInv DEF QaEnqueues
<1>5. CASE QaChecks
  BY <1>1, <1>5, RowStepKeepsInv DEF QaChecks, RowsOK
<1>6. CASE QaFinishes
  BY <1>1, <1>6, RowStepKeepsInv DEF QaFinishes, RowsOK
<1>7. CASE QaCallFails
  <2>1. RowsOK'
    BY <1>1, <1>7, NoFilesIsApp, CountsKeepType DEF QaCallFails, RowsOK
  <2>2. QED
    BY <1>7, <2>1, RowStepKeepsInv DEF QaCallFails
<1>8. QED
  BY <1>2, <1>3, <1>4, <1>5, <1>6, <1>7 DEF Qa

LEMMA LeaseStepKeepsInv ==
    ASSUME RInv, (\E w \in Workers : Heartbeat(w)) \/ (\E k \in Locks : LeaseLapses(k))
    PROVE  RInv'
<1>1. RowsOK
  BY InvParts
<1>2. CASE \E w \in Workers : Heartbeat(w)
  <2>1. PICK w \in Workers : Heartbeat(w)
    BY <1>2
  <2>2. lease' \in Leases
    BY <1>1, <2>1, RenewedIsLeases DEF Heartbeat, RowsOK
  <2>3. RowsOK'
    BY <1>1, <2>1, <2>2 DEF Heartbeat, RowsOK
  <2>4. QED
    BY <2>1, <2>3, RowStepKeepsInv DEF Heartbeat
<1>3. CASE \E k \in Locks : LeaseLapses(k)
  <2>1. PICK k \in Locks : LeaseLapses(k)
    BY <1>3
  <2>2. faults' \in [detached : 0..MaxDetached, lapses : 0..MaxLapses,
                     crashes : 0..MaxCrashes, failures : 0..MaxFailures]
    <3>1. CASE UNCHANGED faults
      BY <1>1, <3>1 DEF RowsOK
    <3>2. CASE Counts("lapses", MaxLapses)
      BY <1>1, <3>2, CountsKeepType
    <3>3. QED
      BY <2>1, <3>1, <3>2 DEF LeaseLapses
  <2>3. lease' \in Leases
    BY <1>1, <2>1, RenewedIsLeases DEF LeaseLapses, RowsOK
  <2>4. RowsOK'
    BY <1>1, <2>1, <2>2, <2>3 DEF LeaseLapses, RowsOK
  <2>5. QED
    BY <2>1, <2>4, RowStepKeepsInv DEF LeaseLapses
<1>4. QED
  BY <1>2, <1>3

LEMMA DeliverKeepsInv ==
    ASSUME RInv, NEW w \in Workers, NEW j \in JobIds, Deliver(w, j)
    PROVE  RInv'
<1> DEFINE me == [Idle EXCEPT !.pc = "lock", !.job = j, !.attached = TRUE]
<1>1. RowsOK /\ JobsOK /\ exec \in [Workers -> Activity] /\ TriesAreLeft /\ DeliveriesAreActive
  BY InvParts
<1>2. me \in Activity /\ me.job = j /\ me.attached = TRUE
  BY IdleIsActivity DEF Activity, Pcs
<1>3. exec' = [exec EXCEPT ![w] = me]
  BY DEF Deliver, Go
<1> HIDE DEF me
<1>4. RowsOK'
  BY <1>1 DEF Deliver, RowsOK
<1>5. JobsOK' /\ TriesAreLeft' /\ jobs'[j].state = "active"
      /\ \A i \in JobIds \ {j} : jobs'[i] = jobs[i]
  BY <1>1 DEF Deliver, JobsOK, TriesAreLeft
<1>6. \A v \in Workers \ {w} : exec'[v] = exec[v] /\ (exec[v].attached => exec[v].job # j)
  BY <1>1, <1>3 DEF Deliver, DeliveriesAreActive
<1>7. exec'[w] = me
  BY <1>1, <1>3
<1>8. DeliveriesAreActive'
  <2>1. \A v \in Workers : exec'[v].attached => jobs'[exec'[v].job].state = "active"
    BY <1>1, <1>2, <1>5, <1>6, <1>7 DEF DeliveriesAreActive, Activity
  <2>2. \A u, v \in Workers :
           exec'[u].attached /\ exec'[v].attached /\ exec'[u].job = exec'[v].job => u = v
    BY <1>1, <1>2, <1>6, <1>7 DEF DeliveriesAreActive
  <2>3. QED
    BY <2>1, <2>2 DEF DeliveriesAreActive
<1>9. exec' \in [Workers -> Activity]
  BY <1>1, <1>2, <1>3
<1>10. QED
  BY <1>4, <1>5, <1>8, <1>9, InvPartsNext

LEMMA ExportKeepsInv ==
    ASSUME RInv, NEW w \in Workers, Export(w)
    PROVE  RInv'
<1>1. /\ RowsOK /\ exec[w] \in Activity /\ JobsOK
      /\ Current(w) \in Formats /\ Current(w) \in Locks
  BY InvParts, CurrentIsFormat, FormatsAreLocks
<1>2. \A ok \in BOOLEAN : /\ Next1(w, ok) \in Activity
                          /\ Next1(w, ok).job = exec[w].job
                          /\ Next1(w, ok).attached = exec[w].attached
  BY <1>1, Next1IsActivity
<1>3. \A ok \in BOOLEAN : Go(w, Next1(w, ok)) /\ UNCHANGED jobs /\ RowsOK' => RInv'
  BY <1>2, StepKeepsInv DEF Go
<1>4. CASE ClaimFormat(w)
  <2>0. lease' \in Leases
    <3>1. CASE Claimable(Current(w))
      BY <1>1, <1>4, <3>1, ClaimedIsLeases DEF ClaimFormat, RowsOK
    <3>2. CASE ~Claimable(Current(w))
      BY <1>1, <1>4, <3>2 DEF ClaimFormat, RowsOK
    <3>3. QED
      BY <3>1, <3>2
  <2>1. RowsOK' /\ UNCHANGED jobs
    BY <1>1, <1>4, <2>0 DEF ClaimFormat, RowsOK
  <2>2. CASE Steps(w, "lookup")
    BY <2>1, <2>2, SteppingKeepsInv DEF Pcs, LockedPcs, ExportPcs
  <2>3. CASE Go(w, Next1(w, FALSE))
    BY <1>3, <2>1, <2>3
  <2>4. QED
    BY <1>4, <2>2, <2>3 DEF ClaimFormat
<1>5. CASE LookUp(w)
  <2> DEFINE me == [exec[w] EXCEPT !.pc = IF record[Current(w)] = "none" THEN "render" ELSE "head",
                                   !.sum = record[Current(w)]]
  <2>1. record[Current(w)] \in Bytes \cup {"none"}
    BY <1>1 DEF RowsOK
  <2>2. me \in Activity /\ me.attached = exec[w].attached /\ me.job = exec[w].job
    BY <1>1, <2>1 DEF Activity, Pcs, LockedPcs, ExportPcs
  <2>3. exec' = [exec EXCEPT ![w] = me] /\ RowsOK' /\ UNCHANGED jobs
    BY <1>1, <1>5 DEF LookUp, Go, RowsOK
  <2> HIDE DEF me
  <2>4. QED
    BY <2>2, <2>3, StepKeepsInv
<1>6. CASE Head(w)
  <2>1. RowsOK' /\ UNCHANGED jobs
    BY <1>1, <1>6 DEF Head, RowsOK
  <2>2. QED
    BY <1>6, <2>1, SteppingKeepsInv DEF Head, Pcs, LockedPcs, ExportPcs
<1>7. CASE Render(w)
  <2>1. RowsOK' /\ UNCHANGED jobs
    BY <1>1, <1>7 DEF Render, RowsOK
  <2>2. CASE FailsFormat(w)
    BY <2>1, <2>2, FailingFormatKeepsInv
  <2>3. CASE \E b \in Bytes : Go(w, [exec[w] EXCEPT !.pc = "record", !.sum = b])
    <3>1. PICK b \in Bytes : Go(w, [exec[w] EXCEPT !.pc = "record", !.sum = b])
      BY <2>3
    <3> DEFINE me == [exec[w] EXCEPT !.pc = "record", !.sum = b]
    <3>2. me \in Activity /\ me.attached = exec[w].attached /\ me.job = exec[w].job
      BY <1>1 DEF Activity, Pcs, LockedPcs, ExportPcs
    <3>3. exec' = [exec EXCEPT ![w] = me]
      BY <3>1 DEF Go
    <3> HIDE DEF me
    <3>4. QED
      BY <2>1, <3>2, <3>3, StepKeepsInv
  <2>4. QED
    BY <1>7, <2>2, <2>3 DEF Render
<1>8. CASE Record(w)
  <2>1. exec[w].sum \in Bytes \cup {"none"}
    BY <1>1 DEF Activity
  <2>2. RowsOK' /\ UNCHANGED jobs
    BY <1>1, <1>8, <2>1 DEF Record, RowsOK
  <2>3. CASE Steps(w, "upload")
    BY <2>2, <2>3, SteppingKeepsInv DEF Pcs, LockedPcs, ExportPcs
  <2>4. CASE FailsFormat(w)
    BY <2>2, <2>4, FailingFormatKeepsInv
  <2>5. QED
    BY <1>8, <2>3, <2>4 DEF Record
<1>9. CASE Upload(w)
  <2>1. exec[w].sum \in Bytes \cup {"none"}
    BY <1>1 DEF Activity
  <2>2. RowsOK' /\ UNCHANGED jobs
    BY <1>1, <1>9, <2>1 DEF Upload, RowsOK
  <2>3. QED
    BY <1>9, <2>2, SteppingKeepsInv DEF Upload, Pcs, LockedPcs, ExportPcs
<1>10. CASE Verify(w)
  <2>1. RowsOK' /\ UNCHANGED jobs
    BY <1>1, <1>10 DEF Verify, RowsOK
  <2>2. CASE Steps(w, "row")
    BY <2>1, <2>2, SteppingKeepsInv DEF Pcs, LockedPcs, ExportPcs
  <2>3. CASE FailsFormat(w)
    BY <2>1, <2>3, FailingFormatKeepsInv
  <2>4. QED
    BY <1>10, <2>2, <2>3 DEF Verify
<1>11. CASE CreateRow(w)
  <2> DEFINE me == [exec[w] EXCEPT !.pc = "release", !.ok = TRUE]
  <2>1. exec[w].sum \in Bytes \cup {"none"}
    BY <1>1 DEF Activity
  <2>2. me \in Activity /\ me.attached = exec[w].attached /\ me.job = exec[w].job
    BY <1>1 DEF Activity, Pcs, LockedPcs, ExportPcs
  <2>3. exec' = [exec EXCEPT ![w] = me] /\ UNCHANGED jobs
    BY <1>11 DEF CreateRow, Go
  <2>4. RowsOK'
    BY <1>1, <1>11, <2>1 DEF CreateRow, RowsOK
  <2> HIDE DEF me
  <2>5. QED
    BY <2>2, <2>3, <2>4, StepKeepsInv
<1>12. CASE ReleaseFormat(w)
  <2>1. lease' \in Leases
    BY <1>1, <1>12, LeaseFacts DEF ReleaseFormat, RowsOK
  <2>2. RowsOK' /\ UNCHANGED jobs
    BY <1>1, <1>12, <2>1 DEF ReleaseFormat, RowsOK
  <2>3. exec[w].ok \in BOOLEAN
    BY <1>1 DEF Activity
  <2>4. QED
    BY <1>3, <1>12, <2>2, <2>3 DEF ReleaseFormat
<1>13. QED
  BY <1>4, <1>5, <1>6, <1>7, <1>8, <1>9, <1>10, <1>11, <1>12 DEF Export

LEMMA WorkKeepsInv ==
    ASSUME RInv, NEW w \in Workers, Work(w)
    PROVE  RInv'
<1>1. RowsOK /\ exec[w] \in Activity /\ JobsOK /\ exec \in [Workers -> Activity]
  BY InvParts
<1>2. exec[w].job \in JobIds /\ exec[w].keys \in SUBSET Formats /\ exec[w].errors \in SUBSET Formats
  BY <1>1 DEF Activity
<1>3. CASE Lock(w)
  <2>1. lease' \in Leases
    <3>1. CASE Claimable("publish")
      BY <1>1, <1>3, <3>1, ClaimedIsLeases DEF Lock, RowsOK
    <3>2. CASE ~Claimable("publish")
      BY <1>1, <1>3, <3>2 DEF Lock, RowsOK
    <3>3. QED
      BY <3>1, <3>2
  <2>2. RowsOK' /\ UNCHANGED jobs
    BY <1>1, <1>3, <2>1 DEF Lock, RowsOK
  <2>3. Steps(w, "open") \/ Steps(w, "rejected")
    BY <1>3 DEF Lock
  <2>4. QED
    BY <2>2, <2>3, SteppingKeepsInv DEF Pcs, LockedPcs
<1>4. CASE Open(w)
  <2> DEFINE me == [exec[w] EXCEPT !.pc = "claim", !.left = jobs[exec[w].job].formats,
                                   !.keys = app.keys, !.errors = app.errors]
  <2>1. /\ jobs[exec[w].job].formats \in SUBSET Formats
        /\ app.keys \in SUBSET Formats /\ app.errors \in SUBSET Formats
    BY <1>1, <1>2 DEF JobsOK, RowsOK, App
  <2>2. me \in Activity /\ me.attached = exec[w].attached /\ me.job = exec[w].job
    BY <1>1, <2>1 DEF Activity, Pcs, LockedPcs, ExportPcs
  <2>3. exec' = [exec EXCEPT ![w] = me] /\ RowsOK' /\ UNCHANGED jobs
    BY <1>1, <1>4 DEF Open, Go, RowsOK
  <2> HIDE DEF me
  <2>4. QED
    BY <2>2, <2>3, StepKeepsInv
<1>5. CASE Export(w)
  BY <1>5, ExportKeepsInv
<1>6. CASE AssertLease(w)
  <2> DEFINE me == [exec[w] EXCEPT !.pc = "unlock", !.ok = FALSE]
  <2>1. me \in Activity /\ me.attached = exec[w].attached /\ me.job = exec[w].job
    BY <1>1 DEF Activity, Pcs, LockedPcs
  <2>2. lease' \in Leases
    BY <1>1, <1>6, RenewedIsLeases DEF AssertLease, RowsOK
  <2>3. RowsOK' /\ UNCHANGED jobs
    BY <1>1, <1>6, <2>2 DEF AssertLease, RowsOK
  <2>4. Steps(w, "publish") \/ exec' = [exec EXCEPT ![w] = me]
    BY <1>6 DEF AssertLease, Go
  <2> HIDE DEF me
  <2>5. QED
    BY <2>1, <2>3, <2>4, StepKeepsInv, SteppingKeepsInv DEF Pcs, LockedPcs
<1>7. CASE Publish(w)
  <2> DEFINE me == [exec[w] EXCEPT !.pc = "unlock", !.ok = exec[w].failed = {}]
  <2>1. me \in Activity /\ me.attached = exec[w].attached /\ me.job = exec[w].job
    BY <1>1 DEF Activity, Pcs, LockedPcs
  <2>2. app' \in App
    BY <1>2, <1>7 DEF Publish, App
  <2>3. exec' = [exec EXCEPT ![w] = me] /\ UNCHANGED jobs
    BY <1>7 DEF Publish, Go
  <2>4. RowsOK'
    BY <1>1, <1>7, <2>2 DEF Publish, RowsOK
  <2> HIDE DEF me
  <2>5. QED
    BY <2>1, <2>3, <2>4, StepKeepsInv
<1>8. CASE Unlock(w)
  <2>1. lease' \in Leases
    BY <1>1, <1>8, LeaseFacts DEF Unlock, RowsOK
  <2>2. RowsOK' /\ UNCHANGED jobs
    BY <1>1, <1>8, <2>1 DEF Unlock, RowsOK
  <2>3. QED
    BY <1>8, <2>2, SteppingKeepsInv DEF Unlock, Pcs
<1>9. CASE Resolve(w)
  <2>1. lease' \in Leases
    BY <1>1, <1>9, LeaseFacts DEF Resolve, RowsOK
  <2>2. RowsOK' /\ exec' = [exec EXCEPT ![w] = Idle]
    BY <1>1, <1>9, <2>1 DEF Resolve, RowsOK, Go
  <2>3. CASE exec[w].attached
    <3> DEFINE new == [jobs[exec[w].job] EXCEPT !.state = "completed"]
    <3>1. /\ jobs' = [jobs EXCEPT ![exec[w].job] = new] /\ new.state = "completed"
          /\ new \in [state : {"absent", "waiting", "active", "completed", "failed"},
                      tries : 0..Tries, formats : SUBSET Formats]
      BY <1>1, <1>2, <1>9, <2>3 DEF Resolve, JobsOK
    <3> HIDE DEF new
    <3>2. /\ exec' \in [Workers -> Activity] /\ ~exec'[w].attached
          /\ \A v \in Workers \ {w} : exec'[v] = exec[v]
      BY <1>1, <2>2, IdleIsActivity
    <3>3. QED
      BY <2>2, <2>3, <3>1, <3>2, AnsweringKeepsInv
  <2>4. CASE ~exec[w].attached
    BY <1>9, <2>2, <2>4, IdleIsActivity, StepKeepsInv DEF Resolve
  <2>5. QED
    BY <2>3, <2>4
<1>10. CASE Reject(w)
  <2>1. lease' \in Leases
    BY <1>1, <1>10, LeaseFacts DEF Reject, RowsOK
  <2>2. RowsOK'
    BY <1>1, <1>10, <2>1 DEF Reject, RowsOK
  <2>3. PICK me \in Activity : ~me.attached /\ exec' = [exec EXCEPT ![w] = me]
    BY <1>2, <1>10, IdleIsActivity DEF Reject, Go
  <2>4. CASE exec[w].attached
    <3>1. jobs[exec[w].job].state = "active" /\ jobs' = AfterFailure(exec[w].job)
      BY <1>10, <2>4, InvParts DEF Reject, DeliveriesAreActive
    <3>2. PICK new \in [state : {"absent", "waiting", "active", "completed", "failed"},
                        tries : 0..Tries, formats : SUBSET Formats] :
             /\ jobs' = [jobs EXCEPT ![exec[w].job] = new]
             /\ new.state \notin {"completed", "failed"} => new.tries < Tries
      BY <1>2, <3>1, AfterFailureIsJobs
    <3>3. /\ exec' \in [Workers -> Activity] /\ ~exec'[w].attached
          /\ \A v \in Workers \ {w} : exec'[v] = exec[v]
      BY <1>1, <2>3
    <3>4. QED
      BY <2>2, <2>4, <3>2, <3>3, AnsweringKeepsInv
  <2>5. CASE ~exec[w].attached
    BY <1>10, <2>2, <2>3, <2>5, StepKeepsInv DEF Reject
  <2>6. QED
    BY <2>4, <2>5
<1>11. QED
  BY <1>3, <1>4, <1>5, <1>6, <1>7, <1>8, <1>9, <1>10 DEF Work

LEMMA ExhaustedKeepsInv ==
    ASSUME RInv, NEW w \in Workers, Exhausted(w)
    PROVE  RInv'
<1>1. RowsOK /\ exec[w] \in Activity /\ exec \in [Workers -> Activity]
  BY InvParts
<1>2. Go(w, Idle) /\ RowsOK' /\ UNCHANGED jobs => RInv'
  BY IdleIsActivity, StepKeepsInv DEF Go
<1>3. CASE GiveUp(w)
  BY <1>1, <1>3, SteppingKeepsInv DEF GiveUp, RowsOK, Pcs, HookPcs
<1>4. CASE HookChecks(w)
  <2>1. RowsOK' /\ UNCHANGED jobs
    BY <1>1, <1>4 DEF HookChecks, RowsOK
  <2>2. Steps(w, "fail") \/ Go(w, Idle)
    BY <1>4 DEF HookChecks
  <2>3. QED
    BY <1>2, <2>1, <2>2, SteppingKeepsInv DEF Pcs, HookPcs
<1>5. CASE HookFailsRun(w)
  BY <1>1, <1>5, SteppingKeepsInv DEF HookFailsRun, RowsOK, Pcs, HookPcs
<1>6. CASE HookReadsApp(w)
  <2> DEFINE me == [exec[w] EXCEPT !.pc = "mark", !.copy = app]
  <2>1. me \in Activity /\ me.attached = exec[w].attached /\ me.job = exec[w].job
    BY <1>1 DEF Activity, RowsOK, Pcs, HookPcs
  <2>2. exec' = [exec EXCEPT ![w] = me] /\ RowsOK' /\ UNCHANGED jobs
    BY <1>1, <1>6 DEF HookReadsApp, Go, RowsOK
  <2> HIDE DEF me
  <2>3. QED
    BY <2>1, <2>2, StepKeepsInv
<1>7. CASE HookMarks(w)
  <2>1. app' \in App
    BY <1>1, <1>7 DEF HookMarks, Activity, App
  <2>2. RowsOK' /\ UNCHANGED jobs
    BY <1>1, <1>7, <2>1 DEF HookMarks, RowsOK
  <2>3. QED
    BY <1>2, <1>7, <2>2 DEF HookMarks
<1>8. QED
  BY <1>3, <1>4, <1>5, <1>6, <1>7 DEF Exhausted

LEMMA WantedIsFormats == \A copy \in App : Wanted(copy) \in SUBSET Formats
BY DEF Wanted, App

LEMMA RetryKeepsInv ==
    ASSUME RInv, NEW c \in Customers, Retry(c) \/ CustomerCallFails(c)
    PROVE  RInv'
<1>1. RowsOK /\ calls[c].copy \in App /\ c \in JobIds
  BY InvParts DEF RowsOK, JobIds
<1>2. Wanted(calls[c].copy) \in SUBSET Formats
  BY <1>1, WantedIsFormats
<1>3. CASE RetryReads(c)
  <2>1. RowsOK'
    BY <1>1, <1>3 DEF RetryReads, RowsOK
  <2>2. QED
    BY <1>3, <2>1, RowStepKeepsInv DEF RetryReads
<1>4. CASE RetryEnqueues(c)
  <2>1. RowsOK'
    BY <1>1, <1>4 DEF RetryEnqueues, RowsOK
  <2>2. UNCHANGED jobs \/ jobs' = Added(c, Wanted(calls[c].copy))
    BY <1>4 DEF RetryEnqueues
  <2>3. UNCHANGED exec
    BY <1>4 DEF RetryEnqueues
  <2>4. QED
    BY <1>1, <1>2, <2>1, <2>2, <2>3, RowStepKeepsInv, AddingKeepsInv
<1>5. CASE RetryWrites(c)
  <2>1. app' \in App
    <3>1. app.stage \in {"FINAL_QA_RUNNING", "FINAL_READY", "FAILED"}
      BY <1>1 DEF RowsOK, App
    <3>2. QED
      BY <1>1, <1>2, <1>5, <3>1 DEF RetryWrites, App
  <2>2. RowsOK'
    BY <1>1, <1>5, <2>1, NoFilesIsApp DEF RetryWrites, RowsOK
  <2>3. QED
    BY <1>5, <2>2, RowStepKeepsInv DEF RetryWrites
<1>6. CASE CustomerCallFails(c)
  <2>1. faults' \in [detached : 0..MaxDetached, lapses : 0..MaxLapses,
                     crashes : 0..MaxCrashes, failures : 0..MaxFailures]
    BY <1>1, <1>6, CountsKeepType DEF CustomerCallFails
  <2>2. RowsOK'
    BY <1>1, <1>6, <2>1, NoFilesIsApp DEF CustomerCallFails, RowsOK
  <2>3. QED
    BY <1>6, <2>2, RowStepKeepsInv DEF CustomerCallFails
<1>7. QED
  BY <1>3, <1>4, <1>5, <1>6 DEF Retry

LEMMA JobTimeoutKeepsInv ==
    ASSUME RInv, NEW w \in Workers, NEW v \in Workers, JobTimeout(w, v)
    PROVE  RInv'
<1> DEFINE me == [exec[w] EXCEPT !.attached = FALSE]
<1> DEFINE j == exec[w].job
<1>1. /\ RowsOK /\ exec \in [Workers -> Activity] /\ exec[w].attached
      /\ j \in JobIds /\ jobs[j].state = "active" /\ jobs' = AfterFailure(j)
  BY InvParts DEF JobTimeout, DeliveriesAreActive, Activity
<1>2. faults' \in [detached : 0..MaxDetached, lapses : 0..MaxLapses,
                   crashes : 0..MaxCrashes, failures : 0..MaxFailures]
  BY <1>1, CountsKeepType DEF JobTimeout
<1>3. RowsOK'
  BY <1>1, <1>2 DEF JobTimeout, RowsOK
<1>4. PICK new \in [state : {"absent", "waiting", "active", "completed", "failed"},
                    tries : 0..Tries, formats : SUBSET Formats] :
         /\ jobs' = [jobs EXCEPT ![j] = new]
         /\ new.state \notin {"completed", "failed"} => new.tries < Tries
  BY <1>1, AfterFailureIsJobs
<1>5. me \in Activity /\ ~me.attached /\ Hook(j) \in Activity /\ ~Hook(j).attached
  <2>1. exec[w] \in Activity
    BY <1>1
  <2>2. me \in Activity /\ ~me.attached
    BY <2>1 DEF Activity
  <2>3. QED
    BY <1>1, <2>2, IdleIsActivity
<1>6. \/ exec' = [exec EXCEPT ![w] = me]
      \/ exec' = [exec EXCEPT ![w] = me, ![v] = Hook(j)]
  BY DEF JobTimeout
<1> HIDE DEF me, j
<1>7. /\ exec' \in [Workers -> Activity] /\ ~exec'[w].attached
      /\ \A u \in Workers \ {w} : exec'[u] = exec[u] \/ ~exec'[u].attached
  BY <1>1, <1>5, <1>6
<1>8. QED
  BY <1>1, <1>3, <1>4, <1>7, AnsweringKeepsInv DEF j

LEMMA AfterCallFailsIsActivity ==
    ASSUME RInv, NEW w \in Workers
    PROVE  /\ AfterCallFails(w) \in Activity
           /\ AfterCallFails(w).attached =>
                 exec[w].attached /\ AfterCallFails(w).job = exec[w].job
<1>1. exec[w] \in Activity
  BY InvParts
<1>2. CASE At(w, "claim") \/ At(w, "release")
  BY <1>1, <1>2, Next1IsActivity DEF AfterCallFails, At
<1>3. CASE ~At(w, "claim") /\ ~At(w, "release")
  BY <1>1, <1>3, IdleIsActivity DEF AfterCallFails, At, Activity, Pcs, LockedPcs, ExportPcs
<1>4. QED
  BY <1>2, <1>3

LEMMA FaultKeepsInv ==
    ASSUME RInv, Fault
    PROVE  RInv'
<1>1. RowsOK /\ exec \in [Workers -> Activity]
  BY InvParts
<1>2. CASE QaCallFails
  BY <1>2, QaKeepsInv
<1>3. CASE \E w, v \in Workers : JobTimeout(w, v)
  BY <1>3, JobTimeoutKeepsInv
<1>4. ASSUME NEW w \in Workers, WorkerCrash(w)
      PROVE  RInv'
  <2>1. exec[w].job \in JobIds /\ JobsOK /\ TriesAreLeft
    BY <1>1, InvParts DEF Activity
  <2>2. faults' \in [detached : 0..MaxDetached, lapses : 0..MaxLapses,
                     crashes : 0..MaxCrashes, failures : 0..MaxFailures]
    BY <1>1, <1>4, CountsKeepType DEF WorkerCrash
  <2>3. lease' \in Leases
    BY <1>1, <1>4, LeaseFacts DEF WorkerCrash, RowsOK
  <2>4. RowsOK' /\ exec' = [exec EXCEPT ![w] = Idle]
    BY <1>1, <1>4, <2>2, <2>3 DEF WorkerCrash, RowsOK, Go
  <2>5. CASE exec[w].attached
    <3> DEFINE new == [jobs[exec[w].job] EXCEPT !.state = "waiting"]
    <3>1. jobs[exec[w].job].state = "active"
      BY <2>5, InvParts DEF DeliveriesAreActive
    <3>2. /\ jobs' = [jobs EXCEPT ![exec[w].job] = new]
          /\ new \in [state : {"absent", "waiting", "active", "completed", "failed"},
                      tries : 0..Tries, formats : SUBSET Formats]
          /\ new.tries < Tries
      BY <1>4, <2>1, <2>5, <3>1 DEF WorkerCrash, JobsOK, TriesAreLeft
    <3> HIDE DEF new
    <3>3. /\ exec' \in [Workers -> Activity] /\ ~exec'[w].attached
          /\ \A v \in Workers \ {w} : exec'[v] = exec[v]
      BY <1>1, <2>4, IdleIsActivity
    <3>4. QED
      BY <2>4, <2>5, <3>2, <3>3, AnsweringKeepsInv
  <2>6. CASE ~exec[w].attached
    BY <1>4, <2>4, <2>6, IdleIsActivity, StepKeepsInv DEF WorkerCrash
  <2>7. QED
    BY <2>5, <2>6
<1>5. ASSUME NEW w \in Workers, CallFails(w)
      PROVE  RInv'
  <2> DEFINE me == AfterCallFails(w)
  <2>1. me \in Activity /\ (me.attached => exec[w].attached /\ me.job = exec[w].job)
    BY AfterCallFailsIsActivity
  <2>2. faults' \in [detached : 0..MaxDetached, lapses : 0..MaxLapses,
                     crashes : 0..MaxCrashes, failures : 0..MaxFailures]
    BY <1>1, <1>5, CountsKeepType DEF CallFails
  <2>3. lease' \in Leases
    BY <1>1, <1>5, LostIsLeases DEF CallFails, RowsOK
  <2>4. RowsOK' /\ exec' = [exec EXCEPT ![w] = me] /\ UNCHANGED jobs
    BY <1>1, <1>5, <2>2, <2>3 DEF CallFails, RowsOK, Go
  <2> HIDE DEF me
  <2>5. QED
    BY <2>1, <2>4, StepKeepsInv
<1>6. CASE \E c \in Customers : CustomerCallFails(c)
  BY <1>6, RetryKeepsInv
<1>7. QED
  BY <1>2, <1>3, <1>4, <1>5, <1>6 DEF Fault

LEMMA InvHoldsInitially == Init => RInv
<1> SUFFICES ASSUME Init
             PROVE  RInv
  OBVIOUS
<1>1. 0 \in 0..Tries /\ 0 < Tries
  BY RenderingAssumption
<1>2. faults \in [detached : 0..MaxDetached, lapses : 0..MaxLapses, crashes : 0..MaxCrashes,
                  failures : 0..MaxFailures]
  BY RenderingAssumption DEF Init
<1>3. lease \in Leases
  BY DEF Init, Leases, Free
<1>4. RowsOK
  BY <1>2, <1>3, NoFilesIsApp DEF Init, RowsOK
<1>5. JobsOK /\ TriesAreLeft
  BY <1>1 DEF Init, JobsOK, TriesAreLeft
<1>6. exec \in [Workers -> Activity] /\ DeliveriesAreActive
  BY IdleIsActivity DEF Init, DeliveriesAreActive
<1>7. QED
  BY <1>4, <1>5, <1>6, InvParts

LEMMA NextKeepsInv == RInv /\ [RNext]_vars => RInv'
<1> SUFFICES ASSUME RInv, [RNext]_vars
             PROVE  RInv'
  OBVIOUS
<1>1. CASE Qa
  BY <1>1, QaKeepsInv
<1>2. CASE \E w \in Workers, j \in JobIds : Deliver(w, j)
  BY <1>2, DeliverKeepsInv
<1>3. CASE \E w \in Workers : Work(w)
  BY <1>3, WorkKeepsInv
<1>4. CASE \E w \in Workers : Exhausted(w)
  BY <1>4, ExhaustedKeepsInv
<1>5. CASE (\E w \in Workers : Heartbeat(w)) \/ (\E k \in Locks : LeaseLapses(k))
  BY <1>5, LeaseStepKeepsInv
<1>6. CASE \E c \in Customers : Retry(c)
  BY <1>6, RetryKeepsInv
<1>7. CASE Fault
  BY <1>7, FaultKeepsInv
<1>8. CASE UNCHANGED vars
  BY <1>8 DEF vars, RInv, RTypeOK, TriesAreLeft, DeliveriesAreActive
<1>9. QED
  BY <1>1, <1>2, <1>3, <1>4, <1>5, <1>6, <1>7, <1>8 DEF RNext

LEMMA InvHolds == RSpec => []RInv
BY InvHoldsInitially, NextKeepsInv, PTL DEF RSpec

\* Every variable of the rendering model keeps its type: in particular no job is delivered more
\* often than its tries allow, and the fault budgets are never exceeded.
THEOREM RenderingTypeCorrect == RSpec => []RTypeOK
BY InvHolds, PTL DEF RInv

-----------------------------------------------------------------------------
(* The leases.                                                              *)

\* No kind of fault is ever undone.
LEMMA FaultsOnlyGrow ==
    ASSUME RInv, [RNext]_vars
    PROVE  /\ faults'.lapses = 0 => faults.lapses = 0
           /\ faults'.failures = 0 => faults.failures = 0
           /\ faults'.crashes = 0 => faults.crashes = 0
<1>1. RowsOK /\ faults \in [detached : 0..MaxDetached, lapses : 0..MaxLapses,
                            crashes : 0..MaxCrashes, failures : 0..MaxFailures]
  BY InvParts DEF RowsOK
<1>2. CASE UNCHANGED faults
  BY <1>2
<1>3. ASSUME NEW kind, NEW bound, Counts(kind, bound),
             \/ kind = "detached" /\ bound = MaxDetached
             \/ kind = "lapses" /\ bound = MaxLapses
             \/ kind = "crashes" /\ bound = MaxCrashes
             \/ kind = "failures" /\ bound = MaxFailures
      PROVE  /\ faults'.lapses = 0 => faults.lapses = 0
             /\ faults'.failures = 0 => faults.failures = 0
             /\ faults'.crashes = 0 => faults.crashes = 0
  <2>1. /\ faults'.lapses = faults.lapses \/ faults'.lapses > 0
        /\ faults'.failures = faults.failures \/ faults'.failures > 0
        /\ faults'.crashes = faults.crashes \/ faults'.crashes > 0
    BY <1>1, <1>3, CountsKeepType
  <2>2. QED
    BY <2>1
<1>4. CASE Fault
  <2>1. \/ Counts("detached", MaxDetached) \/ Counts("crashes", MaxCrashes)
        \/ Counts("failures", MaxFailures)
    BY <1>4 DEF Fault, QaCallFails, JobTimeout, WorkerCrash, CallFails, CustomerCallFails
  <2>2. QED
    BY <1>3, <2>1
<1>5. CASE \E k \in Locks : LeaseLapses(k)
  <2>1. UNCHANGED faults \/ Counts("lapses", MaxLapses)
    BY <1>5 DEF LeaseLapses
  <2>2. QED
    BY <1>2, <1>3, <2>1
<1>6. CASE Qa \/ \E w \in Workers, j \in JobIds : Deliver(w, j)
  BY <1>2, <1>6 DEF Qa, QaReads, QaWrites, QaEnqueues, QaChecks, QaFinishes, Deliver
<1>7. CASE \E w \in Workers : Work(w)
  BY <1>2, <1>7
  DEF Work, Lock, Open, Export, AssertLease, Publish, Unlock, Resolve, Reject, ClaimFormat, LookUp,
      Head, Render, Record, Upload, Verify, CreateRow, ReleaseFormat
<1>8. CASE \E w \in Workers : Exhausted(w) \/ Heartbeat(w)
  BY <1>2, <1>8 DEF Exhausted, Heartbeat, GiveUp, HookChecks, HookFailsRun, HookReadsApp, HookMarks
<1>9. CASE \E c \in Customers : Retry(c)
  BY <1>2, <1>9 DEF Retry, RetryReads, RetryEnqueues, RetryWrites
<1>10. QED
  BY <1>2, <1>4, <1>5, <1>6, <1>7, <1>8, <1>9 DEF RNext, vars

LEMMA CurrentIsFormatOf == \A w : Current(w) = FormatOf(exec[w])
BY DEF Current, FormatOf

\* A lease that can be claimed has no live holder.
LEMMA ClaimableIsFree ==
    ASSUME RInv, NoneIsLost(lease), NEW k \in Locks, Claimable(k)
    PROVE  lease[k].holder \notin Workers
BY RenderingAssumption DEF NoneIsLost, Claimable

\* Worker w becomes me, and takes no lease from another one.
LEMMA StepKeepsLeases ==
    ASSUME RInv, LeasesAreHeld, NEW w \in Workers, NEW me,
           exec' = [exec EXCEPT ![w] = me],
           faults'.lapses = 0 => faults.lapses = 0,
           NoneIsLost(lease) /\ HasLeases(w, exec[w], lease) =>
               /\ NoneIsLost(lease')
               /\ HasLeases(w, me, lease')
               /\ \A v \in Workers \ {w}, k \in Locks :
                     lease[k].holder = v => lease'[k].holder = v
    PROVE  LeasesAreHeld'
<1> SUFFICES ASSUME faults'.lapses = 0
             PROVE  NoneIsLost(lease') /\ \A v \in Workers : HasLeases(v, exec'[v], lease')
  BY DEF LeasesAreHeld
<1>1. /\ NoneIsLost(lease) /\ \A v \in Workers : HasLeases(v, exec[v], lease)
      /\ exec \in [Workers -> Activity]
  BY InvParts DEF LeasesAreHeld
<1>2. ASSUME NEW v \in Workers \ {w}
      PROVE  HasLeases(v, exec'[v], lease')
  <2>1. exec'[v] = exec[v] /\ HasLeases(v, exec[v], lease)
    BY <1>1
  <2>2. FormatOf(exec[v]) \in Locks /\ "publish" \in Locks
    BY DEF FormatOf, Locks, Formats
  <2>3. QED
    BY <1>1, <2>1, <2>2 DEF HasLeases
<1>3. HasLeases(w, exec'[w], lease')
  BY <1>1
<1>4. QED
  BY <1>1, <1>2, <1>3

\* The steps that leave the leases alone.
LEMMA QuietStepKeepsLeases ==
    ASSUME RInv, LeasesAreHeld, NEW w \in Workers, NEW me,
           exec' = [exec EXCEPT ![w] = me], UNCHANGED lease,
           faults'.lapses = 0 => faults.lapses = 0,
           \/ me.pc \notin LockedPcs
           \/ exec[w].pc \in LockedPcs /\ me.pc \in LockedPcs \ ExportPcs
           \/ exec[w].pc \in LockedPcs /\ me.pc = "claim"
           \/ exec[w].pc \in ExportPcs \ {"claim"} /\ me.left = exec[w].left
    PROVE  LeasesAreHeld'
<1>1. HasLeases(w, exec[w], lease) => HasLeases(w, me, lease)
  BY DEF HasLeases, FormatOf, LockedPcs
<1>2. QED
  BY <1>1, StepKeepsLeases

LEMMA RowStepKeepsLeases ==
    ASSUME LeasesAreHeld, UNCHANGED <<exec, lease>>, faults'.lapses = 0 => faults.lapses = 0
    PROVE  LeasesAreHeld'
BY DEF LeasesAreHeld

\* Worker w claims lease k.
LEMMA ClaimingKeepsLeases ==
    ASSUME RInv, LeasesAreHeld, NEW w \in Workers, NEW me, NEW k \in Locks, Claimable(k),
           lease' = [lease EXCEPT ![k] = [holder |-> w, lapsed |-> FALSE]],
           exec' = [exec EXCEPT ![w] = me],
           faults'.lapses = 0 => faults.lapses = 0,
           \/ me.pc \in LockedPcs \ ExportPcs /\ k = "publish"
           \/ me.pc \in ExportPcs /\ exec[w].pc \in LockedPcs /\ k = FormatOf(me)
    PROVE  LeasesAreHeld'
<1>1. lease \in Leases
  BY InvParts DEF RowsOK
<1>2. lease'[k].holder = w /\ ~lease'[k].lapsed /\ \A i \in Locks \ {k} : lease'[i] = lease[i]
  BY <1>1 DEF Leases
<1>3. NoneIsLost(lease) => lease[k].holder \notin Workers
  BY ClaimableIsFree
<1>4. NoneIsLost(lease) => NoneIsLost(lease')
  BY <1>2 DEF NoneIsLost
<1>5. HasLeases(w, exec[w], lease) => HasLeases(w, me, lease')
  <2>1. "publish" \in Locks /\ FormatOf(me) \in Locks
    BY DEF FormatOf, Locks, Formats
  <2>2. QED
    BY <1>2, <2>1 DEF HasLeases
<1>6. NoneIsLost(lease) => \A v \in Workers \ {w}, i \in Locks :
                              lease[i].holder = v => lease'[i].holder = v
  BY <1>2, <1>3
<1>7. QED
  BY <1>4, <1>5, <1>6, StepKeepsLeases

\* Worker w gives up leases of its own, and needs none of them any more.
LEMMA GivingUpKeepsLeases ==
    ASSUME RInv, LeasesAreHeld, NEW w \in Workers, NEW me,
           exec' = [exec EXCEPT ![w] = me],
           faults'.lapses = 0 => faults.lapses = 0,
           \A k \in Locks :
               lease'[k] = lease[k] \/ (lease[k].holder = w /\ lease'[k].holder \notin Workers),
           \/ me.pc \notin LockedPcs
           \/ /\ me.pc \in (LockedPcs \ ExportPcs) \cup {"claim"} /\ exec[w].pc \in LockedPcs
              /\ lease'["publish"] = lease["publish"]
    PROVE  LeasesAreHeld'
<1>1. NoneIsLost(lease) => NoneIsLost(lease')
  BY DEF NoneIsLost
<1>2. HasLeases(w, exec[w], lease) => HasLeases(w, me, lease')
  BY DEF HasLeases, LockedPcs
<1>3. \A v \in Workers \ {w}, k \in Locks : lease[k].holder = v => lease'[k].holder = v
  OBVIOUS
<1>4. QED
  BY <1>1, <1>2, <1>3, StepKeepsLeases

LEMMA GivenUp ==
    ASSUME RInv, NEW w \in Workers, NEW k \in Locks,
           \/ lease' = Released(w, k)
           \/ lease' = [lease EXCEPT ![k].holder = "gone"] /\ lease[k].holder = w
           \/ lease' = lease
    PROVE  /\ \A i \in Locks :
                 lease'[i] = lease[i] \/ (lease[i].holder = w /\ lease'[i].holder \notin Workers)
           /\ \A i \in Locks \ {k} : lease'[i] = lease[i]
BY InvParts, RenderingAssumption DEF RowsOK, Leases, Released, Held, Free

LEMMA Orphans ==
    ASSUME RInv, NEW w \in Workers, lease' = Orphaned({w})
    PROVE  \A i \in Locks :
              lease'[i] = lease[i] \/ (lease[i].holder = w /\ lease'[i].holder \notin Workers)
BY InvParts, RenderingAssumption DEF RowsOK, Leases, Orphaned

LEMMA ExportKeepsLeases ==
    ASSUME RInv, LeasesAreHeld, NEW w \in Workers, Export(w)
    PROVE  LeasesAreHeld'
<1> DEFINE stepped(pc) == [exec[w] EXCEPT !.pc = pc]
<1> DEFINE failed == [exec[w] EXCEPT !.pc = "release", !.ok = FALSE]
<1>1. exec[w] \in Activity /\ Current(w) \in Locks /\ Current(w) # "publish"
  BY InvParts, FormatsAreLocks
<1>2. /\ \A pc : stepped(pc).pc = pc /\ stepped(pc).left = exec[w].left
      /\ failed.pc = "release" /\ failed.left = exec[w].left
  BY <1>1 DEF Activity
<1>3. \A pc : Steps(w, pc) => exec' = [exec EXCEPT ![w] = stepped(pc)]
  BY DEF Steps, Go
<1>4. FailsFormat(w) => exec' = [exec EXCEPT ![w] = failed]
  BY DEF FailsFormat, Go
<1> HIDE DEF stepped, failed
<1>5. \A ok \in BOOLEAN : Next1(w, ok).pc \in (LockedPcs \ ExportPcs) \cup {"claim"}
  <2> TAKE ok \in BOOLEAN
  <2>1. Next1(w, ok).pc \in {"assert", "claim"}
    BY <1>1, Next1IsActivity
  <2>2. QED
    BY <2>1 DEF LockedPcs, ExportPcs
<1>6. UNCHANGED faults
  BY DEF Export, ClaimFormat, LookUp, Head, Render, Record, Upload, Verify, CreateRow,
         ReleaseFormat
<1>7. CASE ClaimFormat(w)
  <2>1. CASE Claimable(Current(w))
    <3>1. /\ lease' = [lease EXCEPT ![Current(w)] = [holder |-> w, lapsed |-> FALSE]]
          /\ exec' = [exec EXCEPT ![w] = stepped("lookup")]
          /\ exec[w].pc = "claim"
      BY <1>3, <1>7, <2>1 DEF ClaimFormat, At
    <3>2. Current(w) = FormatOf(stepped("lookup"))
      BY <1>2 DEF Current, FormatOf
    <3>3. exec[w].pc \in LockedPcs /\ stepped("lookup").pc \in ExportPcs
      BY <1>2, <3>1 DEF LockedPcs, ExportPcs
    <3>4. QED
      BY <1>1, <1>6, <2>1, <3>1, <3>2, <3>3, ClaimingKeepsLeases
  <2>2. CASE ~Claimable(Current(w))
    <3>1. UNCHANGED lease /\ exec' = [exec EXCEPT ![w] = Next1(w, FALSE)] /\ exec[w].pc = "claim"
      BY <1>7, <2>2 DEF ClaimFormat, Go, At
    <3>2. exec[w].pc \in LockedPcs
      BY <3>1 DEF LockedPcs, ExportPcs
    <3>3. QED
      BY <1>5, <1>6, <3>1, <3>2, QuietStepKeepsLeases
  <2>3. QED
    BY <2>1, <2>2
<1>8. CASE LookUp(w)
  <2> DEFINE me == [exec[w] EXCEPT !.pc = IF record[Current(w)] = "none" THEN "render" ELSE "head",
                                   !.sum = record[Current(w)]]
  <2>1. me.pc \in ExportPcs \ {"claim"} /\ me.left = exec[w].left
    BY <1>1 DEF Activity, ExportPcs
  <2>2. exec' = [exec EXCEPT ![w] = me] /\ UNCHANGED lease /\ exec[w].pc \in ExportPcs \ {"claim"}
    BY <1>8 DEF LookUp, Go, At, ExportPcs
  <2> HIDE DEF me
  <2>3. QED
    BY <1>6, <2>1, <2>2, QuietStepKeepsLeases
<1>9. CASE Render(w)
  <2>1. UNCHANGED lease /\ exec[w].pc \in ExportPcs \ {"claim"}
    BY <1>9 DEF Render, At, ExportPcs
  <2>2. CASE FailsFormat(w)
    BY <1>2, <1>4, <1>6, <2>1, <2>2, QuietStepKeepsLeases
  <2>3. CASE \E b \in Bytes : Go(w, [exec[w] EXCEPT !.pc = "record", !.sum = b])
    <3>1. PICK b \in Bytes : Go(w, [exec[w] EXCEPT !.pc = "record", !.sum = b])
      BY <2>3
    <3> DEFINE me == [exec[w] EXCEPT !.pc = "record", !.sum = b]
    <3>2. me.left = exec[w].left
      BY <1>1 DEF Activity
    <3>3. exec' = [exec EXCEPT ![w] = me]
      BY <3>1 DEF Go
    <3> HIDE DEF me
    <3>4. QED
      BY <1>6, <2>1, <3>2, <3>3, QuietStepKeepsLeases
  <2>4. QED
    BY <1>9, <2>2, <2>3 DEF Render
<1>10. CASE CreateRow(w)
  <2> DEFINE me == [exec[w] EXCEPT !.pc = "release", !.ok = TRUE]
  <2>1. me.left = exec[w].left
    BY <1>1 DEF Activity
  <2>2. exec' = [exec EXCEPT ![w] = me] /\ UNCHANGED lease /\ exec[w].pc \in ExportPcs \ {"claim"}
    BY <1>10 DEF CreateRow, Go, At, ExportPcs
  <2> HIDE DEF me
  <2>3. QED
    BY <1>6, <2>1, <2>2, QuietStepKeepsLeases
<1>11. CASE Head(w) \/ Record(w) \/ Upload(w) \/ Verify(w)
  <2>1. UNCHANGED lease /\ exec[w].pc \in ExportPcs \ {"claim"}
    BY <1>11 DEF Head, Record, Upload, Verify, At, ExportPcs
  <2>2. PICK me : exec' = [exec EXCEPT ![w] = me] /\ me.left = exec[w].left
    BY <1>2, <1>3, <1>4, <1>11 DEF Head, Record, Upload, Verify
  <2>3. QED
    BY <1>6, <2>1, <2>2, QuietStepKeepsLeases
<1>12. CASE ReleaseFormat(w)
  <2>1. /\ lease' = Released(w, Current(w)) /\ exec[w].ok \in BOOLEAN
        /\ exec' = [exec EXCEPT ![w] = Next1(w, exec[w].ok)] /\ exec[w].pc \in LockedPcs
    BY <1>1, <1>12 DEF ReleaseFormat, Go, At, Activity, LockedPcs, ExportPcs
  <2>2. /\ \A i \in Locks :
              lease'[i] = lease[i] \/ (lease[i].holder = w /\ lease'[i].holder \notin Workers)
        /\ lease'["publish"] = lease["publish"]
    BY <1>1, <2>1, GivenUp, FormatsAreLocks
  <2>3. QED
    BY <1>5, <1>6, <2>1, <2>2, GivingUpKeepsLeases
<1>13. QED
  BY <1>7, <1>8, <1>9, <1>10, <1>11, <1>12 DEF Export

LEMMA WorkKeepsLeases ==
    ASSUME RInv, LeasesAreHeld, NEW w \in Workers, Work(w)
    PROVE  LeasesAreHeld'
<1> DEFINE stepped(pc) == [exec[w] EXCEPT !.pc = pc]
<1>1. exec[w] \in Activity /\ "publish" \in Locks /\ lease \in Leases
  BY InvParts, FormatsAreLocks DEF RowsOK
<1>2. \A pc : stepped(pc).pc = pc
  BY <1>1 DEF Activity
<1>3. \A pc : Steps(w, pc) => exec' = [exec EXCEPT ![w] = stepped(pc)]
  BY DEF Steps, Go
<1> HIDE DEF stepped
<1>4. CASE Lock(w)
  <2>1. UNCHANGED faults
    BY <1>4 DEF Lock
  <2>2. CASE Claimable("publish")
    <3>1. /\ lease' = [lease EXCEPT !["publish"] = [holder |-> w, lapsed |-> FALSE]]
          /\ exec' = [exec EXCEPT ![w] = stepped("open")]
      BY <1>3, <1>4, <2>2 DEF Lock
    <3>2. stepped("open").pc \in LockedPcs \ ExportPcs
      BY <1>2 DEF LockedPcs, ExportPcs
    <3>3. QED
      BY <1>1, <2>1, <2>2, <3>1, <3>2, ClaimingKeepsLeases
  <2>3. CASE ~Claimable("publish")
    <3>1. UNCHANGED lease /\ exec' = [exec EXCEPT ![w] = stepped("rejected")]
      BY <1>3, <1>4, <2>3 DEF Lock
    <3>2. stepped("rejected").pc \notin LockedPcs
      BY <1>2 DEF LockedPcs, ExportPcs
    <3>3. QED
      BY <2>1, <3>1, <3>2, QuietStepKeepsLeases
  <2>4. QED
    BY <2>2, <2>3
<1>5. CASE Open(w)
  <2> DEFINE me == [exec[w] EXCEPT !.pc = "claim", !.left = jobs[exec[w].job].formats,
                                   !.keys = app.keys, !.errors = app.errors]
  <2>1. me.pc = "claim"
    BY <1>1 DEF Activity
  <2>2. /\ exec' = [exec EXCEPT ![w] = me] /\ UNCHANGED <<lease, faults>>
        /\ exec[w].pc \in LockedPcs
    BY <1>5 DEF Open, Go, At, LockedPcs
  <2> HIDE DEF me
  <2>3. QED
    BY <2>1, <2>2, QuietStepKeepsLeases
<1>6. CASE Export(w)
  BY <1>6, ExportKeepsLeases
<1>7. CASE AssertLease(w)
  <2> DEFINE me == [exec[w] EXCEPT !.pc = "unlock", !.ok = FALSE]
  <2>1. /\ me.pc = "unlock" /\ exec[w].pc = "assert"
        /\ exec' = [exec EXCEPT ![w] = stepped("publish")] \/ exec' = [exec EXCEPT ![w] = me]
    BY <1>1, <1>3, <1>7 DEF AssertLease, Go, At, Activity
  <2> HIDE DEF me
  <2>2. PICK new : new.pc \in {"publish", "unlock"} /\ exec' = [exec EXCEPT ![w] = new]
    BY <1>2, <2>1
  <2>3. new.pc \in LockedPcs \ ExportPcs /\ exec[w].pc \in LockedPcs
    BY <2>1, <2>2 DEF LockedPcs, ExportPcs
  <2>4. /\ \A k \in Locks : lease'[k].holder = lease[k].holder
        /\ \A k \in Locks : lease'[k].lapsed => lease[k].lapsed
    BY <1>1, <1>7 DEF AssertLease, Leases
  <2>5. NoneIsLost(lease) /\ HasLeases(w, exec[w], lease) =>
            NoneIsLost(lease') /\ HasLeases(w, new, lease')
    BY <1>1, <2>3, <2>4 DEF NoneIsLost, HasLeases
  <2>6. UNCHANGED faults
    BY <1>7 DEF AssertLease
  <2>7. QED
    BY <2>2, <2>4, <2>5, <2>6, StepKeepsLeases
<1>8. CASE Publish(w)
  <2> DEFINE me == [exec[w] EXCEPT !.pc = "unlock", !.ok = exec[w].failed = {}]
  <2>1. me.pc \in LockedPcs \ ExportPcs
    BY <1>1 DEF Activity, LockedPcs, ExportPcs
  <2>2. /\ exec' = [exec EXCEPT ![w] = me] /\ UNCHANGED <<lease, faults>>
        /\ exec[w].pc \in LockedPcs
    BY <1>8 DEF Publish, Go, At, LockedPcs
  <2> HIDE DEF me
  <2>3. QED
    BY <2>1, <2>2, QuietStepKeepsLeases
<1>9. CASE Unlock(w)
  <2>1. PICK pc \in {"resolved", "rejected"} : Steps(w, pc)
    BY <1>9 DEF Unlock
  <2>2. exec' = [exec EXCEPT ![w] = stepped(pc)] /\ stepped(pc).pc \notin LockedPcs
    BY <1>2, <1>3, <2>1 DEF LockedPcs, ExportPcs
  <2>3. lease' = Released(w, "publish") /\ UNCHANGED faults
    BY <1>9 DEF Unlock
  <2>4. QED
    BY <1>1, <2>2, <2>3, GivenUp, GivingUpKeepsLeases
<1>10. CASE Resolve(w) \/ Reject(w)
  <2>1. exec[w].job \in JobIds
    BY <1>1 DEF Activity
  <2>2. PICK me : me.pc \in {"idle", "giveup"} /\ exec' = [exec EXCEPT ![w] = me]
    BY <1>10, <2>1, IdleIsActivity DEF Resolve, Reject, Go
  <2>3. lease' = Orphaned({w}) /\ UNCHANGED faults
    BY <1>10 DEF Resolve, Reject
  <2>4. me.pc \notin LockedPcs
    BY <2>2 DEF LockedPcs, ExportPcs
  <2>5. QED
    BY <2>2, <2>3, <2>4, Orphans, GivingUpKeepsLeases
<1>11. QED
  BY <1>4, <1>5, <1>6, <1>7, <1>8, <1>9, <1>10 DEF Work

LEMMA ExhaustedKeepsLeases ==
    ASSUME RInv, LeasesAreHeld, NEW w \in Workers, Exhausted(w)
    PROVE  LeasesAreHeld'
<1>1. exec[w] \in Activity /\ Idle.pc = "idle"
  BY InvParts, IdleIsActivity
<1>2. \A pc : [exec[w] EXCEPT !.pc = pc].pc = pc
  BY <1>1 DEF Activity
<1>3. [exec[w] EXCEPT !.pc = "mark", !.copy = app].pc = "mark"
  BY <1>1 DEF Activity
<1>4. PICK me : me.pc \in HookPcs \cup {"idle"} /\ exec' = [exec EXCEPT ![w] = me]
  <2>1. CASE GiveUp(w)
    <3>1. PICK pc \in {"reread", "check"} : Steps(w, pc)
      BY <2>1 DEF GiveUp
    <3>2. QED
      BY <1>2, <3>1 DEF Steps, Go, HookPcs
  <2>2. CASE HookChecks(w)
    BY <1>1, <1>2, <2>2 DEF HookChecks, Steps, Go, HookPcs
  <2>3. CASE HookFailsRun(w)
    BY <1>2, <2>3 DEF HookFailsRun, Steps, Go, HookPcs
  <2>4. CASE HookReadsApp(w)
    BY <1>3, <2>4 DEF HookReadsApp, Go, HookPcs
  <2>5. CASE HookMarks(w)
    BY <1>1, <2>5 DEF HookMarks, Go
  <2>6. QED
    BY <2>1, <2>2, <2>3, <2>4, <2>5 DEF Exhausted
<1>5. me.pc \notin LockedPcs
  BY <1>4 DEF HookPcs, LockedPcs, ExportPcs
<1>6. UNCHANGED <<lease, faults>>
  BY DEF Exhausted, GiveUp, HookChecks, HookFailsRun, HookReadsApp, HookMarks
<1>7. QED
  BY <1>4, <1>5, <1>6, QuietStepKeepsLeases

LEMMA FaultKeepsLeases ==
    ASSUME RInv, LeasesAreHeld, Fault, faults'.lapses = 0 => faults.lapses = 0
    PROVE  LeasesAreHeld'
<1>1. exec \in [Workers -> Activity] /\ lease \in Leases
  BY InvParts DEF RowsOK
<1>2. CASE QaCallFails \/ \E c \in Customers : CustomerCallFails(c)
  BY <1>2, RowStepKeepsLeases DEF QaCallFails, CustomerCallFails
<1>3. ASSUME NEW w \in Workers, NEW v \in Workers, JobTimeout(w, v)
      PROVE  LeasesAreHeld'
  <2>1. exec[w].job \in JobIds
    BY <1>1 DEF Activity
  <2>2. \A u \in Workers :
           \/ exec'[u].pc = exec[u].pc /\ exec'[u].left = exec[u].left
           \/ exec'[u].pc = "giveup"
    BY <1>1, <1>3, <2>1, IdleIsActivity DEF JobTimeout, Activity
  <2>3. \A u \in Workers : HasLeases(u, exec[u], lease) => HasLeases(u, exec'[u], lease)
    BY <2>2 DEF HasLeases, FormatOf, LockedPcs, ExportPcs
  <2>4. UNCHANGED lease
    BY <1>3 DEF JobTimeout
  <2>5. QED
    BY <2>3, <2>4 DEF LeasesAreHeld, NoneIsLost
<1>4. ASSUME NEW w \in Workers, WorkerCrash(w)
      PROVE  LeasesAreHeld'
  <2>1. exec' = [exec EXCEPT ![w] = Idle] /\ lease' = Orphaned({w})
    BY <1>4 DEF WorkerCrash, Go
  <2>2. Idle.pc \notin LockedPcs
    BY IdleIsActivity DEF LockedPcs, ExportPcs
  <2>3. QED
    BY <2>1, <2>2, Orphans, GivingUpKeepsLeases
<1>5. ASSUME NEW w \in Workers, CallFails(w)
      PROVE  LeasesAreHeld'
  <2> DEFINE me == AfterCallFails(w)
  <2>1. /\ exec' = [exec EXCEPT ![w] = me] /\ exec[w] \in Activity
        /\ Current(w) \in Locks /\ Current(w) # "publish"
    BY <1>1, <1>5, FormatsAreLocks DEF CallFails, Go
  <2>2. CASE At(w, "release")
    <3>1. me = Next1(w, FALSE)
      BY <2>2 DEF AfterCallFails, At
    <3>2. me.pc \in (LockedPcs \ ExportPcs) \cup {"claim"} /\ exec[w].pc \in LockedPcs
      <4>1. me.pc \in {"assert", "claim"}
        BY <2>1, <3>1, Next1IsActivity
      <4>2. QED
        BY <2>2, <4>1 DEF LockedPcs, ExportPcs, At
    <3> HIDE DEF me
    <3>3. \/ lease' = [lease EXCEPT ![Current(w)].holder = "gone"] /\ lease[Current(w)].holder = w
          \/ lease' = lease
      BY <1>5, <2>2 DEF CallFails, Held
    <3>4. /\ \A i \in Locks :
                lease'[i] = lease[i] \/ (lease[i].holder = w /\ lease'[i].holder \notin Workers)
          /\ lease'["publish"] = lease["publish"]
      BY <2>1, <3>3, GivenUp, FormatsAreLocks
    <3>5. QED
      BY <2>1, <3>2, <3>4, GivingUpKeepsLeases
  <2>3. CASE ~At(w, "release")
    <3>1. UNCHANGED lease
      BY <1>5, <2>3 DEF CallFails
    <3>2. \/ me.pc \notin LockedPcs
          \/ exec[w].pc \in LockedPcs /\ me.pc \in (LockedPcs \ ExportPcs) \cup {"claim"}
          \/ exec[w].pc \in ExportPcs \ {"claim"} /\ me.left = exec[w].left
      <4>1. CASE At(w, "claim")
        BY <2>1, <4>1, Next1IsActivity DEF AfterCallFails, LockedPcs, ExportPcs, At
      <4>2. CASE At(w, "head")
        BY <2>1, <4>2 DEF AfterCallFails, ExportPcs, At, Activity
      <4>3. CASE exec[w].pc \in {"lookup", "record", "upload", "verify", "row"}
        BY <2>1, <4>3 DEF AfterCallFails, ExportPcs, At, Activity
      <4>4. CASE exec[w].pc \in {"open", "assert", "publish"}
        BY <2>1, <4>4 DEF AfterCallFails, LockedPcs, ExportPcs, At, Activity
      <4>5. CASE exec[w].pc \in {"lock", "unlock"}
        BY <2>1, <4>5 DEF AfterCallFails, LockedPcs, ExportPcs, At, Activity
      <4>6. CASE exec[w].pc \notin {"claim", "head", "lookup", "record", "upload", "verify", "row",
                                    "release", "open", "assert", "publish", "lock", "unlock"}
        <5>1. me = Idle
          BY <4>6 DEF AfterCallFails, At
        <5>2. QED
          BY <5>1, IdleIsActivity DEF LockedPcs, ExportPcs
      <4>7. QED
        BY <2>3, <4>1, <4>2, <4>3, <4>4, <4>5, <4>6 DEF At
    <3> HIDE DEF me
    <3>3. QED
      BY <2>1, <3>1, <3>2, QuietStepKeepsLeases
  <2>4. QED
    BY <2>2, <2>3
<1>6. QED
  BY <1>2, <1>3, <1>4, <1>5 DEF Fault

LEMMA NextKeepsLeases == RInv /\ LeasesAreHeld /\ [RNext]_vars => LeasesAreHeld'
<1> SUFFICES ASSUME RInv, LeasesAreHeld, [RNext]_vars
             PROVE  LeasesAreHeld'
  OBVIOUS
<1>1. (faults'.lapses = 0 => faults.lapses = 0) /\ exec \in [Workers -> Activity]
      /\ lease \in Leases
  BY FaultsOnlyGrow, InvParts DEF RowsOK
<1>2. CASE Qa
  BY <1>1, <1>2, RowStepKeepsLeases DEF Qa, QaReads, QaWrites, QaEnqueues, QaChecks, QaFinishes
<1>3. ASSUME NEW w \in Workers, NEW j \in JobIds, Deliver(w, j)
      PROVE  LeasesAreHeld'
  <2> DEFINE me == [Idle EXCEPT !.pc = "lock", !.job = j, !.attached = TRUE]
  <2>1. me.pc \notin LockedPcs
    BY IdleIsActivity DEF Activity, LockedPcs, ExportPcs
  <2>2. exec' = [exec EXCEPT ![w] = me] /\ UNCHANGED lease
    BY <1>3 DEF Deliver, Go
  <2> HIDE DEF me
  <2>3. QED
    BY <1>1, <2>1, <2>2, QuietStepKeepsLeases
<1>4. CASE \E w \in Workers : Work(w)
  BY <1>4, WorkKeepsLeases
<1>5. CASE \E w \in Workers : Exhausted(w)
  BY <1>5, ExhaustedKeepsLeases
<1>6. ASSUME NEW w \in Workers, Heartbeat(w)
      PROVE  LeasesAreHeld'
  <2>1. UNCHANGED <<exec, faults>>
        /\ \A k \in Locks : /\ lease'[k].holder = lease[k].holder
                            /\ lease'[k].lapsed => lease[k].lapsed
    BY <1>1, <1>6 DEF Heartbeat, Leases
  <2>2. \A v \in Workers : HasLeases(v, exec[v], lease) => HasLeases(v, exec[v], lease')
    BY <2>1 DEF HasLeases, FormatOf, Locks, Formats
  <2>3. QED
    BY <2>1, <2>2 DEF LeasesAreHeld, NoneIsLost
<1>7. ASSUME NEW k \in Locks, LeaseLapses(k), faults'.lapses = 0
      PROVE  NoneIsLost(lease') /\ \A w \in Workers : HasLeases(w, exec'[w], lease')
  <2>1. lease[k].holder = "gone"
    <3>1. faults.lapses \in 0..MaxLapses
      BY InvParts DEF RowsOK
    <3>2. ~Counts("lapses", MaxLapses)
      BY <1>7, <3>1, CountsKeepType, InvParts
    <3>3. QED
      BY <1>7, <3>2 DEF LeaseLapses
  <2>2. UNCHANGED exec /\ lease' = [lease EXCEPT ![k].lapsed = TRUE]
    BY <1>7 DEF LeaseLapses
  <2>3. \A i \in Locks : /\ lease'[i].holder = lease[i].holder
                         /\ i # k => lease'[i] = lease[i]
    BY <1>1, <2>2 DEF Leases
  <2>4. \A w \in Workers : HasLeases(w, exec[w], lease) => HasLeases(w, exec[w], lease')
    BY <2>3 DEF HasLeases, FormatOf, Locks, Formats
  <2>5. NoneIsLost(lease) => NoneIsLost(lease')
    BY <2>1, <2>3, RenderingAssumption DEF NoneIsLost
  <2>6. QED
    BY <1>1, <1>7, <2>2, <2>4, <2>5 DEF LeasesAreHeld
<1>8. CASE \E c \in Customers : Retry(c)
  BY <1>1, <1>8, RowStepKeepsLeases DEF Retry, RetryReads, RetryEnqueues, RetryWrites
<1>9. CASE Fault
  BY <1>1, <1>9, FaultKeepsLeases
<1>10. CASE UNCHANGED vars
  BY <1>10 DEF vars, LeasesAreHeld, NoneIsLost, HasLeases, FormatOf
<1>11. QED
  BY <1>2, <1>3, <1>4, <1>5, <1>6, <1>7, <1>8, <1>9, <1>10 DEF RNext, LeasesAreHeld

LEMMA LeasesHold == RSpec => [](RInv /\ LeasesAreHeld)
<1>1. Init => LeasesAreHeld
  BY IdleIsActivity
  DEF Init, LeasesAreHeld, NoneIsLost, HasLeases, Free, LockedPcs, ExportPcs
<1>2. QED
  BY <1>1, InvHolds, NextKeepsLeases, PTL DEF RSpec

LEMMA HoldersAreUnique == RInv /\ LeasesAreHeld => OnePublisher
BY DEF LeasesAreHeld, HasLeases, OnePublisher

\* While no lease ran out under a live holder, one delivery at most is inside the locked part of
\* renderCustomerArtifacts, whatever the other faults.
THEOREM PublicationIsExclusive == RSpec => []OnePublisher
BY LeasesHold, HoldersAreUnique, PTL

-----------------------------------------------------------------------------
(* The artifacts.                                                           *)

\* Worker w becomes me, and touches no artifact but that of the format whose lease it has.
LEMMA StepKeepsArtifacts ==
    ASSUME RInv, LeasesAreHeld, ArtifactsAreKnown, NEW w \in Workers, NEW me,
           exec' = [exec EXCEPT ![w] = me],
           UNCHANGED faults,
           \/ UNCHANGED <<record, store, rows>>
           \/ /\ exec[w].pc \in ExportPcs \ {"claim"}
              /\ \A f \in Formats \ {Current(w)} :
                    record'[f] = record[f] /\ store'[f] = store[f] /\ rows'[f] = rows[f],
           Agree(Current(w)) /\ Knows(exec[w]) =>
               /\ store'[Current(w)] # "none" => store'[Current(w)] = record'[Current(w)]
               /\ rows'[Current(w)] # "none" => rows'[Current(w)] = store'[Current(w)]
               /\ me.pc = "head" => me.sum = record'[FormatOf(me)]
               /\ me.pc \in {"render", "record", "upload"} => store'[FormatOf(me)] = "none"
               /\ me.pc = "upload" => me.sum = record'[FormatOf(me)]
               /\ me.pc \in {"verify", "row"} => store'[FormatOf(me)] = me.sum
    PROVE  ArtifactsAreKnown'
<1> SUFFICES ASSUME faults.lapses = 0, faults.failures = 0
             PROVE  (\A f \in Formats : Agree(f)') /\ \A v \in Workers : Knows(exec[v])'
  BY DEF ArtifactsAreKnown
<1>1. /\ \A f \in Formats : Agree(f)
      /\ \A v \in Workers : Knows(exec[v]) /\ HasLeases(v, exec[v], lease)
      /\ exec \in [Workers -> Activity] /\ Current(w) \in Formats
  BY InvParts, CurrentIsFormat DEF ArtifactsAreKnown, LeasesAreHeld
<1>2. ASSUME NEW f \in Formats
      PROVE  Agree(f)'
  BY <1>1 DEF Agree
<1>3. ASSUME NEW v \in Workers \ {w}
      PROVE  Knows(exec[v])'
  <2>1. exec'[v] = exec[v] /\ FormatOf(exec[v]) \in Formats
    BY <1>1 DEF FormatOf, Formats
  <2>2. CASE exec[v].pc \in ExportPcs \ {"claim"}
    <3>1. \/ UNCHANGED <<record, store, rows>>
          \/ FormatOf(exec[v]) # Current(w)
      BY <1>1, <2>2, CurrentIsFormatOf DEF HasLeases
    <3>2. /\ record'[FormatOf(exec[v])] = record[FormatOf(exec[v])]
          /\ store'[FormatOf(exec[v])] = store[FormatOf(exec[v])]
      BY <2>1, <3>1
    <3>3. FormatOf(exec[v])' = FormatOf(exec[v])
      BY <2>1 DEF FormatOf
    <3>4. QED
      BY <1>1, <2>1, <3>2, <3>3 DEF Knows
  <2>3. CASE exec[v].pc \notin ExportPcs \ {"claim"}
    BY <2>1, <2>3 DEF Knows, ExportPcs
  <2>4. QED
    BY <2>2, <2>3
<1>4. Knows(exec[w])'
  <2>1. exec'[w] = me
    BY <1>1
  <2>2. FormatOf(exec[w])' = FormatOf(me)
    BY <2>1 DEF FormatOf
  <2>3. QED
    BY <1>1, <2>1, <2>2 DEF Knows
<1>5. QED
  BY <1>2, <1>3, <1>4

\* The steps of a worker that has no business with artifacts.
LEMMA QuietStepKeepsArtifacts ==
    ASSUME RInv, LeasesAreHeld, ArtifactsAreKnown, NEW w \in Workers, NEW me,
           exec' = [exec EXCEPT ![w] = me], UNCHANGED <<record, store, rows, faults>>,
           me.pc \notin {"head", "render", "record", "upload", "verify", "row"}
    PROVE  ArtifactsAreKnown'
BY StepKeepsArtifacts DEF Agree

LEMMA RowStepKeepsArtifacts ==
    ASSUME ArtifactsAreKnown, UNCHANGED <<record, store, rows>>,
           faults'.lapses = 0 /\ faults'.failures = 0 => faults.lapses = 0 /\ faults.failures = 0,
           \A w \in Workers : \/ exec'[w].pc = exec[w].pc /\ exec'[w].sum = exec[w].sum
                                 /\ exec'[w].left = exec[w].left
                              \/ exec'[w].pc \in {"idle", "giveup"}
    PROVE  ArtifactsAreKnown'
<1> SUFFICES ASSUME faults'.lapses = 0, faults'.failures = 0
             PROVE  (\A f \in Formats : Agree(f)') /\ \A v \in Workers : Knows(exec[v])'
  BY DEF ArtifactsAreKnown
<1>1. (\A f \in Formats : Agree(f)) /\ \A v \in Workers : Knows(exec[v])
  BY DEF ArtifactsAreKnown
<1>2. \A f \in Formats : Agree(f)'
  BY <1>1 DEF Agree
<1>3. \A v \in Workers : Knows(exec[v])'
  BY <1>1 DEF Knows, FormatOf
<1>4. QED
  BY <1>2, <1>3

LEMMA ExportKeepsArtifacts ==
    ASSUME RInv, LeasesAreHeld, ArtifactsAreKnown, NEW w \in Workers, Export(w)
    PROVE  ArtifactsAreKnown'
<1> DEFINE stepped(pc) == [exec[w] EXCEPT !.pc = pc]
<1> DEFINE failed == [exec[w] EXCEPT !.pc = "release", !.ok = FALSE]
<1> DEFINE f == Current(w)
<1>1. /\ exec[w] \in Activity /\ f \in Formats /\ f = FormatOf(exec[w])
      /\ record \in [Formats -> Bytes \cup {"none"}] /\ store \in [Formats -> Bytes \cup {"none"}]
      /\ rows \in [Formats -> Bytes \cup {"none"}]
  BY InvParts, CurrentIsFormat, CurrentIsFormatOf DEF RowsOK
<1>2. /\ \A pc : /\ stepped(pc).pc = pc /\ stepped(pc).left = exec[w].left
                 /\ stepped(pc).sum = exec[w].sum
      /\ failed.pc = "release"
  BY <1>1 DEF Activity
<1>3. \A pc : FormatOf(stepped(pc)) = f
  BY <1>1, <1>2 DEF FormatOf
<1>4. ASSUME NEW pc, Steps(w, pc)
      PROVE  \E me : /\ exec' = [exec EXCEPT ![w] = me]
                     /\ me.pc = pc /\ me.sum = exec[w].sum /\ FormatOf(me) = f
  <2>1. exec' = [exec EXCEPT ![w] = stepped(pc)]
    BY <1>4 DEF Steps, Go
  <2> HIDE DEF stepped
  <2>2. QED
    BY <1>2, <1>3, <2>1
<1>5. FailsFormat(w) => exec' = [exec EXCEPT ![w] = failed]
  BY DEF FailsFormat, Go
<1> HIDE DEF failed
<1>6. FailsFormat(w) /\ UNCHANGED <<record, store, rows, faults>> => ArtifactsAreKnown'
  BY <1>2, <1>5, QuietStepKeepsArtifacts
<1>7. \A ok \in BOOLEAN : Next1(w, ok).pc \in {"assert", "claim"}
  <2> TAKE ok \in BOOLEAN
  <2>1. QED
    BY <1>1, Next1IsActivity
<1>8. CASE ClaimFormat(w)
  <2>1. UNCHANGED <<record, store, rows, faults>>
    BY <1>8 DEF ClaimFormat
  <2>2. CASE Steps(w, "lookup")
    <3>1. PICK me : exec' = [exec EXCEPT ![w] = me] /\ me.pc = "lookup"
      BY <1>4, <2>2
    <3>2. QED
      BY <2>1, <3>1, QuietStepKeepsArtifacts
  <2>3. CASE Go(w, Next1(w, FALSE))
    <3> DEFINE me == Next1(w, FALSE)
    <3>1. exec' = [exec EXCEPT ![w] = me]
      BY <2>3 DEF Go
    <3>2. me.pc \in {"assert", "claim"}
      BY <1>7
    <3> HIDE DEF me
    <3>3. QED
      BY <2>1, <3>1, <3>2, QuietStepKeepsArtifacts
  <2>4. QED
    BY <1>8, <2>2, <2>3 DEF ClaimFormat
<1>9. CASE LookUp(w)
  <2> DEFINE me == [exec[w] EXCEPT !.pc = IF record[f] = "none" THEN "render" ELSE "head",
                                   !.sum = record[f]]
  <2>1. /\ me.pc = IF record[f] = "none" THEN "render" ELSE "head"
        /\ me.sum = record[f] /\ me.left = exec[w].left
    BY <1>1 DEF Activity
  <2>2. exec' = [exec EXCEPT ![w] = me] /\ UNCHANGED <<record, store, rows, faults>>
    BY <1>9 DEF LookUp, Go
  <2> HIDE DEF me
  <2>3. FormatOf(me) = f
    BY <1>1, <2>1 DEF FormatOf
  <2>4. QED
    BY <2>1, <2>2, <2>3, StepKeepsArtifacts DEF Agree
<1>10. CASE Head(w)
  <2>1. UNCHANGED <<record, store, rows, faults>> /\ exec[w].pc = "head"
    BY <1>10 DEF Head, At
  <2>2. PICK me : /\ exec' = [exec EXCEPT ![w] = me]
                  /\ me.pc = IF store[f] = exec[w].sum THEN "row" ELSE "render"
                  /\ me.sum = exec[w].sum /\ FormatOf(me) = f
    BY <1>4, <1>10 DEF Head
  <2>3. Agree(f) /\ Knows(exec[w]) => store[f] = exec[w].sum \/ store[f] = "none"
    BY <1>1, <2>1 DEF Agree, Knows
  <2> HIDE DEF f
  <2>4. QED
    BY <2>1, <2>2, <2>3, StepKeepsArtifacts DEF Agree, f
<1>11. CASE Render(w)
  <2>1. UNCHANGED <<record, store, rows, faults>> /\ exec[w].pc = "render"
    BY <1>11 DEF Render, At
  <2>2. CASE \E b \in Bytes : Go(w, [exec[w] EXCEPT !.pc = "record", !.sum = b])
    <3>1. PICK b \in Bytes : Go(w, [exec[w] EXCEPT !.pc = "record", !.sum = b])
      BY <2>2
    <3> DEFINE me == [exec[w] EXCEPT !.pc = "record", !.sum = b]
    <3>2. me.left = exec[w].left /\ me.pc = "record"
      BY <1>1 DEF Activity
    <3>3. exec' = [exec EXCEPT ![w] = me]
      BY <3>1 DEF Go
    <3> HIDE DEF me
    <3>4. FormatOf(me) = f
      BY <1>1, <3>2 DEF FormatOf
    <3>5. Knows(exec[w]) => store[f] = "none"
      BY <1>1, <2>1 DEF Knows
    <3>6. QED
      BY <2>1, <3>2, <3>3, <3>4, <3>5, StepKeepsArtifacts DEF Agree
  <2>3. QED
    BY <1>6, <1>11, <2>1, <2>2 DEF Render
<1>12. CASE Record(w)
  <2>1. CASE Held(w, f)
    <3>1. /\ UNCHANGED <<store, rows, faults>> /\ exec[w].pc = "record"
          /\ record' = [record EXCEPT ![f] = exec[w].sum]
      BY <1>12, <2>1 DEF Record, At
    <3>2. PICK me : /\ exec' = [exec EXCEPT ![w] = me]
                    /\ me.pc = "upload" /\ me.sum = exec[w].sum /\ FormatOf(me) = f
      BY <1>4, <1>12, <2>1 DEF Record
    <3>3. /\ record'[f] = exec[w].sum /\ \A g \in Formats \ {f} : record'[g] = record[g]
          /\ exec[w].pc \in ExportPcs \ {"claim"}
      BY <1>1, <3>1 DEF ExportPcs
    <3>4. Agree(f) /\ Knows(exec[w]) => store[f] = "none" /\ rows[f] = "none"
      BY <1>1, <3>1 DEF Knows, Agree
    <3>5. QED
      BY <3>1, <3>2, <3>3, <3>4, StepKeepsArtifacts
  <2>2. CASE ~Held(w, f)
    BY <1>6, <1>12, <2>2 DEF Record
  <2>3. QED
    BY <2>1, <2>2
<1>13. CASE Upload(w)
  <2>1. /\ UNCHANGED <<record, rows, faults>> /\ exec[w].pc = "upload"
        /\ store' = [store EXCEPT ![f] = exec[w].sum]
    BY <1>13 DEF Upload, At
  <2>2. PICK me : /\ exec' = [exec EXCEPT ![w] = me]
                  /\ me.pc = "verify" /\ me.sum = exec[w].sum /\ FormatOf(me) = f
    BY <1>4, <1>13 DEF Upload
  <2>3. /\ store'[f] = exec[w].sum /\ \A g \in Formats \ {f} : store'[g] = store[g]
        /\ exec[w].pc \in ExportPcs \ {"claim"}
    BY <1>1, <2>1 DEF ExportPcs
  <2>4. Agree(f) /\ Knows(exec[w]) => record[f] = exec[w].sum /\ rows[f] = "none"
    BY <1>1, <2>1 DEF Knows, Agree
  <2>5. QED
    BY <2>1, <2>2, <2>3, <2>4, StepKeepsArtifacts
<1>14. CASE Verify(w)
  <2>1. UNCHANGED <<record, store, rows, faults>> /\ exec[w].pc = "verify"
    BY <1>14 DEF Verify, At
  <2>2. CASE store[f] = exec[w].sum
    <3>1. PICK me : /\ exec' = [exec EXCEPT ![w] = me]
                    /\ me.pc = "row" /\ me.sum = exec[w].sum /\ FormatOf(me) = f
      BY <1>4, <1>14, <2>2 DEF Verify
    <3>2. QED
      BY <2>1, <2>2, <3>1, StepKeepsArtifacts DEF Agree
  <2>3. CASE store[f] # exec[w].sum
    BY <1>6, <1>14, <2>1, <2>3 DEF Verify
  <2>4. QED
    BY <2>2, <2>3
<1>15. CASE CreateRow(w)
  <2> DEFINE me == [exec[w] EXCEPT !.pc = "release", !.ok = TRUE]
  <2>1. me.pc = "release"
    BY <1>1 DEF Activity
  <2>2. /\ exec' = [exec EXCEPT ![w] = me] /\ UNCHANGED <<record, store, faults>>
        /\ exec[w].pc = "row"
        /\ rows' = IF rows[f] = "none" THEN [rows EXCEPT ![f] = exec[w].sum] ELSE rows
    BY <1>15 DEF CreateRow, Go, At
  <2> HIDE DEF me
  <2>3. /\ rows'[f] = IF rows[f] = "none" THEN exec[w].sum ELSE rows[f]
        /\ \A g \in Formats \ {f} : rows'[g] = rows[g]
        /\ exec[w].pc \in ExportPcs \ {"claim"}
    BY <1>1, <2>2 DEF ExportPcs
  <2>4. Knows(exec[w]) => store[f] = exec[w].sum
    BY <1>1, <2>2 DEF Knows
  <2>5. QED
    BY <2>1, <2>2, <2>3, <2>4, StepKeepsArtifacts DEF Agree
<1>16. CASE ReleaseFormat(w)
  <2>1. /\ exec' = [exec EXCEPT ![w] = Next1(w, exec[w].ok)]
        /\ UNCHANGED <<record, store, rows, faults>> /\ exec[w].ok \in BOOLEAN
    BY <1>1, <1>16 DEF ReleaseFormat, Go, Activity
  <2>2. QED
    BY <1>7, <2>1, QuietStepKeepsArtifacts
<1>17. QED
  BY <1>8, <1>9, <1>10, <1>11, <1>12, <1>13, <1>14, <1>15, <1>16 DEF Export

LEMMA NextKeepsArtifacts ==
    RInv /\ LeasesAreHeld /\ ArtifactsAreKnown /\ [RNext]_vars => ArtifactsAreKnown'
<1> SUFFICES ASSUME RInv, LeasesAreHeld, ArtifactsAreKnown, [RNext]_vars
             PROVE  ArtifactsAreKnown'
  OBVIOUS
<1>1. /\ faults'.lapses = 0 => faults.lapses = 0
      /\ faults'.failures = 0 => faults.failures = 0
      /\ exec \in [Workers -> Activity]
  BY FaultsOnlyGrow, InvParts
<1>2. CASE Qa \/ QaCallFails \/ \E c \in Customers : Retry(c) \/ CustomerCallFails(c)
  BY <1>1, <1>2, RowStepKeepsArtifacts
  DEF Qa, QaReads, QaWrites, QaEnqueues, QaChecks, QaFinishes, QaCallFails, CustomerCallFails,
      Retry, RetryReads, RetryEnqueues, RetryWrites
<1>3. CASE (\E w \in Workers : Heartbeat(w)) \/ \E k \in Locks : LeaseLapses(k)
  BY <1>1, <1>3, RowStepKeepsArtifacts DEF Heartbeat, LeaseLapses
<1>4. ASSUME NEW w \in Workers, NEW j \in JobIds, Deliver(w, j)
      PROVE  ArtifactsAreKnown'
  <2> DEFINE me == [Idle EXCEPT !.pc = "lock", !.job = j, !.attached = TRUE]
  <2>1. me.pc = "lock"
    BY IdleIsActivity DEF Activity
  <2>2. exec' = [exec EXCEPT ![w] = me] /\ UNCHANGED <<record, store, rows, faults>>
    BY <1>4 DEF Deliver, Go
  <2> HIDE DEF me
  <2>3. QED
    BY <2>1, <2>2, QuietStepKeepsArtifacts
<1>5. ASSUME NEW w \in Workers, Work(w)
      PROVE  ArtifactsAreKnown'
  <2>1. exec[w] \in Activity /\ exec[w].job \in JobIds
    BY <1>1 DEF Activity
  <2>2. CASE Export(w)
    BY <2>2, ExportKeepsArtifacts
  <2>3. CASE ~Export(w)
    <3>1. UNCHANGED <<record, store, rows, faults>>
      BY <1>5, <2>3 DEF Work, Lock, Open, AssertLease, Publish, Unlock, Resolve, Reject
    <3>2. PICK me : /\ exec' = [exec EXCEPT ![w] = me]
                    /\ me.pc \in {"open", "claim", "publish", "unlock", "resolved", "rejected",
                                  "idle", "giveup"}
      <4>1. CASE Lock(w) \/ Unlock(w)
        <5>1. PICK pc \in {"open", "resolved", "rejected"} : Steps(w, pc)
          BY <4>1 DEF Lock, Unlock
        <5>2. [exec[w] EXCEPT !.pc = pc].pc = pc
          BY <2>1 DEF Activity
        <5>3. QED
          BY <5>1, <5>2 DEF Steps, Go
      <4>2. CASE Open(w)
        <5>1. [exec[w] EXCEPT !.pc = "claim", !.left = jobs[exec[w].job].formats,
                              !.keys = app.keys, !.errors = app.errors].pc = "claim"
          BY <2>1 DEF Activity
        <5>2. QED
          BY <4>2, <5>1 DEF Open, Go
      <4>3. CASE AssertLease(w)
        <5>1. /\ [exec[w] EXCEPT !.pc = "unlock", !.ok = FALSE].pc = "unlock"
              /\ [exec[w] EXCEPT !.pc = "publish"].pc = "publish"
          BY <2>1 DEF Activity
        <5>2. QED
          BY <4>3, <5>1 DEF AssertLease, Steps, Go
      <4>4. CASE Publish(w)
        <5>1. [exec[w] EXCEPT !.pc = "unlock", !.ok = exec[w].failed = {}].pc = "unlock"
          BY <2>1 DEF Activity
        <5>2. QED
          BY <4>4, <5>1 DEF Publish, Go
      <4>5. CASE Resolve(w) \/ Reject(w)
        BY <2>1, <4>5, IdleIsActivity DEF Resolve, Reject, Go
      <4>6. QED
        BY <1>5, <2>3, <4>1, <4>2, <4>3, <4>4, <4>5 DEF Work
    <3>3. QED
      BY <3>1, <3>2, QuietStepKeepsArtifacts
  <2>4. QED
    BY <2>2, <2>3
<1>6. ASSUME NEW w \in Workers, Exhausted(w)
      PROVE  ArtifactsAreKnown'
  <2>1. exec[w] \in Activity
    BY <1>1
  <2>2. UNCHANGED <<record, store, rows, faults>>
    BY <1>6 DEF Exhausted, GiveUp, HookChecks, HookFailsRun, HookReadsApp, HookMarks
  <2>3. PICK me : /\ exec' = [exec EXCEPT ![w] = me]
                  /\ me.pc \in {"check", "fail", "reread", "mark", "idle"}
    <3>1. CASE HookReadsApp(w)
      <4>1. [exec[w] EXCEPT !.pc = "mark", !.copy = app].pc = "mark"
        BY <2>1 DEF Activity
      <4>2. QED
        BY <3>1, <4>1 DEF HookReadsApp, Go
    <3>2. CASE Go(w, Idle)
      BY <3>2, IdleIsActivity DEF Go
    <3>3. CASE \E pc \in {"check", "fail", "reread"} : Steps(w, pc)
      <4>1. PICK pc \in {"check", "fail", "reread"} : Steps(w, pc)
        BY <3>3
      <4>2. [exec[w] EXCEPT !.pc = pc].pc = pc
        BY <2>1 DEF Activity
      <4>3. QED
        BY <4>1, <4>2 DEF Steps, Go
    <3>4. QED
      BY <1>6, <3>1, <3>2, <3>3 DEF Exhausted, GiveUp, HookChecks, HookFailsRun, HookMarks
  <2>4. QED
    BY <2>2, <2>3, QuietStepKeepsArtifacts
<1>7. ASSUME NEW w \in Workers, NEW v \in Workers, JobTimeout(w, v)
      PROVE  ArtifactsAreKnown'
  <2>1. exec[w].job \in JobIds
    BY <1>1 DEF Activity
  <2>2. \A u \in Workers :
           \/ exec'[u].pc = exec[u].pc /\ exec'[u].sum = exec[u].sum
              /\ exec'[u].left = exec[u].left
           \/ exec'[u].pc \in {"idle", "giveup"}
    BY <1>1, <1>7, <2>1, IdleIsActivity DEF JobTimeout, Activity
  <2>3. UNCHANGED <<record, store, rows>>
    BY <1>7 DEF JobTimeout
  <2>4. QED
    BY <1>1, <2>2, <2>3, RowStepKeepsArtifacts
<1>8. ASSUME NEW w \in Workers, WorkerCrash(w)
      PROVE  ArtifactsAreKnown'
  <2>1. \A u \in Workers : exec'[u] = exec[u] \/ exec'[u].pc = "idle"
    BY <1>1, <1>8, IdleIsActivity DEF WorkerCrash, Go
  <2>2. UNCHANGED <<record, store, rows>>
    BY <1>8 DEF WorkerCrash
  <2>3. QED
    BY <1>1, <2>1, <2>2, RowStepKeepsArtifacts
<1>9. ASSUME NEW w \in Workers, CallFails(w)
      PROVE  ArtifactsAreKnown'
  <2>1. faults'.failures > 0 /\ faults'.failures \in 0..MaxFailures
    <3>1. RowsOK
      BY InvParts
    <3>2. QED
      BY <1>9, <3>1, CountsKeepType DEF CallFails
  <2>2. faults'.failures # 0
    BY <2>1
  <2>3. QED
    BY <2>2 DEF ArtifactsAreKnown
<1>10. CASE UNCHANGED vars
  BY <1>1, <1>10, RowStepKeepsArtifacts DEF vars
<1>11. QED
  BY <1>2, <1>3, <1>4, <1>5, <1>6, <1>7, <1>8, <1>9, <1>10 DEF RNext, Fault

LEMMA ArtifactsHold == RSpec => [](RInv /\ LeasesAreHeld /\ ArtifactsAreKnown)
<1>1. Init => ArtifactsAreKnown
  BY IdleIsActivity DEF Init, ArtifactsAreKnown, Agree, Knows
<1>2. QED
  BY <1>1, LeasesHold, NextKeepsArtifacts, PTL DEF RSpec

\* While no lease is lost and no call fails, the object stored for a format has the checksum of
\* its record and of its row: what a dead or abandoned delivery left is taken up, not contradicted.
THEOREM ArtifactsStayConsistent == RSpec => []ArtifactsAgree
<1>1. ArtifactsAreKnown => ArtifactsAgree
  BY DEF ArtifactsAreKnown, ArtifactsAgree, Agree
<1>2. QED
  BY <1>1, ArtifactsHold, PTL

-----------------------------------------------------------------------------
(* What is offered.                                                         *)

\* Worker w becomes me; no artifact goes away.
LEMMA StepKeepsOffers ==
    ASSUME RInv, KeysAreStored, NEW w \in Workers, NEW me,
           exec' = [exec EXCEPT ![w] = me], UNCHANGED <<qa, calls>>,
           \A f \in Formats : /\ store[f] # "none" => store'[f] # "none"
                              /\ rows[f] # "none" => rows'[f] # "none",
           app'.keys \subseteq Stored',
           me.keys \subseteq Stored', me.copy.keys \subseteq Stored',
           me.pc \in {"head", "record", "upload", "verify", "row"} => me.sum # "none",
           me.pc = "row" => store'[FormatOf(me)] # "none",
           me.pc = "release" /\ me.ok => FormatOf(me) \in Stored'
    PROVE  KeysAreStored'
<1>1. Stored \subseteq Stored'
  BY DEF Stored
<1>2. exec \in [Workers -> Activity]
  BY InvParts
<1>3. ASSUME NEW v \in Workers \ {w}
      PROVE  Offers(exec[v])'
  <2>1. exec'[v] = exec[v] /\ FormatOf(exec[v]) \in Formats /\ Offers(exec[v])
    BY <1>2 DEF FormatOf, Formats, KeysAreStored
  <2>2. FormatOf(exec[v])' = FormatOf(exec[v])
    BY <2>1 DEF FormatOf
  <2>3. QED
    BY <1>1, <2>1, <2>2 DEF Offers
<1>4. Offers(exec[w])'
  <2>1. exec'[w] = me
    BY <1>2
  <2>2. FormatOf(exec[w])' = FormatOf(me)
    BY <2>1 DEF FormatOf
  <2>3. QED
    BY <2>1, <2>2 DEF Offers
<1>5. qa'.copy.keys \subseteq Stored' /\ \A c \in Customers : calls'[c].copy.keys \subseteq Stored'
  BY <1>1 DEF KeysAreStored
<1>6. QED
  BY <1>3, <1>4, <1>5 DEF KeysAreStored

\* The artifacts stay, and w is not at a step that knows of one.
LEMMA QuietStepKeepsOffers ==
    ASSUME RInv, KeysAreStored, NEW w \in Workers, NEW me,
           exec' = [exec EXCEPT ![w] = me], UNCHANGED <<qa, calls, store, rows>>,
           app'.keys \subseteq Stored,
           me.keys \subseteq Stored, me.copy.keys \subseteq Stored,
           me.pc \notin {"head", "record", "upload", "verify", "row"},
           ~(me.pc = "release" /\ me.ok)
    PROVE  KeysAreStored'
<1>1. Stored' = Stored
  BY DEF Stored
<1>2. QED
  BY <1>1, StepKeepsOffers

\* The workers and the artifacts stay, and whatever copy is made is one of a row or of a copy.
LEMMA RowStepKeepsOffers ==
    ASSUME RInv, KeysAreStored, UNCHANGED <<store, rows>>,
           app'.keys \subseteq Stored, qa'.copy.keys \subseteq Stored,
           \A c \in Customers : calls'[c].copy.keys \subseteq Stored,
           \A w \in Workers : Offers(exec[w]) => Offers(exec'[w])
    PROVE  KeysAreStored'
<1>1. Stored' = Stored
  BY DEF Stored
<1>2. \A w \in Workers : Offers(exec[w])'
  BY <1>1 DEF KeysAreStored, Offers, FormatOf
<1>3. QED
  BY <1>1, <1>2 DEF KeysAreStored

\* A step of the queue's handlers or of the locked part that keeps the worker's files.
LEMMA KeepingFilesKeepsOffers ==
    ASSUME RInv, KeysAreStored, NEW w \in Workers, NEW me,
           exec' = [exec EXCEPT ![w] = me], UNCHANGED <<app, qa, calls, store, rows>>,
           me.keys = exec[w].keys, me.copy = exec[w].copy,
           me.pc \notin {"head", "record", "upload", "verify", "row"},
           ~(me.pc = "release" /\ me.ok)
    PROVE  KeysAreStored'
BY QuietStepKeepsOffers DEF KeysAreStored, Offers

LEMMA ExportKeepsOffers ==
    ASSUME RInv, KeysAreStored, NEW w \in Workers, Export(w)
    PROVE  KeysAreStored'
<1> DEFINE stepped(pc) == [exec[w] EXCEPT !.pc = pc]
<1> DEFINE failed == [exec[w] EXCEPT !.pc = "release", !.ok = FALSE]
<1> DEFINE f == Current(w)
<1>1. /\ exec[w] \in Activity /\ f \in Formats /\ f = FormatOf(exec[w])
      /\ record \in [Formats -> Bytes \cup {"none"}] /\ store \in [Formats -> Bytes \cup {"none"}]
      /\ rows \in [Formats -> Bytes \cup {"none"}]
  BY InvParts, CurrentIsFormat, CurrentIsFormatOf DEF RowsOK
<1>2. /\ UNCHANGED <<app, qa, calls>>
      /\ app.keys \subseteq Stored /\ Offers(exec[w])
  BY DEF Export, ClaimFormat, LookUp, Head, Render, Record, Upload, Verify, CreateRow,
         ReleaseFormat, KeysAreStored
<1>3. /\ \A pc : /\ stepped(pc).pc = pc /\ stepped(pc).left = exec[w].left
                 /\ stepped(pc).sum = exec[w].sum /\ stepped(pc).ok = exec[w].ok
                 /\ stepped(pc).keys = exec[w].keys /\ stepped(pc).copy = exec[w].copy
      /\ failed.pc = "release" /\ failed.ok = FALSE
      /\ failed.keys = exec[w].keys /\ failed.copy = exec[w].copy
  BY <1>1 DEF Activity
<1>4. \A pc : FormatOf(stepped(pc)) = f
  BY <1>1, <1>3 DEF FormatOf
<1>5. ASSUME NEW pc, Steps(w, pc)
      PROVE  \E me : /\ exec' = [exec EXCEPT ![w] = me]
                     /\ me.pc = pc /\ me.sum = exec[w].sum /\ FormatOf(me) = f
                     /\ me.keys = exec[w].keys /\ me.copy = exec[w].copy
  <2> DEFINE me == stepped(pc)
  <2>1. exec' = [exec EXCEPT ![w] = me]
    BY <1>5 DEF Steps, Go
  <2>2. /\ me.pc = pc /\ me.sum = exec[w].sum /\ FormatOf(me) = f
        /\ me.keys = exec[w].keys /\ me.copy = exec[w].copy
    BY <1>3, <1>4
  <2> HIDE DEF me
  <2>3. QED
    BY <2>1, <2>2
<1>6. ASSUME FailsFormat(w), UNCHANGED <<store, rows>>
      PROVE  KeysAreStored'
  <2>1. exec' = [exec EXCEPT ![w] = failed]
    BY <1>6 DEF FailsFormat, Go
  <2> HIDE DEF failed
  <2>2. QED
    BY <1>2, <1>3, <1>6, <2>1, KeepingFilesKeepsOffers
<1> HIDE DEF failed
\* A step that keeps the artifacts, the bytes and the files.
<1>7. ASSUME NEW pc \in {"lookup", "render", "upload", "verify", "row"}, Steps(w, pc),
             UNCHANGED <<store, rows>>,
             pc \in {"upload", "verify", "row"} => exec[w].sum # "none",
             pc = "row" => store[f] # "none"
      PROVE  KeysAreStored'
  <2>1. PICK me : /\ exec' = [exec EXCEPT ![w] = me]
                  /\ me.pc = pc /\ me.sum = exec[w].sum /\ FormatOf(me) = f
                  /\ me.keys = exec[w].keys /\ me.copy = exec[w].copy
    BY <1>5, <1>7
  <2>2. Stored' = Stored
    BY <1>7 DEF Stored
  <2>3. QED
    BY <1>2, <1>7, <2>1, <2>2, StepKeepsOffers DEF Offers
<1>8. CASE ClaimFormat(w)
  <2>1. UNCHANGED <<store, rows>>
    BY <1>8 DEF ClaimFormat
  <2>2. CASE Steps(w, "lookup")
    BY <1>7, <2>1, <2>2
  <2>3. CASE Go(w, Next1(w, FALSE))
    <3> DEFINE me == Next1(w, FALSE)
    <3>1. exec' = [exec EXCEPT ![w] = me]
      BY <2>3 DEF Go
    <3>2. me.pc \in {"assert", "claim"} /\ me.keys = exec[w].keys /\ me.copy = exec[w].copy
      BY <1>1, Next1IsActivity
    <3> HIDE DEF me
    <3>3. QED
      BY <1>2, <2>1, <3>1, <3>2, KeepingFilesKeepsOffers
  <2>4. QED
    BY <1>8, <2>2, <2>3 DEF ClaimFormat
<1>9. CASE LookUp(w)
  <2> DEFINE me == [exec[w] EXCEPT !.pc = IF record[f] = "none" THEN "render" ELSE "head",
                                   !.sum = record[f]]
  <2>1. /\ me.pc = IF record[f] = "none" THEN "render" ELSE "head"
        /\ me.sum = record[f] /\ me.keys = exec[w].keys /\ me.copy = exec[w].copy
    BY <1>1 DEF Activity
  <2>2. exec' = [exec EXCEPT ![w] = me] /\ UNCHANGED <<store, rows>>
    BY <1>9 DEF LookUp, Go
  <2>3. Stored' = Stored
    BY <2>2 DEF Stored
  <2> HIDE DEF me
  <2>4. /\ me.pc \in {"render", "head"} /\ (me.pc = "head" => me.sum # "none")
        /\ me.keys \subseteq Stored /\ me.copy.keys \subseteq Stored
    BY <1>2, <2>1 DEF Offers
  <2>5. QED
    BY <1>2, <2>2, <2>3, <2>4, StepKeepsOffers
<1>10. CASE Head(w)
  <2>1. UNCHANGED <<store, rows>> /\ exec[w].sum # "none"
    BY <1>2, <1>10 DEF Head, At, Offers
  <2>2. CASE store[f] = exec[w].sum
    <3>1. Steps(w, "row")
      BY <1>10, <2>2 DEF Head
    <3>2. QED
      BY <1>7, <2>1, <2>2, <3>1
  <2>3. CASE store[f] # exec[w].sum
    <3>1. Steps(w, "render")
      BY <1>10, <2>3 DEF Head
    <3>2. QED
      BY <1>7, <2>1, <3>1
  <2>4. QED
    BY <2>2, <2>3
<1>11. CASE Render(w)
  <2>1. UNCHANGED <<store, rows>>
    BY <1>11 DEF Render
  <2>2. CASE \E b \in Bytes : Go(w, [exec[w] EXCEPT !.pc = "record", !.sum = b])
    <3>1. PICK b \in Bytes : Go(w, [exec[w] EXCEPT !.pc = "record", !.sum = b])
      BY <2>2
    <3> DEFINE me == [exec[w] EXCEPT !.pc = "record", !.sum = b]
    <3>2. me.keys = exec[w].keys /\ me.copy = exec[w].copy /\ me.pc = "record" /\ me.sum = b
      BY <1>1 DEF Activity
    <3>3. exec' = [exec EXCEPT ![w] = me]
      BY <3>1 DEF Go
    <3> HIDE DEF me
    <3>4. Stored' = Stored /\ b # "none"
      BY <2>1, RenderingAssumption DEF Stored
    <3>5. QED
      BY <1>2, <2>1, <3>2, <3>3, <3>4, StepKeepsOffers DEF Offers
  <2>3. QED
    BY <1>6, <1>11, <2>1, <2>2 DEF Render
<1>12. CASE Record(w)
  <2>1. UNCHANGED <<store, rows>> /\ exec[w].sum # "none"
    BY <1>2, <1>12 DEF Record, At, Offers
  <2>2. Steps(w, "upload") \/ FailsFormat(w)
    BY <1>12 DEF Record
  <2>3. QED
    BY <1>6, <1>7, <2>1, <2>2
<1>13. CASE Upload(w)
  <2>1. /\ UNCHANGED rows /\ exec[w].sum # "none"
        /\ store' = [store EXCEPT ![f] = exec[w].sum]
    BY <1>2, <1>13 DEF Upload, At, Offers
  <2>2. PICK me : /\ exec' = [exec EXCEPT ![w] = me]
                  /\ me.pc = "verify" /\ me.sum = exec[w].sum /\ FormatOf(me) = f
                  /\ me.keys = exec[w].keys /\ me.copy = exec[w].copy
    BY <1>5, <1>13 DEF Upload
  <2>3. \A g \in Formats : store[g] # "none" => store'[g] # "none"
    BY <1>1, <2>1
  <2>4. Stored \subseteq Stored'
    BY <2>1, <2>3 DEF Stored
  <2>5. QED
    BY <1>2, <2>1, <2>2, <2>3, <2>4, StepKeepsOffers DEF Offers
<1>14. CASE Verify(w)
  <2>1. UNCHANGED <<store, rows>> /\ exec[w].sum # "none"
    BY <1>2, <1>14 DEF Verify, At, Offers
  <2>2. CASE store[f] = exec[w].sum
    <3>1. Steps(w, "row")
      BY <1>14, <2>2 DEF Verify
    <3>2. QED
      BY <1>7, <2>1, <2>2, <3>1
  <2>3. CASE store[f] # exec[w].sum
    BY <1>6, <1>14, <2>1, <2>3 DEF Verify
  <2>4. QED
    BY <2>2, <2>3
<1>15. CASE CreateRow(w)
  <2> DEFINE me == [exec[w] EXCEPT !.pc = "release", !.ok = TRUE]
  <2>1. /\ me.pc = "release" /\ me.keys = exec[w].keys /\ me.copy = exec[w].copy
        /\ me.left = exec[w].left
    BY <1>1 DEF Activity
  <2>2. /\ exec' = [exec EXCEPT ![w] = me] /\ UNCHANGED store
        /\ rows' = IF rows[f] = "none" THEN [rows EXCEPT ![f] = exec[w].sum] ELSE rows
        /\ exec[w].sum # "none" /\ store[f] # "none"
    BY <1>1, <1>2, <1>15 DEF CreateRow, Go, At, Offers
  <2> HIDE DEF me
  <2>3. FormatOf(me) = f
    BY <1>1, <2>1 DEF FormatOf
  <2>4. /\ \A g \in Formats : rows[g] # "none" => rows'[g] # "none"
        /\ rows'[f] # "none"
    BY <1>1, <2>2
  <2>5. Stored \subseteq Stored' /\ f \in Stored'
    BY <1>1, <2>2, <2>4 DEF Stored
  <2>6. QED
    BY <1>2, <2>1, <2>2, <2>3, <2>4, <2>5, StepKeepsOffers DEF Offers
<1>16. CASE ReleaseFormat(w)
  <2> DEFINE me == Next1(w, exec[w].ok)
  <2>1. /\ exec' = [exec EXCEPT ![w] = me] /\ UNCHANGED <<store, rows>>
        /\ exec[w].ok \in BOOLEAN /\ exec[w].pc = "release"
    BY <1>1, <1>16 DEF ReleaseFormat, Go, Activity, At
  <2>2. \A ok \in BOOLEAN :
           /\ Next1(w, ok).pc \in {"assert", "claim"} /\ Next1(w, ok).copy = exec[w].copy
           /\ Next1(w, ok).keys = IF ok THEN exec[w].keys \cup {f} ELSE exec[w].keys
    BY <1>1, Next1IsActivity
  <2>3. /\ me.pc \in {"assert", "claim"} /\ me.copy = exec[w].copy
        /\ me.keys = IF exec[w].ok THEN exec[w].keys \cup {f} ELSE exec[w].keys
    BY <2>1, <2>2
  <2> HIDE DEF me
  <2>4. me.keys \subseteq Stored /\ me.copy.keys \subseteq Stored
    BY <1>1, <1>2, <2>1, <2>3 DEF Offers
  <2>5. QED
    BY <1>2, <2>1, <2>3, <2>4, QuietStepKeepsOffers
<1>17. QED
  BY <1>8, <1>9, <1>10, <1>11, <1>12, <1>13, <1>14, <1>15, <1>16 DEF Export

LEMMA WorkKeepsOffers ==
    ASSUME RInv, KeysAreStored, NEW w \in Workers, Work(w) \/ Exhausted(w)
    PROVE  KeysAreStored'
<1>1. /\ exec[w] \in Activity /\ exec[w].job \in JobIds
      /\ app.keys \subseteq Stored /\ Offers(exec[w])
  BY InvParts DEF Activity, KeysAreStored
<1>2. Idle.keys = {} /\ Idle.copy.keys = {} /\ Idle.pc = "idle"
  BY IdleIsActivity
\* Steps that keep the worker's files.
<1>3. ASSUME NEW pc \in {"open", "publish", "resolved", "rejected", "reread", "check", "fail"},
             Steps(w, pc), UNCHANGED <<app, qa, calls, store, rows>>
      PROVE  KeysAreStored'
  <2> DEFINE me == [exec[w] EXCEPT !.pc = pc]
  <2>1. me.pc = pc /\ me.keys = exec[w].keys /\ me.copy = exec[w].copy
    BY <1>1 DEF Activity
  <2>2. exec' = [exec EXCEPT ![w] = me]
    BY <1>3 DEF Steps, Go
  <2> HIDE DEF me
  <2>3. QED
    BY <1>3, <2>1, <2>2, KeepingFilesKeepsOffers
<1>4. ASSUME Go(w, Idle), UNCHANGED <<qa, calls, store, rows>>, app'.keys \subseteq Stored
      PROVE  KeysAreStored'
  BY <1>2, <1>4, QuietStepKeepsOffers DEF Go
<1>5. CASE Lock(w) \/ Unlock(w) \/ GiveUp(w) \/ HookFailsRun(w)
  BY <1>3, <1>5 DEF Lock, Unlock, GiveUp, HookFailsRun
<1>6. CASE Open(w)
  <2> DEFINE me == [exec[w] EXCEPT !.pc = "claim", !.left = jobs[exec[w].job].formats,
                                   !.keys = app.keys, !.errors = app.errors]
  <2>1. me.pc = "claim" /\ me.keys = app.keys /\ me.copy = exec[w].copy
    BY <1>1 DEF Activity
  <2>2. exec' = [exec EXCEPT ![w] = me] /\ UNCHANGED <<app, qa, calls, store, rows>>
    BY <1>6 DEF Open, Go
  <2> HIDE DEF me
  <2>3. QED
    BY <1>1, <2>1, <2>2, QuietStepKeepsOffers DEF Offers
<1>7. CASE Export(w)
  BY <1>7, ExportKeepsOffers
<1>8. CASE AssertLease(w)
  <2> DEFINE me == [exec[w] EXCEPT !.pc = "unlock", !.ok = FALSE]
  <2>1. me.pc = "unlock" /\ me.keys = exec[w].keys /\ me.copy = exec[w].copy
    BY <1>1 DEF Activity
  <2>2. /\ UNCHANGED <<app, qa, calls, store, rows>>
        /\ Steps(w, "publish") \/ exec' = [exec EXCEPT ![w] = me]
    BY <1>8 DEF AssertLease, Go
  <2> HIDE DEF me
  <2>3. QED
    BY <1>3, <2>1, <2>2, KeepingFilesKeepsOffers
<1>9. CASE Publish(w)
  <2> DEFINE me == [exec[w] EXCEPT !.pc = "unlock", !.ok = exec[w].failed = {}]
  <2>1. me.pc = "unlock" /\ me.keys = exec[w].keys /\ me.copy = exec[w].copy
    BY <1>1 DEF Activity
  <2>2. exec' = [exec EXCEPT ![w] = me] /\ UNCHANGED <<qa, calls, store, rows>>
        /\ app'.keys = exec[w].keys
    BY <1>9 DEF Publish, Go
  <2> HIDE DEF me
  <2>3. QED
    BY <1>1, <2>1, <2>2, QuietStepKeepsOffers DEF Offers
<1>10. CASE Resolve(w) \/ Reject(w)
  <2>1. PICK me : /\ exec' = [exec EXCEPT ![w] = me]
                  /\ me.keys = {} /\ me.copy.keys = {} /\ me.pc \in {"idle", "giveup"}
    BY <1>1, <1>10, IdleIsActivity DEF Resolve, Reject, Go
  <2>2. UNCHANGED <<app, qa, calls, store, rows>>
    BY <1>10 DEF Resolve, Reject
  <2>3. QED
    BY <1>1, <2>1, <2>2, QuietStepKeepsOffers
<1>11. CASE HookChecks(w)
  BY <1>1, <1>3, <1>4, <1>11 DEF HookChecks
<1>12. CASE HookReadsApp(w)
  <2> DEFINE me == [exec[w] EXCEPT !.pc = "mark", !.copy = app]
  <2>1. me.pc = "mark" /\ me.keys = exec[w].keys /\ me.copy = app
    BY <1>1 DEF Activity
  <2>2. exec' = [exec EXCEPT ![w] = me] /\ UNCHANGED <<app, qa, calls, store, rows>>
    BY <1>12 DEF HookReadsApp, Go
  <2> HIDE DEF me
  <2>3. QED
    BY <1>1, <2>1, <2>2, QuietStepKeepsOffers DEF Offers
<1>13. CASE HookMarks(w)
  <2>1. app'.keys = exec[w].copy.keys
    <3>1. exec[w].copy \in App
      BY <1>1 DEF Activity
    <3>2. QED
      BY <1>13, <3>1 DEF HookMarks, App
  <2>2. QED
    BY <1>1, <1>4, <1>13, <2>1 DEF HookMarks, Offers
<1>14. QED
  BY <1>5, <1>6, <1>7, <1>8, <1>9, <1>10, <1>11, <1>12, <1>13 DEF Work, Exhausted

LEMMA FaultKeepsOffers ==
    ASSUME RInv, KeysAreStored, Fault
    PROVE  KeysAreStored'
<1>1. /\ exec \in [Workers -> Activity]
      /\ Idle.keys = {} /\ Idle.copy.keys = {} /\ Idle.pc = "idle"
      /\ app.keys \subseteq Stored /\ qa.copy.keys \subseteq Stored /\ NoFiles.keys = {}
      /\ \A c \in Customers : calls[c].copy.keys \subseteq Stored
      /\ \A w \in Workers : Offers(exec[w])
  BY InvParts, IdleIsActivity DEF KeysAreStored, NoFiles
<1>2. CASE QaCallFails
  BY <1>1, <1>2, RowStepKeepsOffers DEF QaCallFails
<1>3. ASSUME NEW c \in Customers, CustomerCallFails(c)
      PROVE  KeysAreStored'
  <2>1. \A d \in Customers : calls'[d].copy.keys \subseteq Stored
    <3>1. calls \in [Customers -> [pc : {"idle", "enqueue", "write", "done"}, copy : App]]
      BY InvParts DEF RowsOK
    <3>2. QED
      BY <1>1, <1>3, <3>1 DEF CustomerCallFails
  <2>2. UNCHANGED <<app, qa, exec, store, rows>>
    BY <1>3 DEF CustomerCallFails
  <2>3. QED
    BY <1>1, <2>1, <2>2, RowStepKeepsOffers
<1>4. ASSUME NEW w \in Workers, NEW v \in Workers, JobTimeout(w, v)
      PROVE  KeysAreStored'
  <2>1. exec[w].job \in JobIds
    BY <1>1 DEF Activity
  <2>2. \A u \in Workers :
           \/ /\ exec'[u].pc = exec[u].pc /\ exec'[u].sum = exec[u].sum
              /\ exec'[u].left = exec[u].left /\ exec'[u].ok = exec[u].ok
              /\ exec'[u].keys = exec[u].keys /\ exec'[u].copy = exec[u].copy
           \/ exec'[u].pc = "giveup" /\ exec'[u].keys = {} /\ exec'[u].copy.keys = {}
    BY <1>1, <1>4, <2>1, IdleIsActivity DEF JobTimeout, Activity
  <2>3. \A u \in Workers : Offers(exec[u]) => Offers(exec'[u])
    BY <2>2 DEF Offers, FormatOf
  <2>4. UNCHANGED <<app, qa, calls, store, rows>>
    BY <1>4 DEF JobTimeout
  <2>5. QED
    BY <1>1, <2>3, <2>4, RowStepKeepsOffers
<1>5. ASSUME NEW w \in Workers, WorkerCrash(w)
      PROVE  KeysAreStored'
  BY <1>1, <1>5, QuietStepKeepsOffers DEF WorkerCrash, Go
<1>6. ASSUME NEW w \in Workers, CallFails(w)
      PROVE  KeysAreStored'
  <2> DEFINE me == AfterCallFails(w)
  <2>1. exec' = [exec EXCEPT ![w] = me] /\ UNCHANGED <<app, qa, calls, store, rows>>
    BY <1>6 DEF CallFails, Go
  <2>2. /\ \/ me.keys = exec[w].keys /\ me.copy = exec[w].copy
           \/ me.keys = {} /\ me.copy.keys = {}
        /\ me.pc \notin {"head", "record", "upload", "verify", "row"}
        /\ ~(me.pc = "release" /\ me.ok)
    <3>1. exec[w] \in Activity
      BY <1>1
    <3>2. CASE At(w, "claim") \/ At(w, "release")
      <4>1. me = Next1(w, FALSE)
        BY <3>2 DEF AfterCallFails, At
      <4> HIDE DEF me
      <4>2. me.pc \in {"assert", "claim"} /\ me.keys = exec[w].keys /\ me.copy = exec[w].copy
        BY <3>1, <4>1, Next1IsActivity
      <4>3. QED
        BY <4>2
    <3>3. CASE At(w, "head")
      <4>1. me.pc = "render" /\ me.keys = exec[w].keys /\ me.copy = exec[w].copy
        BY <3>1, <3>3 DEF AfterCallFails, At, Activity
      <4> HIDE DEF me
      <4>2. QED
        BY <4>1
    <3>4. CASE exec[w].pc \in {"lookup", "record", "upload", "verify", "row"}
      <4>1. /\ me.pc = "release" /\ me.ok = FALSE
            /\ me.keys = exec[w].keys /\ me.copy = exec[w].copy
        BY <3>1, <3>4 DEF AfterCallFails, At, Activity
      <4> HIDE DEF me
      <4>2. QED
        BY <4>1
    <3>5. CASE exec[w].pc \in {"open", "assert", "publish", "lock", "unlock"}
      <4>1. /\ me.pc \in {"unlock", "rejected"}
            /\ me.keys = exec[w].keys /\ me.copy = exec[w].copy
        BY <3>1, <3>5 DEF AfterCallFails, At, Activity
      <4> HIDE DEF me
      <4>2. QED
        BY <4>1
    <3>6. CASE exec[w].pc \notin {"claim", "release", "head", "lookup", "record", "upload",
                                  "verify", "row", "open", "assert", "publish", "lock", "unlock"}
      <4>1. me = Idle
        BY <3>6 DEF AfterCallFails, At
      <4> HIDE DEF me
      <4>2. QED
        BY <1>1, <4>1
    <3>7. QED
      BY <3>2, <3>3, <3>4, <3>5, <3>6 DEF At
  <2> HIDE DEF me
  <2>3. me.keys \subseteq Stored /\ me.copy.keys \subseteq Stored
    <3>1. exec[w].keys \subseteq Stored /\ exec[w].copy.keys \subseteq Stored
      <4>1. Offers(exec[w])
        BY <1>1
      <4>2. QED
        BY <4>1 DEF Offers
    <3>2. CASE me.keys = exec[w].keys /\ me.copy = exec[w].copy
      BY <3>1, <3>2
    <3>3. CASE me.keys = {} /\ me.copy.keys = {}
      BY <3>3
    <3>4. QED
      BY <2>2, <3>2, <3>3
  <2>4. QED
    BY <1>1, <2>1, <2>2, <2>3, QuietStepKeepsOffers
<1>7. QED
  BY <1>2, <1>3, <1>4, <1>5, <1>6 DEF Fault

LEMMA NextKeepsOffers == RInv /\ KeysAreStored /\ [RNext]_vars => KeysAreStored'
<1> SUFFICES ASSUME RInv, KeysAreStored, [RNext]_vars
             PROVE  KeysAreStored'
  OBVIOUS
<1>1. /\ RowsOK /\ exec \in [Workers -> Activity]
      /\ app.keys \subseteq Stored /\ qa.copy.keys \subseteq Stored /\ NoFiles.keys = {}
      /\ \A c \in Customers : calls[c].copy.keys \subseteq Stored
      /\ \A w \in Workers : Offers(exec[w])
  BY InvParts DEF KeysAreStored, NoFiles
<1>2. CASE Qa
  <2>1. UNCHANGED <<calls, exec, store, rows>>
    BY <1>2 DEF Qa, QaReads, QaWrites, QaEnqueues, QaChecks, QaFinishes
  <2>2. qa.copy \in App /\ qa \in [pc : {"start", "write", "enqueue", "check", "finish", "done"},
                                   copy : App]
    BY <1>1 DEF RowsOK
  <2>3. qa'.copy.keys \subseteq Stored
    BY <1>1, <1>2, <2>2 DEF Qa, QaReads, QaWrites, QaEnqueues, QaChecks, QaFinishes
  <2>4. app'.keys \subseteq Stored
    <3>1. [qa.copy EXCEPT !.stage = "FINAL_QA_RUNNING"].keys = qa.copy.keys
      BY <2>2 DEF App
    <3>2. QED
      BY <1>1, <1>2, <3>1 DEF Qa, QaReads, QaWrites, QaEnqueues, QaChecks, QaFinishes
  <2>5. QED
    BY <1>1, <2>1, <2>3, <2>4, RowStepKeepsOffers
<1>3. ASSUME NEW w \in Workers, NEW j \in JobIds, Deliver(w, j)
      PROVE  KeysAreStored'
  <2> DEFINE me == [Idle EXCEPT !.pc = "lock", !.job = j, !.attached = TRUE]
  <2>1. me.pc = "lock" /\ me.keys = {} /\ me.copy.keys = {}
    BY IdleIsActivity DEF Activity
  <2>2. exec' = [exec EXCEPT ![w] = me] /\ UNCHANGED <<app, qa, calls, store, rows>>
    BY <1>3 DEF Deliver, Go
  <2> HIDE DEF me
  <2>3. QED
    BY <1>1, <2>1, <2>2, QuietStepKeepsOffers
<1>4. CASE \E w \in Workers : Work(w) \/ Exhausted(w)
  BY <1>4, WorkKeepsOffers
<1>5. CASE (\E w \in Workers : Heartbeat(w)) \/ \E k \in Locks : LeaseLapses(k)
  BY <1>1, <1>5, RowStepKeepsOffers DEF Heartbeat, LeaseLapses
<1>6. ASSUME NEW c \in Customers, Retry(c)
      PROVE  KeysAreStored'
  <2>1. /\ calls \in [Customers -> [pc : {"idle", "enqueue", "write", "done"}, copy : App]]
        /\ calls[c].copy \in App
    BY <1>1 DEF RowsOK
  <2>2. UNCHANGED <<qa, exec, store, rows>>
    BY <1>6 DEF Retry, RetryReads, RetryEnqueues, RetryWrites
  <2>3. \A d \in Customers : calls'[d].copy.keys \subseteq Stored
    <3>1. CASE RetryReads(c)
      BY <1>1, <2>1, <3>1 DEF RetryReads
    <3>2. CASE RetryEnqueues(c)
      <4>1. \A d \in Customers : calls'[d].copy = calls[d].copy
        BY <2>1, <3>2 DEF RetryEnqueues
      <4>2. QED
        BY <1>1, <4>1
    <3>3. CASE RetryWrites(c)
      BY <1>1, <2>1, <3>3 DEF RetryWrites
    <3>4. QED
      BY <1>6, <3>1, <3>2, <3>3 DEF Retry
  <2>4. app'.keys \subseteq Stored
    <3>1. CASE RetryWrites(c)
      <4>1. app'.keys = calls[c].copy.keys
        BY <2>1, <3>1 DEF RetryWrites, App
      <4>2. QED
        BY <1>1, <4>1
    <3>2. CASE RetryReads(c) \/ RetryEnqueues(c)
      BY <1>1, <3>2 DEF RetryReads, RetryEnqueues
    <3>3. QED
      BY <1>6, <3>1, <3>2 DEF Retry
  <2>5. QED
    BY <1>1, <2>2, <2>3, <2>4, RowStepKeepsOffers
<1>7. CASE Fault
  BY <1>7, FaultKeepsOffers
<1>8. CASE UNCHANGED vars
  BY <1>1, <1>8, RowStepKeepsOffers DEF vars
<1>9. QED
  BY <1>2, <1>3, <1>4, <1>5, <1>6, <1>7, <1>8 DEF RNext

LEMMA OffersHold == RSpec => [](RInv /\ KeysAreStored)
<1>1. Init => KeysAreStored
  BY IdleIsActivity DEF Init, KeysAreStored, Offers, NoFiles, Idle
<1>2. QED
  BY <1>1, InvHolds, NextKeepsOffers, PTL DEF RSpec

\* A format that is offered for download has an object and a row, whatever is lost, crashes or
\* fails, and whoever wrote the offer from an older copy.
THEOREM OfferedStaysStored == RSpec => []OfferedIsStored
<1>1. KeysAreStored => OfferedIsStored
  BY DEF KeysAreStored, OfferedIsStored, Stored
<1>2. QED
  BY <1>1, OffersHold, PTL

-----------------------------------------------------------------------------
(* The answer to a completed run.                                           *)

\* A job that was added stays, with its formats, and waits until it is delivered.
JobsStay ==
    \A j \in JobIds :
        /\ jobs[j].state # "absent" =>
              jobs'[j].state # "absent" /\ jobs'[j].formats = jobs[j].formats
        /\ jobs[j].state = "waiting" =>
              jobs'[j].state = "waiting" \/ \E w \in Workers : Deliver(w, j)

LEMMA OneJobMoves ==
    ASSUME RInv, NEW j \in JobIds, jobs[j].state # "waiting", jobs[j].state # "absent",
           NEW new, new.state # "absent", new.formats = jobs[j].formats,
           jobs' = [jobs EXCEPT ![j] = new]
    PROVE  JobsStay
<1>1. JobsOK
  BY InvParts
<1>2. jobs'[j] = new /\ \A i \in JobIds \ {j} : jobs'[i] = jobs[i]
  BY <1>1 DEF JobsOK
<1>3. QED
  BY <1>2 DEF JobsStay

LEMMA FailureMovesJob ==
    ASSUME RInv, NEW w \in Workers, exec[w].attached, jobs' = AfterFailure(exec[w].job)
    PROVE  JobsStay
<1>1. exec[w].job \in JobIds /\ jobs[exec[w].job].state = "active"
  BY InvParts DEF Activity, DeliveriesAreActive
<1>2. PICK new : /\ jobs' = [jobs EXCEPT ![exec[w].job] = new]
                 /\ new.state = IF Exhausts(exec[w].job) THEN "failed" ELSE "waiting"
                 /\ new.formats = jobs[exec[w].job].formats
  BY <1>1, AfterFailureIsJobs
<1>3. QED
  BY <1>1, <1>2, OneJobMoves

LEMMA NextKeepsJobs ==
    ASSUME RInv, [RNext]_vars
    PROVE  JobsStay
<1>1. JobsOK /\ exec \in [Workers -> Activity] /\ DeliveriesAreActive
  BY InvParts
<1>2. CASE UNCHANGED jobs
  BY <1>2 DEF JobsStay
<1>3. ASSUME NEW j \in JobIds, NEW formats, jobs' = Added(j, formats)
      PROVE  JobsStay
  BY <1>1, <1>3 DEF JobsOK, Added, JobsStay
<1>4. CASE Qa \/ QaCallFails
  <2>1. "first" \in JobIds
    BY DEF JobIds
  <2>2. UNCHANGED jobs \/ jobs' = Added("first", Formats)
    BY <1>4 DEF Qa, QaReads, QaWrites, QaEnqueues, QaChecks, QaFinishes, QaCallFails
  <2>3. QED
    BY <1>2, <1>3, <2>1, <2>2
<1>5. ASSUME NEW c \in Customers, Retry(c) \/ CustomerCallFails(c)
      PROVE  JobsStay
  <2>1. c \in JobIds
    BY DEF JobIds
  <2>2. UNCHANGED jobs \/ \E formats : jobs' = Added(c, formats)
    BY <1>5 DEF Retry, RetryReads, RetryEnqueues, RetryWrites, CustomerCallFails
  <2>3. QED
    BY <1>2, <1>3, <2>1, <2>2
<1>6. ASSUME NEW w \in Workers, NEW j \in JobIds, Deliver(w, j)
      PROVE  JobsStay
  <2>1. /\ jobs'[j].state = "active" /\ jobs'[j].formats = jobs[j].formats
        /\ \A i \in JobIds \ {j} : jobs'[i] = jobs[i]
    BY <1>1, <1>6 DEF Deliver, JobsOK
  <2>2. QED
    BY <1>6, <2>1 DEF JobsStay
<1>7. ASSUME NEW w \in Workers, Resolve(w) \/ WorkerCrash(w)
      PROVE  JobsStay
  <2>1. CASE exec[w].attached
    <3>1. exec[w].job \in JobIds /\ jobs[exec[w].job].state = "active"
      BY <1>1, <2>1 DEF Activity, DeliveriesAreActive
    <3>2. PICK state \in {"completed", "waiting"} :
             jobs' = [jobs EXCEPT ![exec[w].job].state = state]
      BY <1>7, <2>1 DEF Resolve, WorkerCrash
    <3> DEFINE new == [jobs[exec[w].job] EXCEPT !.state = state]
    <3>3. new.state = state /\ new.formats = jobs[exec[w].job].formats
      BY <1>1, <3>1 DEF JobsOK
    <3>4. jobs' = [jobs EXCEPT ![exec[w].job] = new]
      BY <3>2
    <3> HIDE DEF new
    <3>5. new.state # "absent"
      BY <3>3
    <3>6. QED
      BY <3>1, <3>3, <3>4, <3>5, OneJobMoves
  <2>2. CASE ~exec[w].attached
    BY <1>2, <1>7, <2>2 DEF Resolve, WorkerCrash
  <2>3. QED
    BY <2>1, <2>2
<1>8. ASSUME NEW w \in Workers, Reject(w) \/ \E v \in Workers : JobTimeout(w, v)
      PROVE  JobsStay
  <2>1. UNCHANGED jobs \/ (exec[w].attached /\ jobs' = AfterFailure(exec[w].job))
    BY <1>8 DEF Reject, JobTimeout
  <2>2. QED
    BY <1>2, <2>1, FailureMovesJob
<1>9. ASSUME NEW w \in Workers, Work(w), ~Resolve(w), ~Reject(w)
      PROVE  JobsStay
  BY <1>2, <1>9
  DEF Work, Lock, Open, Export, AssertLease, Publish, Unlock, ClaimFormat, LookUp, Head, Render,
      Record, Upload, Verify, CreateRow, ReleaseFormat
<1>10. CASE \E w \in Workers : Exhausted(w) \/ Heartbeat(w) \/ CallFails(w)
  BY <1>2, <1>10
  DEF Exhausted, Heartbeat, CallFails, GiveUp, HookChecks, HookFailsRun, HookReadsApp, HookMarks
<1>11. CASE (\E k \in Locks : LeaseLapses(k)) \/ UNCHANGED vars
  BY <1>2, <1>11 DEF LeaseLapses, vars
<1>12. QED
  BY <1>4, <1>5, <1>6, <1>7, <1>8, <1>9, <1>10, <1>11 DEF RNext, Fault

\* A worker that is not idle has a job that was, or goes on with the one it had, or takes that of
\* another one.
LEMMA WorkersKeepJobs ==
    ASSUME RInv, [RNext]_vars, NEW v \in Workers, exec'[v].pc # "idle"
    PROVE  \/ exec'[v].job = exec[v].job /\ exec[v].pc # "idle"
           \/ jobs[exec'[v].job].state \in {"waiting", "active"}
<1>1. JobsOK /\ exec \in [Workers -> Activity] /\ DeliveriesAreActive
  BY InvParts
<1>2. ASSUME NEW w \in Workers, NEW me, exec' = [exec EXCEPT ![w] = me],
             \/ me.pc = "idle"
             \/ me.job = exec[w].job /\ exec[w].pc # "idle"
             \/ jobs[me.job].state \in {"waiting", "active"}
      PROVE  \/ exec'[v].job = exec[v].job /\ exec[v].pc # "idle"
             \/ jobs[exec'[v].job].state \in {"waiting", "active"}
  BY <1>1, <1>2
<1>3. CASE UNCHANGED exec
  BY <1>3
<1>4. ASSUME NEW w \in Workers, NEW j \in JobIds, Deliver(w, j)
      PROVE  \/ exec'[v].job = exec[v].job /\ exec[v].pc # "idle"
             \/ jobs[exec'[v].job].state \in {"waiting", "active"}
  <2> DEFINE me == [Idle EXCEPT !.pc = "lock", !.job = j, !.attached = TRUE]
  <2>1. me.job = j
    BY IdleIsActivity DEF Activity
  <2>2. exec' = [exec EXCEPT ![w] = me] /\ jobs[j].state = "waiting"
    BY <1>4 DEF Deliver, Go
  <2> HIDE DEF me
  <2>3. QED
    BY <1>2, <2>1, <2>2
<1>5. ASSUME NEW w \in Workers, Work(w) \/ Exhausted(w) \/ CallFails(w) \/ WorkerCrash(w)
      PROVE  \/ exec'[v].job = exec[v].job /\ exec[v].pc # "idle"
             \/ jobs[exec'[v].job].state \in {"waiting", "active"}
  <2>1. exec[w] \in Activity /\ exec[w].job \in JobIds
    BY <1>1 DEF Activity
  <2>2. exec[w].pc # "idle"
    BY <1>5
    DEF Work, Lock, Open, Export, AssertLease, Publish, Unlock, Resolve, Reject, ClaimFormat,
        LookUp, Head, Render, Record, Upload, Verify, CreateRow, ReleaseFormat, Exhausted, GiveUp,
        HookChecks, HookFailsRun, HookReadsApp, HookMarks, CallFails, WorkerCrash, At
  <2>3. ASSUME NEW me, Go(w, me), me.pc = "idle" \/ me.job = exec[w].job
        PROVE  \/ exec'[v].job = exec[v].job /\ exec[v].pc # "idle"
               \/ jobs[exec'[v].job].state \in {"waiting", "active"}
    BY <1>2, <2>2, <2>3 DEF Go
  <2>4. \A pc : [exec[w] EXCEPT !.pc = pc].job = exec[w].job
    BY <2>1 DEF Activity
  <2>5. \A ok \in BOOLEAN : Next1(w, ok).job = exec[w].job
    BY <2>1, Next1IsActivity
  <2>6. /\ Idle.pc = "idle" /\ Hook(exec[w].job).job = exec[w].job
        /\ exec[w].ok \in BOOLEAN
    BY <2>1, IdleIsActivity DEF Activity
  <2>7. \A pc : Steps(w, pc) => \/ exec'[v].job = exec[v].job /\ exec[v].pc # "idle"
                                \/ jobs[exec'[v].job].state \in {"waiting", "active"}
    BY <2>3, <2>4 DEF Steps
  <2>8. \A ok \in BOOLEAN : Go(w, Next1(w, ok)) =>
             \/ exec'[v].job = exec[v].job /\ exec[v].pc # "idle"
             \/ jobs[exec'[v].job].state \in {"waiting", "active"}
    BY <2>3, <2>5
  <2>9. FailsFormat(w) => \/ exec'[v].job = exec[v].job /\ exec[v].pc # "idle"
                          \/ jobs[exec'[v].job].state \in {"waiting", "active"}
    <3>1. [exec[w] EXCEPT !.pc = "release", !.ok = FALSE].job = exec[w].job
      BY <2>1 DEF Activity
    <3>2. QED
      BY <2>3, <3>1 DEF FailsFormat
  <2>10. CASE Export(w)
    <3>1. CASE LookUp(w)
      <4>1. \A pc, sum : [exec[w] EXCEPT !.pc = pc, !.sum = sum].job = exec[w].job
        BY <2>1 DEF Activity
      <4>2. QED
        BY <2>3, <3>1, <4>1 DEF LookUp
    <3>2. CASE Render(w)
      <4>1. \A sum : [exec[w] EXCEPT !.pc = "record", !.sum = sum].job = exec[w].job
        BY <2>1 DEF Activity
      <4>2. QED
        BY <2>3, <2>9, <3>2, <4>1 DEF Render
    <3>3. CASE CreateRow(w)
      <4>1. [exec[w] EXCEPT !.pc = "release", !.ok = TRUE].job = exec[w].job
        BY <2>1 DEF Activity
      <4>2. QED
        BY <2>3, <3>3, <4>1 DEF CreateRow
    <3>4. CASE ClaimFormat(w) \/ ReleaseFormat(w)
      BY <2>6, <2>7, <2>8, <3>4 DEF ClaimFormat, ReleaseFormat
    <3>5. CASE Head(w) \/ Record(w) \/ Upload(w) \/ Verify(w)
      BY <2>7, <2>9, <3>5 DEF Head, Record, Upload, Verify
    <3>6. QED
      BY <2>10, <3>1, <3>2, <3>3, <3>4, <3>5 DEF Export
  <2>11. CASE Open(w)
    <3>1. [exec[w] EXCEPT !.pc = "claim", !.left = jobs[exec[w].job].formats,
                          !.keys = app.keys, !.errors = app.errors].job = exec[w].job
      BY <2>1 DEF Activity
    <3>2. QED
      BY <2>3, <2>11, <3>1 DEF Open
  <2>12. CASE AssertLease(w) \/ Publish(w)
    <3>1. \A ok : [exec[w] EXCEPT !.pc = "unlock", !.ok = ok].job = exec[w].job
      BY <2>1 DEF Activity
    <3>2. QED
      BY <2>3, <2>7, <2>12, <3>1 DEF AssertLease, Publish
  <2>13. CASE Resolve(w) \/ Reject(w) \/ WorkerCrash(w)
    BY <2>3, <2>6, <2>13 DEF Resolve, Reject, WorkerCrash
  <2>14. CASE Lock(w) \/ Unlock(w)
    BY <2>7, <2>14 DEF Lock, Unlock
  <2>15. CASE Exhausted(w)
    <3>1. [exec[w] EXCEPT !.pc = "mark", !.copy = app].job = exec[w].job
      BY <2>1 DEF Activity
    <3>2. QED
      BY <2>3, <2>6, <2>7, <2>15, <3>1
      DEF Exhausted, GiveUp, HookChecks, HookFailsRun, HookReadsApp, HookMarks
  <2>16. CASE CallFails(w)
    <3>1. AfterCallFails(w).pc = "idle" \/ AfterCallFails(w).job = exec[w].job
      <4>1. \A pc, ok : [exec[w] EXCEPT !.pc = pc, !.ok = ok].job = exec[w].job
        BY <2>1 DEF Activity
      <4>2. Next1(w, FALSE).job = exec[w].job
        BY <2>1, Next1IsActivity
      <4>3. QED
        BY <2>4, <2>6, <4>1, <4>2 DEF AfterCallFails
    <3>2. QED
      BY <2>3, <2>16, <3>1 DEF CallFails
  <2>17. QED
    BY <1>5, <2>10, <2>11, <2>12, <2>13, <2>14, <2>15, <2>16 DEF Work
<1>6. ASSUME NEW w \in Workers, NEW u \in Workers, JobTimeout(w, u)
      PROVE  \/ exec'[v].job = exec[v].job /\ exec[v].pc # "idle"
             \/ jobs[exec'[v].job].state \in {"waiting", "active"}
  <2>1. exec[w].job \in JobIds /\ jobs[exec[w].job].state = "active"
    BY <1>1, <1>6 DEF Activity, JobTimeout, DeliveriesAreActive
  <2>2. \/ exec'[v].job = exec[v].job /\ exec'[v].pc = exec[v].pc
        \/ exec'[v].job = exec[w].job
    BY <1>1, <1>6, <2>1, IdleIsActivity DEF JobTimeout, Activity
  <2>3. QED
    BY <2>1, <2>2
<1>7. UNCHANGED exec \/ (\E w \in Workers, j \in JobIds : Deliver(w, j))
      \/ (\E w \in Workers : Work(w) \/ Exhausted(w) \/ CallFails(w) \/ WorkerCrash(w))
      \/ (\E w, u \in Workers : JobTimeout(w, u))
  BY DEF RNext, vars, Fault, Qa, QaReads, QaWrites, QaEnqueues, QaChecks, QaFinishes, QaCallFails,
         Heartbeat, LeaseLapses, Retry, RetryReads, RetryEnqueues, RetryWrites, CustomerCallFails
<1>8. QED
  BY <1>3, <1>4, <1>5, <1>6, <1>7

LEMMA NextKeepsFirst == RInv /\ JobsComeFirst /\ [RNext]_vars => JobsComeFirst'
<1> SUFFICES ASSUME RInv, JobsComeFirst, [RNext]_vars
             PROVE  JobsComeFirst'
  OBVIOUS
<1>1. /\ JobsStay /\ JobsOK /\ "first" \in JobIds /\ exec \in [Workers -> Activity]
      /\ exec' \in [Workers -> Activity]
  BY NextKeepsJobs, NextKeepsInv, InvParts, InvPartsNext DEF JobIds, RInv, RTypeOK, Activity
<1>2. jobs["first"].state = "absent" => UNCHANGED jobs["first"] \/ QaEnqueues
  <2>1. CASE Qa
    BY <2>1 DEF Qa, QaReads, QaWrites, QaEnqueues, QaChecks, QaFinishes
  <2>2. ASSUME NEW c \in Customers, Retry(c), jobs["first"].state = "absent"
        PROVE  UNCHANGED jobs["first"]
    <3>1. c # "first"
      BY RenderingAssumption
    <3>2. UNCHANGED jobs \/ \E formats : jobs' = Added(c, formats)
      BY <2>2 DEF Retry, RetryReads, RetryEnqueues, RetryWrites
    <3>3. QED
      BY <1>1, <3>1, <3>2 DEF Added, JobsOK
  <2>3. ASSUME NEW w \in Workers, NEW j \in JobIds, Deliver(w, j), jobs["first"].state = "absent"
        PROVE  UNCHANGED jobs["first"]
    BY <1>1, <2>3 DEF Deliver, JobsOK
  <2>4. ASSUME NEW w \in Workers, jobs["first"].state = "absent",
               Work(w) \/ WorkerCrash(w) \/ \E v \in Workers : JobTimeout(w, v)
        PROVE  UNCHANGED jobs["first"]
    <3>1. exec[w].attached => exec[w].job \in JobIds /\ exec[w].job # "first"
      BY <1>1, <2>4, InvParts DEF DeliveriesAreActive, Activity
    <3>2. \/ UNCHANGED jobs
          \/ exec[w].attached /\ \E new : jobs' = [jobs EXCEPT ![exec[w].job] = new]
      <4>1. CASE exec[w].attached /\ jobs' = AfterFailure(exec[w].job)
        BY <1>1, <3>1, <4>1, AfterFailureIsJobs, InvParts DEF DeliveriesAreActive
      <4>2. CASE exec[w].attached /\ \E state : jobs' = [jobs EXCEPT ![exec[w].job].state = state]
        BY <4>2
      <4>3. QED
        BY <2>4, <4>1, <4>2
        DEF Work, Lock, Open, Export, AssertLease, Publish, Unlock, ClaimFormat, LookUp, Head,
            Render, Record, Upload, Verify, CreateRow, ReleaseFormat, Resolve, Reject,
            WorkerCrash, JobTimeout
    <3>3. QED
      BY <1>1, <3>1, <3>2 DEF JobsOK
  <2>5. CASE \/ \E w \in Workers : Exhausted(w) \/ Heartbeat(w) \/ CallFails(w)
             \/ \E k \in Locks : LeaseLapses(k)
             \/ \E c \in Customers : CustomerCallFails(c)
             \/ QaCallFails \/ UNCHANGED vars
    BY <2>5
    DEF Exhausted, Heartbeat, CallFails, GiveUp, HookChecks, HookFailsRun, HookReadsApp, HookMarks,
        LeaseLapses, CustomerCallFails, QaCallFails, vars
  <2>6. QED
    BY <2>1, <2>2, <2>3, <2>4, <2>5 DEF RNext, Fault
<1>3. QaEnqueues => /\ jobs'["first"].state # "absent"
                    /\ jobs["first"].state = "absent" => jobs'["first"].formats = Formats
  BY <1>1 DEF QaEnqueues, Added, JobsOK
<1>4. jobs'["first"].state # "absent" => jobs'["first"].formats = Formats
  BY <1>1, <1>2, <1>3 DEF JobsStay, JobsComeFirst
<1>5. qa'.pc \in {"check", "finish"} \/ run' = "FINAL_READY" => jobs'["first"].state # "absent"
  <2>1. \/ QaEnqueues
        \/ qa'.pc \in {"check", "finish"} \/ run' = "FINAL_READY" =>
             qa.pc \in {"check", "finish"} \/ run = "FINAL_READY"
    <3>1. qa \in [pc : {"start", "write", "enqueue", "check", "finish", "done"}, copy : App]
      BY InvParts DEF RowsOK
    <3>2. CASE Qa \/ QaCallFails
      BY <3>1, <3>2 DEF Qa, QaReads, QaWrites, QaChecks, QaFinishes, QaCallFails
    <3>3. CASE ~Qa /\ ~QaCallFails
      BY <3>3
      DEF RNext, Fault, Deliver, Work, Lock, Open, Export, AssertLease, Publish, Unlock,
          ClaimFormat, LookUp, Head, Render, Record, Upload, Verify, CreateRow, ReleaseFormat,
          Resolve, Reject, WorkerCrash, JobTimeout, Exhausted, Heartbeat, CallFails, GiveUp,
          HookChecks, HookFailsRun, HookReadsApp, HookMarks, LeaseLapses, CustomerCallFails,
          Retry, RetryReads, RetryEnqueues, RetryWrites, vars
    <3>4. QED
      BY <3>2, <3>3
  <2>2. QED
    BY <1>1, <1>3, <2>1 DEF JobsStay, JobsComeFirst
<1>6. ASSUME NEW v \in Workers, exec'[v].pc # "idle"
      PROVE  jobs'[exec'[v].job].state # "absent"
  <2>1. exec'[v].job \in JobIds
    BY <1>1 DEF Activity
  <2>2. jobs[exec'[v].job].state # "absent"
    BY <1>6, WorkersKeepJobs DEF JobsComeFirst, At
  <2>3. QED
    BY <1>1, <2>1, <2>2 DEF JobsStay
<1>7. QED
  BY <1>4, <1>5, <1>6 DEF JobsComeFirst, At

LEMMA UndisturbedSteps ==
    ASSUME RInv, [RNext]_vars, Undisturbed'
    PROVE  /\ Undisturbed
           /\ \/ Qa
              \/ \E w \in Workers, j \in JobIds : Deliver(w, j)
              \/ \E w \in Workers : Work(w) \/ Exhausted(w) \/ Heartbeat(w)
              \/ \E k \in Locks : LeaseLapses(k)
              \/ \E w, v \in Workers : JobTimeout(w, v)
              \/ UNCHANGED vars
<1>1. /\ RowsOK
      /\ calls \in [Customers -> [pc : {"idle", "enqueue", "write", "done"}, copy : App]]
      /\ faults' \in [detached : 0..MaxDetached, lapses : 0..MaxLapses, crashes : 0..MaxCrashes,
                      failures : 0..MaxFailures]
  BY NextKeepsInv, InvParts DEF RowsOK, RInv, RTypeOK
<1>2. faults.crashes = 0 /\ faults.failures = 0
  BY FaultsOnlyGrow DEF Undisturbed
<1>3. ~Counts("failures", MaxFailures) /\ ~Counts("crashes", MaxCrashes)
  <2>1. ASSUME Counts("failures", MaxFailures)
        PROVE  FALSE
    BY <1>1, <2>1, CountsKeepType DEF Undisturbed
  <2>2. ASSUME Counts("crashes", MaxCrashes)
        PROVE  FALSE
    BY <1>1, <2>2, CountsKeepType DEF Undisturbed
  <2>3. QED
    BY <2>1, <2>2
<1>4. ASSUME NEW c \in Customers
      PROVE  ~Retry(c) /\ ~CustomerCallFails(c)
  <2>1. ~CustomerCallFails(c)
    BY <1>3 DEF CustomerCallFails
  <2>2. ASSUME Retry(c)
        PROVE  calls'[c].pc # "idle"
    BY <1>1, <2>2 DEF Retry, RetryReads, RetryEnqueues, RetryWrites
  <2>3. QED
    BY <2>1, <2>2 DEF Undisturbed
<1>5. ~QaCallFails /\ \A w \in Workers : ~CallFails(w) /\ ~WorkerCrash(w)
  BY <1>3 DEF QaCallFails, CallFails, WorkerCrash
<1>6. \/ Qa
      \/ \E w \in Workers, j \in JobIds : Deliver(w, j)
      \/ \E w \in Workers : Work(w) \/ Exhausted(w) \/ Heartbeat(w)
      \/ \E k \in Locks : LeaseLapses(k)
      \/ \E w, v \in Workers : JobTimeout(w, v)
      \/ UNCHANGED vars
  BY <1>4, <1>5 DEF RNext, Fault
<1>7. UNCHANGED calls
  BY <1>6
  DEF Deliver, Work, Lock, Open, Export, AssertLease, Publish, Unlock, ClaimFormat, LookUp, Head,
      Render, Record, Upload, Verify, CreateRow, ReleaseFormat, Resolve, Reject, JobTimeout,
      Exhausted, Heartbeat, GiveUp, HookChecks, HookFailsRun, HookReadsApp, HookMarks, LeaseLapses,
      Qa, QaReads, QaWrites, QaEnqueues, QaChecks, QaFinishes, vars
<1>8. QED
  BY <1>2, <1>6, <1>7 DEF Undisturbed

\* No job of a customer's is added, and the first one is before the run goes on.
LEMMA JobsOfTheRun ==
    ASSUME RInv, JobsComeFirst, JobsAnswer, NEW w \in Workers, exec[w].pc # "idle"
    PROVE  /\ exec[w].job = "first" /\ jobs["first"].state # "absent"
           /\ jobs["first"].formats = Formats
BY InvParts DEF JobsComeFirst, JobsAnswer, Activity, JobIds, At

\* Worker w becomes me; the publication lease stays with its holder, or w takes it or gives it up.
LEMMA StepKeepsAnswers ==
    ASSUME RInv, JobsAnswer, NEW w \in Workers, NEW me,
           exec' = [exec EXCEPT ![w] = me], UNCHANGED qa,
           \A j \in JobIds : jobs'[j].state = "absent" <=> jobs[j].state = "absent",
           Answered => Answered',
           \/ lease'["publish"].holder = lease["publish"].holder
           \/ lease'["publish"].holder = w
           \/ lease["publish"].holder = w /\ lease'["publish"].holder = "nobody",
           Pending => Answered' \/ Pending',
           Accounted(me),
           lease'["publish"].holder = w =>
               me.pc \in Publishing \/ (me.pc = "unlock" /\ Answered')
    PROVE  JobsAnswer'
<1>1. exec \in [Workers -> Activity] /\ "first" \in JobIds /\ Customers \subseteq JobIds
      /\ {"nobody", "gone"} \cap Workers = {}
  BY InvParts, RenderingAssumption DEF JobIds
<1>2. ASSUME NEW v \in Workers
      PROVE  Accounted(exec[v])' /\ HolderAnswers(v)'
  <2>1. CASE v = w
    <3>1. exec'[v] = me
      BY <1>1, <2>1
    <3>2. QED
      BY <2>1, <3>1 DEF Accounted, HolderAnswers, Held, At
  <2>2. CASE v # w
    <3>1. exec'[v] = exec[v] /\ Accounted(exec[v]) /\ HolderAnswers(v)
      BY <1>1, <2>2 DEF JobsAnswer
    <3>2. Held(v, "publish")' => Held(v, "publish")
      BY <1>1, <2>2 DEF Held
    <3>3. Accounted(exec[v])'
      BY <3>1 DEF Accounted
    <3>4. HolderAnswers(v)'
      BY <3>1, <3>2 DEF HolderAnswers, At
    <3>5. QED
      BY <3>3, <3>4
  <2>3. QED
    BY <2>1, <2>2
<1>3. lease'["publish"].holder # "gone"
  BY <1>1 DEF JobsAnswer
<1>4. jobs'["first"].state # "absent" => Answered' \/ Pending'
  BY <1>1 DEF JobsAnswer
<1>5. /\ qa'.pc \in {"start", "write", "enqueue"} => jobs'["first"].state = "absent"
      /\ \A c \in Customers : jobs'[c].state = "absent"
  BY <1>1 DEF JobsAnswer
<1>6. QED
  BY <1>2, <1>3, <1>4, <1>5 DEF JobsAnswer

\* A step that does not publish and leaves the publication lease alone.
LEMMA QuietStepKeepsAnswers ==
    ASSUME RInv, JobsAnswer, NEW w \in Workers, NEW me,
           exec' = [exec EXCEPT ![w] = me], UNCHANGED <<qa, app>>,
           \A j \in JobIds : jobs'[j].state = "absent" <=> jobs[j].state = "absent",
           jobs["first"].state = "waiting" => jobs'["first"].state = "waiting",
           lease'["publish"].holder = lease["publish"].holder,
           Accounted(me),
           exec[w].pc \notin {"lock", "unlock"},
           exec[w].pc \in Publishing /\ lease["publish"].holder = w => me.pc \in Publishing
    PROVE  JobsAnswer'
<1>1. exec \in [Workers -> Activity]
  BY InvParts
<1>2. Answered => Answered'
  BY DEF Answered, Downloadable
<1>3. Pending => Pending'
  <2>1. CASE jobs["first"].state = "waiting"
    BY <2>1 DEF Pending
  <2>2. ASSUME NEW v \in Workers,
               At(v, "lock") \/ (Held(v, "publish") /\ exec[v].pc \in Publishing)
        PROVE  Pending'
    <3>1. CASE v = w
      <4>1. Held(w, "publish") /\ exec[w].pc \in Publishing /\ exec'[w] = me
        BY <1>1, <2>2, <3>1 DEF At
      <4>2. Held(w, "publish")' /\ exec'[w].pc \in Publishing
        BY <4>1 DEF Held
      <4>3. QED
        BY <4>2 DEF Pending
    <3>2. CASE v # w
      <4>1. exec'[v] = exec[v]
        BY <1>1, <3>2
      <4>2. At(v, "lock")' \/ (Held(v, "publish")' /\ exec'[v].pc \in Publishing)
        BY <2>2, <4>1 DEF At, Held
      <4>3. QED
        BY <4>2 DEF Pending
    <3>3. QED
      BY <3>1, <3>2
  <2>3. QED
    BY <2>1, <2>2 DEF Pending
<1>4. lease'["publish"].holder = w => me.pc \in Publishing \/ (me.pc = "unlock" /\ Answered')
  <2>1. SUFFICES ASSUME lease["publish"].holder = w
                 PROVE  me.pc \in Publishing \/ (me.pc = "unlock" /\ Answered')
    OBVIOUS
  <2>2. HolderAnswers(w) /\ Held(w, "publish")
    BY <2>1 DEF JobsAnswer, Held
  <2>3. exec[w].pc \in Publishing \/ (exec[w].pc = "unlock" /\ Answered)
    BY <2>2 DEF HolderAnswers, At
  <2>4. QED
    BY <1>2, <2>1, <2>3
<1>5. QED
  BY <1>2, <1>3, <1>4, StepKeepsAnswers

LEMMA ExportKeepsAnswers ==
    ASSUME RInv, JobsAnswer, NEW w \in Workers, Export(w)
    PROVE  JobsAnswer'
<1> DEFINE stepped(pc) == [exec[w] EXCEPT !.pc = pc]
<1> DEFINE f == Current(w)
<1>1. /\ exec[w] \in Activity /\ f \in Formats /\ Accounted(exec[w])
      /\ f \in Locks /\ f # "publish" /\ "publish" \in Locks
  BY InvParts, FormatsAreLocks, CurrentIsFormat DEF JobsAnswer
<1>2. exec[w].pc \in ExportPcs
  BY DEF Export, ClaimFormat, LookUp, Head, Render, Record, Upload, Verify, CreateRow,
         ReleaseFormat, At, ExportPcs
<1>3. UNCHANGED <<qa, app, jobs>>
  BY DEF Export, ClaimFormat, LookUp, Head, Render, Record, Upload, Verify, CreateRow,
         ReleaseFormat
<1>4. lease'["publish"].holder = lease["publish"].holder
  <2>1. lease \in Leases
    BY InvParts DEF RowsOK
  <2>2. CASE ClaimFormat(w)
    BY <1>1, <2>1, <2>2 DEF ClaimFormat, Leases
  <2>3. CASE ReleaseFormat(w)
    BY <1>1, <2>1, <2>3 DEF ReleaseFormat, Released, Leases
  <2>4. CASE ~ClaimFormat(w) /\ ~ReleaseFormat(w)
    BY <2>4 DEF Export, LookUp, Head, Render, Record, Upload, Verify, CreateRow
  <2>5. QED
    BY <2>2, <2>3, <2>4
\* The formats done stay accounted for, and one more is when w goes on to the next.
<1>5. ASSUME NEW me, exec' = [exec EXCEPT ![w] = me], me.pc \in ExportPcs,
             me.left = exec[w].left, me.failed = exec[w].failed, me.keys = exec[w].keys,
             me.errors = exec[w].errors
      PROVE  JobsAnswer'
  <2>1. Accounted(me)
    BY <1>1, <1>2, <1>5 DEF Accounted, ExportPcs
  <2>2. me.pc \in Publishing /\ exec[w].pc \notin {"lock", "unlock"}
    BY <1>2, <1>5 DEF Publishing, LockedPcs, ExportPcs
  <2>3. QED
    BY <1>3, <1>4, <1>5, <2>1, <2>2, QuietStepKeepsAnswers
<1>6. ASSUME NEW ok \in BOOLEAN, Go(w, Next1(w, ok))
      PROVE  JobsAnswer'
  <2> DEFINE me == Next1(w, ok)
  <2>1. exec' = [exec EXCEPT ![w] = me]
    BY <1>6 DEF Go
  <2>2. /\ me.left = exec[w].left \ {f}
        /\ me.pc = IF me.left = {} THEN "assert" ELSE "claim"
        /\ me.keys = IF ok THEN exec[w].keys \cup {f} ELSE exec[w].keys
        /\ me.errors = IF ok THEN exec[w].errors \ {f} ELSE exec[w].errors \cup {f}
        /\ me.failed = IF ok THEN exec[w].failed ELSE exec[w].failed \cup {f}
    BY <1>1, Next1IsActivity
  <2> HIDE DEF me
  <2>3. \A g \in Formats \ exec[w].left :
           g \in exec[w].failed \/ g \in exec[w].keys \ exec[w].errors
    BY <1>1, <1>2 DEF Accounted
  <2>4. f \in exec[w].left
    <3>1. exec[w].left # {} /\ exec[w].left \subseteq Formats
      BY <1>1, <1>2 DEF Accounted, Activity
    <3>2. QED
      BY <3>1 DEF Current, Formats
  <2>5. ASSUME NEW g \in Formats \ me.left
        PROVE  g \in me.failed \/ g \in me.keys \ me.errors
    <3>1. CASE g = f
      BY <2>2, <3>1
    <3>2. CASE g # f
      <4>1. g \in Formats \ exec[w].left
        BY <2>2, <2>5, <3>2
      <4>2. g \in exec[w].failed \/ g \in exec[w].keys \ exec[w].errors
        BY <2>3, <4>1
      <4>3. QED
        BY <2>2, <3>2, <4>2
    <3>3. QED
      BY <3>1, <3>2
  <2>6. /\ me.pc \in {"assert", "claim"} /\ (me.pc = "claim" => me.left # {})
        /\ me.pc = "assert" => me.left = {}
    BY <2>2
  <2>7. Accounted(me)
    BY <2>5, <2>6 DEF Accounted, ExportPcs
  <2>8. me.pc \in Publishing /\ exec[w].pc \notin {"lock", "unlock"}
    BY <1>2, <2>6 DEF Publishing, LockedPcs, ExportPcs
  <2>9. QED
    BY <1>3, <1>4, <2>1, <2>7, <2>8, QuietStepKeepsAnswers
<1>7. ASSUME NEW pc \in ExportPcs, Steps(w, pc)
      PROVE  JobsAnswer'
  <2> DEFINE me == [exec[w] EXCEPT !.pc = pc]
  <2>1. /\ me.pc = pc /\ me.left = exec[w].left /\ me.failed = exec[w].failed
        /\ me.keys = exec[w].keys /\ me.errors = exec[w].errors
    BY <1>1 DEF Activity
  <2>2. exec' = [exec EXCEPT ![w] = me]
    BY <1>7 DEF Steps, Go
  <2> HIDE DEF me
  <2>3. QED
    BY <1>5, <1>7, <2>1, <2>2
<1>8. ASSUME NEW ok \in BOOLEAN, Go(w, [exec[w] EXCEPT !.pc = "release", !.ok = ok])
      PROVE  JobsAnswer'
  <2> DEFINE me == [exec[w] EXCEPT !.pc = "release", !.ok = ok]
  <2>1. /\ me.pc \in ExportPcs /\ me.left = exec[w].left /\ me.failed = exec[w].failed
        /\ me.keys = exec[w].keys /\ me.errors = exec[w].errors
    BY <1>1 DEF Activity, ExportPcs
  <2>2. exec' = [exec EXCEPT ![w] = me]
    BY <1>8 DEF Go
  <2> HIDE DEF me
  <2>3. QED
    BY <1>5, <2>1, <2>2
<1>9. ASSUME NEW pc \in ExportPcs, NEW sum, Go(w, [exec[w] EXCEPT !.pc = pc, !.sum = sum])
      PROVE  JobsAnswer'
  <2> DEFINE me == [exec[w] EXCEPT !.pc = pc, !.sum = sum]
  <2>1. /\ me.pc = pc /\ me.left = exec[w].left /\ me.failed = exec[w].failed
        /\ me.keys = exec[w].keys /\ me.errors = exec[w].errors
    BY <1>1 DEF Activity
  <2>2. exec' = [exec EXCEPT ![w] = me]
    BY <1>9 DEF Go
  <2> HIDE DEF me
  <2>3. QED
    BY <1>5, <1>9, <2>1, <2>2
<1>10. CASE ClaimFormat(w)
  BY <1>6, <1>7, <1>10 DEF ClaimFormat, ExportPcs
<1>11. CASE LookUp(w)
  <2>1. PICK pc \in ExportPcs : Go(w, [exec[w] EXCEPT !.pc = pc, !.sum = record[f]])
    BY <1>11 DEF LookUp, ExportPcs
  <2>2. QED
    BY <1>9, <2>1
<1>12. CASE Head(w)
  <2>1. PICK pc \in ExportPcs : Steps(w, pc)
    BY <1>12 DEF Head, ExportPcs
  <2>2. QED
    BY <1>7, <2>1
<1>13. CASE Render(w)
  BY <1>8, <1>9, <1>13 DEF Render, FailsFormat, ExportPcs
<1>14. CASE Record(w) \/ Upload(w) \/ Verify(w)
  BY <1>7, <1>8, <1>14 DEF Record, Upload, Verify, FailsFormat, ExportPcs
<1>15. CASE CreateRow(w)
  BY <1>8, <1>15 DEF CreateRow
<1>16. CASE ReleaseFormat(w)
  <2>1. exec[w].ok \in BOOLEAN /\ Go(w, Next1(w, exec[w].ok))
    BY <1>1, <1>16 DEF ReleaseFormat, Activity
  <2>2. QED
    BY <1>6, <2>1
<1>17. QED
  BY <1>10, <1>11, <1>12, <1>13, <1>14, <1>15, <1>16 DEF Export

\* The queue learns how a delivery ended.
LEMMA AnsweredJobs ==
    ASSUME RInv, NEW w \in Workers,
           \/ UNCHANGED jobs
           \/ exec[w].attached /\ jobs' = AfterFailure(exec[w].job)
           \/ exec[w].attached /\ jobs' = [jobs EXCEPT ![exec[w].job].state = "completed"]
    PROVE  /\ \A j \in JobIds : jobs'[j].state = "absent" <=> jobs[j].state = "absent"
           /\ jobs["first"].state = "waiting" => jobs'["first"].state = "waiting"
<1>1. JobsOK /\ "first" \in JobIds
  BY InvParts DEF JobIds
<1>2. exec[w].attached => exec[w].job \in JobIds /\ jobs[exec[w].job].state = "active"
  BY InvParts DEF Activity, DeliveriesAreActive
<1>3. ASSUME NEW new, new.state # "absent", exec[w].attached,
             jobs' = [jobs EXCEPT ![exec[w].job] = new]
      PROVE  /\ \A j \in JobIds : jobs'[j].state = "absent" <=> jobs[j].state = "absent"
             /\ jobs["first"].state = "waiting" => jobs'["first"].state = "waiting"
  BY <1>1, <1>2, <1>3 DEF JobsOK
<1>4. CASE UNCHANGED jobs
  BY <1>4
<1>5. CASE exec[w].attached /\ jobs' = AfterFailure(exec[w].job)
  <2>1. PICK new : /\ AfterFailure(exec[w].job) = [jobs EXCEPT ![exec[w].job] = new]
                   /\ new.state = IF Exhausts(exec[w].job) THEN "failed" ELSE "waiting"
    BY <1>2, <1>5, AfterFailureIsJobs
  <2>2. QED
    BY <1>3, <1>5, <2>1
<1>6. CASE exec[w].attached /\ jobs' = [jobs EXCEPT ![exec[w].job].state = "completed"]
  <2> DEFINE new == [jobs[exec[w].job] EXCEPT !.state = "completed"]
  <2>1. new.state = "completed" /\ jobs' = [jobs EXCEPT ![exec[w].job] = new]
    BY <1>1, <1>2, <1>6 DEF JobsOK
  <2> HIDE DEF new
  <2>2. QED
    BY <1>3, <1>6, <2>1
<1>7. QED
  BY <1>4, <1>5, <1>6

LEMMA LockKeepsAnswers ==
    ASSUME RInv, JobsAnswer, NEW w \in Workers, Lock(w)
    PROVE  JobsAnswer'
<1>1. /\ exec \in [Workers -> Activity] /\ lease \in Leases /\ "publish" \in Locks
      /\ exec[w].pc = "lock"
  BY InvParts, FormatsAreLocks DEF RowsOK, Lock, At
<1>2. UNCHANGED <<qa, app, jobs>>
  BY DEF Lock
<1>3. Answered => Answered'
  BY <1>2 DEF Answered, Downloadable
<1>4. ASSUME NEW pc \in {"open", "rejected"}, Steps(w, pc)
      PROVE  \E me : /\ exec' = [exec EXCEPT ![w] = me] /\ me.pc = pc
                     /\ exec'[w].pc = pc /\ Accounted(me)
  <2> DEFINE me == [exec[w] EXCEPT !.pc = pc]
  <2>1. me.pc = pc /\ exec' = [exec EXCEPT ![w] = me]
    BY <1>1, <1>4 DEF Steps, Go, Activity
  <2> HIDE DEF me
  <2>2. Accounted(me)
    BY <1>4, <2>1 DEF Accounted, ExportPcs
  <2>3. exec'[w].pc = pc
    BY <1>1, <2>1
  <2>4. QED
    BY <2>1, <2>2, <2>3
<1>5. CASE Claimable("publish")
  <2>1. Steps(w, "open") /\ lease'["publish"].holder = w
    BY <1>1, <1>5 DEF Lock, Leases
  <2>2. PICK me : /\ exec' = [exec EXCEPT ![w] = me] /\ me.pc = "open"
                  /\ exec'[w].pc = "open" /\ Accounted(me)
    BY <1>4, <2>1
  <2>3. me.pc \in Publishing /\ exec'[w].pc \in Publishing
    BY <2>2 DEF Publishing, LockedPcs
  <2>4. Pending'
    BY <2>1, <2>3 DEF Pending, Held
  <2>5. QED
    BY <1>2, <1>3, <2>1, <2>2, <2>3, <2>4, StepKeepsAnswers
<1>6. CASE ~Claimable("publish")
  <2>1. Steps(w, "rejected") /\ UNCHANGED lease
    BY <1>6 DEF Lock
  <2>2. PICK me : /\ exec' = [exec EXCEPT ![w] = me] /\ me.pc = "rejected"
                  /\ exec'[w].pc = "rejected" /\ Accounted(me)
    BY <1>4, <2>1
  <2> DEFINE v == lease["publish"].holder
  <2>3. v \in Workers
    BY <1>1, <1>6 DEF Claimable, JobsAnswer, Leases
  <2>4. exec[v].pc \in Publishing \/ (exec[v].pc = "unlock" /\ Answered)
    BY <2>3 DEF JobsAnswer, HolderAnswers, Held, At
  <2>5. v # w
    BY <1>1, <2>4 DEF Publishing, LockedPcs, ExportPcs
  <2>6. exec'[v] = exec[v]
    BY <1>1, <2>2, <2>3, <2>5
  <2>7. Answered' \/ Pending'
    <3>1. CASE exec[v].pc \in Publishing
      <4>1. lease'["publish"].holder = v /\ exec'[v].pc \in Publishing
        BY <2>1, <2>6, <3>1
      <4>2. QED
        BY <2>3, <4>1 DEF Pending, Held
    <3>2. CASE Answered
      BY <1>3, <3>2
    <3>3. QED
      BY <2>4, <3>1, <3>2
  <2>8. lease'["publish"].holder = lease["publish"].holder /\ lease'["publish"].holder # w
    BY <2>1, <2>5
  <2> HIDE DEF v
  <2>9. QED
    BY <1>2, <1>3, <2>2, <2>7, <2>8, StepKeepsAnswers
<1>7. QED
  BY <1>5, <1>6

LEMMA UnlockKeepsAnswers ==
    ASSUME RInv, JobsAnswer, NEW w \in Workers, Unlock(w)
    PROVE  JobsAnswer'
<1> DEFINE pc == IF exec[w].ok THEN "resolved" ELSE "rejected"
<1> DEFINE me == [exec[w] EXCEPT !.pc = pc]
<1>1. /\ exec \in [Workers -> Activity] /\ lease \in Leases /\ "publish" \in Locks
      /\ exec[w].pc = "unlock" /\ "nobody" \notin Workers
  BY InvParts, FormatsAreLocks, RenderingAssumption DEF RowsOK, Unlock, At
<1>2. UNCHANGED <<qa, app, jobs>> /\ exec' = [exec EXCEPT ![w] = me]
  BY DEF Unlock, Steps, Go
<1>3. me.pc \in {"resolved", "rejected"}
  BY <1>1 DEF Activity
<1> HIDE DEF me
<1>4. Answered => Answered'
  BY <1>2 DEF Answered, Downloadable
<1>5. Accounted(me)
  BY <1>3 DEF Accounted, ExportPcs
<1>6. /\ lease["publish"].holder = w => lease'["publish"].holder = "nobody"
      /\ lease["publish"].holder # w => lease'["publish"].holder = lease["publish"].holder
  BY <1>1 DEF Unlock, Released, Held, Free, Leases
<1>7. ASSUME Pending
      PROVE  Pending'
  <2>1. CASE jobs["first"].state = "waiting"
    BY <1>2, <2>1 DEF Pending
  <2>2. ASSUME NEW v \in Workers,
               At(v, "lock") \/ (Held(v, "publish") /\ exec[v].pc \in Publishing)
        PROVE  Pending'
    <3>1. v # w
      BY <1>1, <2>2 DEF At, Publishing
    <3>2. exec'[v] = exec[v]
      BY <1>1, <1>2, <3>1
    <3>3. Held(v, "publish") => Held(v, "publish")'
      BY <1>6, <3>1 DEF Held
    <3>4. At(v, "lock")' \/ (Held(v, "publish")' /\ exec'[v].pc \in Publishing)
      BY <2>2, <3>2, <3>3 DEF At
    <3>5. QED
      BY <3>4 DEF Pending
  <2>3. QED
    BY <1>7, <2>1, <2>2 DEF Pending
<1>8. lease'["publish"].holder # w
  BY <1>1, <1>6
<1>9. QED
  BY <1>2, <1>4, <1>5, <1>6, <1>7, <1>8, StepKeepsAnswers

\* A worker past its publication holds no publication lease, or there is an answer.
LEMMA EndKeepsAnswers ==
    ASSUME RInv, JobsAnswer, NEW w \in Workers, Resolve(w) \/ Reject(w)
    PROVE  JobsAnswer'
<1>1. /\ exec \in [Workers -> Activity] /\ lease \in Leases /\ "publish" \in Locks
      /\ exec[w].pc \in {"resolved", "rejected"} /\ exec[w].job \in JobIds
  BY InvParts, FormatsAreLocks DEF RowsOK, Resolve, Reject, At, Activity
<1>2. UNCHANGED <<qa, app>> /\ lease' = Orphaned({w})
  BY DEF Resolve, Reject
<1>3. lease["publish"].holder # w
  BY <1>1 DEF JobsAnswer, HolderAnswers, Held, At, Publishing, LockedPcs, ExportPcs
<1>4. lease'["publish"].holder = lease["publish"].holder
  BY <1>1, <1>2, <1>3 DEF Orphaned, Leases
<1>5. \/ UNCHANGED jobs
      \/ exec[w].attached /\ jobs' = AfterFailure(exec[w].job)
      \/ exec[w].attached /\ jobs' = [jobs EXCEPT ![exec[w].job].state = "completed"]
  BY DEF Resolve, Reject
<1>6. /\ \A j \in JobIds : jobs'[j].state = "absent" <=> jobs[j].state = "absent"
      /\ jobs["first"].state = "waiting" => jobs'["first"].state = "waiting"
  BY <1>5, AnsweredJobs
<1>7. ASSUME NEW me, Go(w, me), me.pc \in {"idle", "giveup"}
      PROVE  JobsAnswer'
  <2>1. Accounted(me)
    BY <1>7 DEF Accounted, ExportPcs
  <2>2. exec[w].pc \notin {"lock", "unlock"}
    BY <1>1
  <2>3. exec' = [exec EXCEPT ![w] = me]
    BY <1>7 DEF Go
  <2>4. QED
    BY <1>2, <1>3, <1>4, <1>6, <2>1, <2>2, <2>3, QuietStepKeepsAnswers
<1>8. Idle.pc = "idle" /\ Hook(exec[w].job).pc = "giveup"
  BY <1>1, IdleIsActivity
<1>9. Go(w, Idle) \/ Go(w, Hook(exec[w].job))
  BY DEF Resolve, Reject
<1>10. QED
  BY <1>7, <1>8, <1>9

LEMMA OpenKeepsAnswers ==
    ASSUME RInv, JobsComeFirst, JobsAnswer, NEW w \in Workers, Open(w)
    PROVE  JobsAnswer'
<1> DEFINE me == [exec[w] EXCEPT !.pc = "claim", !.left = jobs[exec[w].job].formats,
                                 !.keys = app.keys, !.errors = app.errors]
<1>1. exec[w] \in Activity /\ exec[w].pc = "open"
  BY InvParts DEF Open, At
<1>2. jobs[exec[w].job].formats = Formats
  BY <1>1, JobsOfTheRun
<1>3. me.pc = "claim" /\ me.left = Formats
  BY <1>1, <1>2 DEF Activity
<1>4. exec' = [exec EXCEPT ![w] = me] /\ UNCHANGED <<qa, app, jobs, lease>>
  BY DEF Open, Go
<1> HIDE DEF me
<1>5. Accounted(me)
  BY <1>3 DEF Accounted, Formats
<1>6. me.pc \in Publishing /\ exec[w].pc \notin {"lock", "unlock"}
  BY <1>1, <1>3 DEF Publishing, LockedPcs, ExportPcs
<1>7. QED
  BY <1>4, <1>5, <1>6, QuietStepKeepsAnswers

LEMMA AssertKeepsAnswers ==
    ASSUME RInv, JobsAnswer, NEW w \in Workers, AssertLease(w)
    PROVE  JobsAnswer'
<1>1. /\ exec[w] \in Activity /\ exec[w].pc = "assert" /\ Accounted(exec[w])
      /\ lease \in Leases /\ "publish" \in Locks
  BY InvParts, FormatsAreLocks DEF AssertLease, At, JobsAnswer, RowsOK
<1>2. UNCHANGED <<qa, app, jobs>> /\ lease'["publish"].holder = lease["publish"].holder
  BY <1>1 DEF AssertLease, Leases
<1>3. CASE Held(w, "publish")
  <2> DEFINE me == [exec[w] EXCEPT !.pc = "publish"]
  <2>1. /\ me.pc = "publish" /\ me.left = exec[w].left /\ me.failed = exec[w].failed
        /\ me.keys = exec[w].keys /\ me.errors = exec[w].errors
    BY <1>1 DEF Activity
  <2>2. exec' = [exec EXCEPT ![w] = me]
    BY <1>3 DEF AssertLease, Steps, Go
  <2> HIDE DEF me
  <2>3. Accounted(me)
    BY <1>1, <2>1 DEF Accounted, ExportPcs
  <2>4. me.pc \in Publishing
    BY <2>1 DEF Publishing, LockedPcs
  <2>5. QED
    BY <1>1, <1>2, <2>2, <2>3, <2>4, QuietStepKeepsAnswers
<1>4. CASE ~Held(w, "publish")
  <2> DEFINE me == [exec[w] EXCEPT !.pc = "unlock", !.ok = FALSE]
  <2>1. me.pc = "unlock"
    BY <1>1 DEF Activity
  <2>2. exec' = [exec EXCEPT ![w] = me]
    BY <1>4 DEF AssertLease, Go
  <2> HIDE DEF me
  <2>3. Accounted(me)
    BY <2>1 DEF Accounted, ExportPcs
  <2>4. lease["publish"].holder # w
    BY <1>4 DEF Held
  <2>5. QED
    BY <1>1, <1>2, <2>2, <2>3, <2>4, QuietStepKeepsAnswers
<1>5. QED
  BY <1>3, <1>4

\* The publication is the answer: both formats, or the failure of one.
LEMMA PublishKeepsAnswers ==
    ASSUME RInv, JobsAnswer, NEW w \in Workers, Publish(w)
    PROVE  JobsAnswer'
<1> DEFINE me == [exec[w] EXCEPT !.pc = "unlock", !.ok = exec[w].failed = {}]
<1>1. exec[w] \in Activity /\ exec[w].pc = "publish" /\ Accounted(exec[w])
  BY InvParts DEF Publish, At, JobsAnswer
<1>2. me.pc = "unlock" /\ exec' = [exec EXCEPT ![w] = me] /\ UNCHANGED <<qa, jobs, lease>>
  BY <1>1 DEF Activity, Publish, Go
<1> HIDE DEF me
<1>3. /\ app'.stage = IF exec[w].keys # {} THEN "FINAL_READY" ELSE "FAILED"
      /\ app'.keys = exec[w].keys /\ app'.errors = exec[w].errors
      /\ app'.renderFailed = (exec[w].failed # {})
  BY DEF Publish
<1>4. /\ \A f \in Formats : f \in exec[w].failed \/ f \in exec[w].keys \ exec[w].errors
      /\ exec[w].keys \subseteq Formats /\ exec[w].errors \subseteq Formats
  BY <1>1 DEF Accounted, Activity
<1>5. Answered'
  <2>1. CASE exec[w].failed # {}
    BY <1>3, <2>1 DEF Answered
  <2>2. CASE exec[w].failed = {}
    <3>1. \A f \in Formats : f \in exec[w].keys /\ f \notin exec[w].errors
      BY <1>4, <2>2
    <3>2. exec[w].keys = Formats /\ exec[w].errors = {}
      BY <1>4, <3>1
    <3>3. exec[w].keys # {}
      BY <3>2 DEF Formats
    <3>4. QED
      BY <1>3, <3>2, <3>3 DEF Answered, Downloadable
  <2>3. QED
    BY <2>1, <2>2
<1>6. Accounted(me)
  BY <1>2 DEF Accounted, ExportPcs
<1>7. QED
  BY <1>2, <1>5, <1>6, StepKeepsAnswers

LEMMA WorkKeepsAnswers ==
    ASSUME RInv, JobsComeFirst, JobsAnswer, NEW w \in Workers, Work(w)
    PROVE  JobsAnswer'
BY LockKeepsAnswers, OpenKeepsAnswers, ExportKeepsAnswers, AssertKeepsAnswers,
   PublishKeepsAnswers, UnlockKeepsAnswers, EndKeepsAnswers DEF Work

LEMMA ExhaustedKeepsAnswers ==
    ASSUME RInv, JobsAnswer, NEW w \in Workers, Exhausted(w)
    PROVE  JobsAnswer'
<1>1. exec[w] \in Activity /\ exec[w].pc \in HookPcs
  BY InvParts
  DEF Exhausted, GiveUp, HookChecks, HookFailsRun, HookReadsApp, HookMarks, At, HookPcs
<1>2. UNCHANGED <<qa, jobs, lease>>
  BY DEF Exhausted, GiveUp, HookChecks, HookFailsRun, HookReadsApp, HookMarks
<1>3. exec[w].pc \notin Publishing \cup {"lock", "unlock"}
  BY <1>1 DEF HookPcs, Publishing, LockedPcs, ExportPcs
<1>4. lease["publish"].holder # w
  BY <1>3 DEF JobsAnswer, HolderAnswers, Held, At
<1>5. ASSUME NEW me, Go(w, me), me.pc \in HookPcs \cup {"idle"}
      PROVE  JobsAnswer'
  <2>1. Accounted(me) /\ exec' = [exec EXCEPT ![w] = me]
    BY <1>5 DEF Accounted, HookPcs, ExportPcs, Go
  <2>2. CASE UNCHANGED app
    BY <1>2, <1>3, <1>4, <2>1, <2>2, QuietStepKeepsAnswers
  <2>3. CASE app'.renderFailed = TRUE
    <3>1. Answered'
      BY <2>3 DEF Answered
    <3>2. QED
      BY <1>2, <1>4, <2>1, <3>1, StepKeepsAnswers
  <2>4. UNCHANGED app \/ app'.renderFailed = TRUE
    <3>1. exec[w].copy \in App
      BY <1>1 DEF Activity
    <3>2. HookMarks(w) => app'.renderFailed = TRUE
      BY <3>1 DEF HookMarks, App
    <3>3. QED
      BY <3>2 DEF Exhausted, GiveUp, HookChecks, HookFailsRun, HookReadsApp
  <2>5. QED
    BY <2>2, <2>3, <2>4
<1>6. \A pc \in HookPcs : [exec[w] EXCEPT !.pc = pc].pc \in HookPcs
  BY <1>1 DEF Activity
<1>7. Idle.pc = "idle" /\ [exec[w] EXCEPT !.pc = "mark", !.copy = app].pc \in HookPcs
  BY <1>1, IdleIsActivity DEF Activity, HookPcs
<1>8. \A pc \in HookPcs : Steps(w, pc) => JobsAnswer'
  BY <1>5, <1>6 DEF Steps
<1>9. GiveUp(w) => \E pc \in HookPcs : Steps(w, pc)
  BY DEF GiveUp, HookPcs
<1>10. QED
  BY <1>5, <1>7, <1>8, <1>9
  DEF Exhausted, HookChecks, HookFailsRun, HookReadsApp, HookMarks, HookPcs

\* The workers and the holder of the publication lease stay, or a worker goes from idle to the hook.
LEMMA RowStepKeepsAnswers ==
    ASSUME RInv, JobsAnswer, UNCHANGED app,
           \A w \in Workers :
              \/ /\ exec'[w].pc = exec[w].pc /\ exec'[w].left = exec[w].left
                 /\ exec'[w].failed = exec[w].failed /\ exec'[w].keys = exec[w].keys
                 /\ exec'[w].errors = exec[w].errors
              \/ exec[w].pc = "idle" /\ exec'[w].pc = "giveup",
           lease'["publish"].holder = lease["publish"].holder,
           qa'.pc \in {"start", "write", "enqueue"} => jobs'["first"].state = "absent",
           \A c \in Customers : jobs'[c].state = "absent",
           jobs'["first"].state # "absent" =>
               jobs["first"].state # "absent" \/ jobs'["first"].state = "waiting",
           jobs["first"].state = "waiting" => jobs'["first"].state = "waiting"
    PROVE  JobsAnswer'
<1>1. Answered => Answered'
  BY DEF Answered, Downloadable
<1>2. ASSUME Pending
      PROVE  Pending'
  <2>1. CASE jobs["first"].state = "waiting"
    BY <2>1 DEF Pending
  <2>2. ASSUME NEW w \in Workers,
               At(w, "lock") \/ (Held(w, "publish") /\ exec[w].pc \in Publishing)
        PROVE  Pending'
    <3>1. exec[w].pc # "idle"
      BY <2>2 DEF At, Publishing, LockedPcs, ExportPcs
    <3>2. exec'[w].pc = exec[w].pc
      BY <3>1
    <3>3. At(w, "lock")' \/ (Held(w, "publish")' /\ exec'[w].pc \in Publishing)
      BY <2>2, <3>2 DEF At, Held
    <3>4. QED
      BY <3>3 DEF Pending
  <2>3. QED
    BY <1>2, <2>1, <2>2 DEF Pending
<1>3. ASSUME NEW w \in Workers
      PROVE  Accounted(exec[w])' /\ HolderAnswers(w)'
  <2>1. Accounted(exec[w]) /\ HolderAnswers(w)
    BY DEF JobsAnswer
  <2>2. CASE exec[w].pc = "idle" /\ exec'[w].pc = "giveup"
    <3>1. Accounted(exec[w])'
      BY <2>2 DEF Accounted, ExportPcs
    <3>2. ~Held(w, "publish")
      BY <2>1, <2>2 DEF HolderAnswers, At, Publishing, LockedPcs, ExportPcs
    <3>3. QED
      BY <3>1, <3>2 DEF HolderAnswers, Held
  <2>3. CASE ~(exec[w].pc = "idle" /\ exec'[w].pc = "giveup")
    <3>1. /\ exec'[w].pc = exec[w].pc /\ exec'[w].left = exec[w].left
          /\ exec'[w].failed = exec[w].failed /\ exec'[w].keys = exec[w].keys
          /\ exec'[w].errors = exec[w].errors
      BY <2>3
    <3>2. Accounted(exec[w])'
      BY <2>1, <3>1 DEF Accounted
    <3>3. HolderAnswers(w)'
      BY <1>1, <2>1, <3>1 DEF HolderAnswers, Held, At
    <3>4. QED
      BY <3>2, <3>3
  <2>4. QED
    BY <2>2, <2>3
<1>4. lease'["publish"].holder # "gone"
  BY DEF JobsAnswer
<1>5. ASSUME jobs'["first"].state # "absent"
      PROVE  Answered' \/ Pending'
  <2>1. CASE jobs'["first"].state = "waiting"
    BY <2>1 DEF Pending
  <2>2. CASE jobs["first"].state # "absent"
    BY <1>1, <1>2, <2>2 DEF JobsAnswer
  <2>3. QED
    BY <1>5, <2>1, <2>2
<1>6. QED
  BY <1>3, <1>4, <1>5 DEF JobsAnswer

LEMMA QaKeepsAnswers ==
    ASSUME RInv, JobsComeFirst, JobsAnswer, Qa
    PROVE  JobsAnswer'
<1>1. /\ qa \in [pc : {"start", "write", "enqueue", "check", "finish", "done"}, copy : App]
      /\ exec \in [Workers -> Activity] /\ JobsOK /\ "first" \in JobIds /\ "first" \notin Customers
      /\ Customers \subseteq JobIds
  BY InvParts, RenderingAssumption DEF RowsOK, JobIds
<1>2. CASE QaReads \/ QaChecks \/ QaFinishes
  <2>1. UNCHANGED <<app, exec, lease, jobs>>
    BY <1>2 DEF QaReads, QaChecks, QaFinishes
  <2>2. qa'.pc \in {"start", "write", "enqueue"} => qa.pc = "start"
    BY <1>1, <1>2 DEF QaReads, QaChecks, QaFinishes
  <2>3. /\ qa'.pc \in {"start", "write", "enqueue"} => jobs'["first"].state = "absent"
        /\ \A c \in Customers : jobs'[c].state = "absent"
    BY <2>1, <2>2 DEF JobsAnswer
  <2>4. QED
    BY <2>1, <2>3, RowStepKeepsAnswers
<1>3. CASE QaWrites
  <2>1. jobs["first"].state = "absent" /\ UNCHANGED <<exec, lease, jobs>>
    BY <1>3 DEF QaWrites, JobsAnswer
  <2>2. \A j \in JobIds : jobs[j].state = "absent"
    BY <2>1 DEF JobsAnswer, JobIds
  <2>3. ASSUME NEW w \in Workers
        PROVE  Accounted(exec[w])' /\ HolderAnswers(w)'
    <3>1. exec[w].pc = "idle"
      BY <1>1, <2>2 DEF JobsComeFirst, Activity, At
    <3>2. Accounted(exec[w])'
      BY <2>1, <3>1 DEF Accounted, ExportPcs
    <3>3. ~Held(w, "publish")
      BY <3>1 DEF JobsAnswer, HolderAnswers, At, Publishing, LockedPcs, ExportPcs
    <3>4. HolderAnswers(w)'
      BY <2>1, <3>3 DEF HolderAnswers, Held
    <3>5. QED
      BY <3>2, <3>4
  <2>4. QED
    BY <2>1, <2>3 DEF JobsAnswer
<1>4. CASE QaEnqueues
  <2>1. /\ jobs["first"].state = "absent" /\ UNCHANGED <<app, exec, lease>>
        /\ jobs' = Added("first", Formats) /\ qa'.pc = "check"
    BY <1>1, <1>4 DEF QaEnqueues, JobsAnswer
  <2>2. jobs'["first"].state = "waiting" /\ \A c \in Customers : jobs'[c] = jobs[c]
    BY <1>1, <2>1 DEF Added, JobsOK
  <2>3. \A c \in Customers : jobs'[c].state = "absent"
    BY <2>2 DEF JobsAnswer
  <2>4. QED
    BY <2>1, <2>2, <2>3, RowStepKeepsAnswers
<1>5. QED
  BY <1>2, <1>3, <1>4 DEF Qa

LEMMA DeliverKeepsAnswers ==
    ASSUME RInv, JobsAnswer, NEW w \in Workers, NEW j \in JobIds, Deliver(w, j)
    PROVE  JobsAnswer'
<1> DEFINE me == [Idle EXCEPT !.pc = "lock", !.job = j, !.attached = TRUE]
<1>1. me.pc = "lock"
  BY IdleIsActivity DEF Activity
<1>2. /\ exec' = [exec EXCEPT ![w] = me] /\ UNCHANGED <<qa, app, lease>>
      /\ exec[w].pc = "idle" /\ exec \in [Workers -> Activity]
  BY InvParts DEF Deliver, Go, At
<1> HIDE DEF me
<1>3. \A i \in JobIds : jobs'[i].state = "absent" <=> jobs[i].state = "absent"
  BY InvParts DEF Deliver, JobsOK
<1>4. Answered => Answered'
  BY <1>2 DEF Answered, Downloadable
<1>5. Pending'
  BY <1>1, <1>2 DEF Pending, At
<1>6. Accounted(me)
  BY <1>1 DEF Accounted, ExportPcs
<1>7. lease'["publish"].holder = lease["publish"].holder /\ lease["publish"].holder # w
  BY <1>2 DEF JobsAnswer, HolderAnswers, Held, At, Publishing, LockedPcs, ExportPcs
<1>8. QED
  BY <1>2, <1>3, <1>4, <1>5, <1>6, <1>7, StepKeepsAnswers

LEMMA TimeoutKeepsAnswers ==
    ASSUME RInv, JobsAnswer, NEW w \in Workers, NEW v \in Workers, JobTimeout(w, v)
    PROVE  JobsAnswer'
<1>1. /\ exec \in [Workers -> Activity] /\ exec[w].job \in JobIds
      /\ "first" \in JobIds /\ Customers \subseteq JobIds
  BY InvParts DEF Activity, JobIds
<1>2. UNCHANGED <<qa, app, lease>> /\ exec[w].attached /\ jobs' = AfterFailure(exec[w].job)
  BY DEF JobTimeout
<1>3. /\ \A j \in JobIds : jobs'[j].state = "absent" <=> jobs[j].state = "absent"
      /\ jobs["first"].state = "waiting" => jobs'["first"].state = "waiting"
  BY <1>2, AnsweredJobs
<1>4. Hook(exec[w].job).pc = "giveup"
  BY <1>1, IdleIsActivity
<1>5. ASSUME NEW u \in Workers
      PROVE  \/ /\ exec'[u].pc = exec[u].pc /\ exec'[u].left = exec[u].left
                /\ exec'[u].failed = exec[u].failed /\ exec'[u].keys = exec[u].keys
                /\ exec'[u].errors = exec[u].errors
             \/ exec[u].pc = "idle" /\ exec'[u].pc = "giveup"
  <2>1. CASE Exhausts(exec[w].job) /\ u = v
    BY <1>1, <1>4, <2>1 DEF JobTimeout, At
  <2>2. CASE ~(Exhausts(exec[w].job) /\ u = v)
    BY <1>1, <2>2 DEF JobTimeout, Activity
  <2>3. QED
    BY <2>1, <2>2
<1>6. QED
  BY <1>1, <1>2, <1>3, <1>5, RowStepKeepsAnswers DEF JobsAnswer

LEMMA NextKeepsAnswers ==
    RInv /\ JobsComeFirst /\ AnswersCome /\ [RNext]_vars => AnswersCome'
<1> SUFFICES ASSUME RInv, JobsComeFirst, AnswersCome, [RNext]_vars, Undisturbed'
             PROVE  JobsAnswer'
  BY DEF AnswersCome
<1>1. JobsAnswer
  BY UndisturbedSteps DEF AnswersCome
<1>2. /\ lease \in Leases
      /\ \A w \in Workers : exec[w] \in Activity
  BY InvParts DEF RowsOK
<1>3. CASE (\E w \in Workers : Heartbeat(w)) \/ (\E k \in Locks : LeaseLapses(k)) \/ UNCHANGED vars
  <2>1. UNCHANGED <<qa, app, jobs, exec>>
    BY <1>3 DEF Heartbeat, LeaseLapses, vars
  <2>2. lease'["publish"].holder = lease["publish"].holder
    BY <1>2, <1>3, FormatsAreLocks DEF Heartbeat, LeaseLapses, vars, Leases
  <2>3. /\ qa'.pc \in {"start", "write", "enqueue"} => jobs'["first"].state = "absent"
        /\ \A c \in Customers : jobs'[c].state = "absent"
    BY <1>1, <2>1 DEF JobsAnswer
  <2>4. QED
    BY <1>1, <2>1, <2>2, <2>3, RowStepKeepsAnswers
<1>4. CASE Qa
  BY <1>1, <1>4, QaKeepsAnswers
<1>5. CASE \E w \in Workers, j \in JobIds : Deliver(w, j)
  BY <1>1, <1>5, DeliverKeepsAnswers
<1>6. CASE \E w \in Workers : Work(w) \/ Exhausted(w)
  BY <1>1, <1>6, WorkKeepsAnswers, ExhaustedKeepsAnswers
<1>7. CASE \E w, v \in Workers : JobTimeout(w, v)
  BY <1>1, <1>7, TimeoutKeepsAnswers
<1>8. QED
  BY <1>3, <1>4, <1>5, <1>6, <1>7, UndisturbedSteps

\* In the whole specification, every worker accounts for the formats it is done with, and somebody
\* is still to publish until there is an answer.
LEMMA AnswersHold == RSpec => [](RInv /\ JobsComeFirst /\ AnswersCome)
<1>1. Init => JobsComeFirst /\ AnswersCome
  <2> SUFFICES ASSUME Init
               PROVE  JobsComeFirst /\ JobsAnswer
    BY DEF AnswersCome
  <2>1. /\ \A j \in JobIds : jobs[j].state = "absent"
        /\ \A w \in Workers : exec[w].pc = "idle"
        /\ qa.pc = "start" /\ run = "FINAL_QA_RUNNING"
        /\ lease["publish"].holder = "nobody" /\ "nobody" \notin Workers
        /\ "first" \in JobIds /\ Customers \subseteq JobIds
    BY RenderingAssumption, FormatsAreLocks, IdleIsActivity DEF Init, Free, JobIds
  <2>2. JobsComeFirst
    BY <2>1 DEF JobsComeFirst, At
  <2>3. \A w \in Workers : Accounted(exec[w]) /\ HolderAnswers(w)
    BY <2>1 DEF Accounted, HolderAnswers, Held, ExportPcs
  <2>4. QED
    BY <2>1, <2>2, <2>3 DEF JobsAnswer
<1>2. QED
  BY <1>1, InvHoldsInitially, NextKeepsInv, NextKeepsFirst, NextKeepsAnswers, PTL DEF RSpec

\* Without crashes, failing calls and retries: a completed run with nothing under way shows its
\* customer both formats or a failure, whatever renderings failed, timed out or lost their leases.
THEOREM UndisturbedIsAnswered == RSpec => []UndisturbedCompletionIsAnswered
<1>1. RInv /\ JobsComeFirst /\ AnswersCome => UndisturbedCompletionIsAnswered
  <2> SUFFICES ASSUME RInv, JobsComeFirst, JobsAnswer, run = "FINAL_READY", Quiet
               PROVE  Downloadable \/ app.renderFailed
    BY DEF AnswersCome, UndisturbedCompletionIsAnswered, CompletionIsAnswered, Undisturbed
  <2>1. jobs["first"].state # "absent" /\ "first" \in JobIds
    BY DEF JobsComeFirst, JobIds
  <2>2. ~Pending
    BY <2>1 DEF Quiet, Pending, At, Publishing, LockedPcs, ExportPcs
  <2>3. QED
    BY <2>1, <2>2 DEF JobsAnswer, Answered
<1>2. QED
  BY <1>1, AnswersHold, PTL

=============================================================================
