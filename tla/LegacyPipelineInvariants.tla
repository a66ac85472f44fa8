----------------------- MODULE LegacyPipelineInvariants -----------------------
(***************************************************************************)
(* The inductive invariants of LegacyPipeline and the notions its proofs   *)
(* are about: why a run is FINAL_READY only with a version that Final QA   *)
(* passed, why a repair follows a repairable failure of V4, why a version  *)
(* is paid for when its run has gone past it, and why a parked result is   *)
(* taken up.  LegacyPipelineProofs proves them.                            *)
(***************************************************************************)
EXTENDS LegacyPipeline

-----------------------------------------------------------------------------
(* What an activity is doing, and which records fit it.                    *)

Stage(rec) == RunningCounterpart(rec.job[1])

\* The steps of the body of each stage, and the operations they are about.
PcsOf(stage) ==
    IF stage \in GeneratingStages
    THEN {"look", "reserve", "backend", "call", "park", "append", "reread", "note", "point",
          "commit", "ready", "next"}
    ELSE IF stage \in AuditStages
    THEN {"reserve", "backend", "call", "record", "findings", "commit", "judge"}
    ELSE IF stage = "FINAL_QA_RUNNING" THEN {"look", "reserve", "backend", "call", "commit", "judge"}
    ELSE IF stage = "RESEARCH_RUNNING"
    THEN {"extract", "reserve", "backend", "call", "commit", "judge"}
    ELSE {"reserve", "backend", "call", "commit", "judge"}

BodyPcs == {"extract", "look", "reserve", "backend", "call", "park", "append", "reread",
            "note", "point", "record", "findings", "commit", "judge", "ready", "next"}

Repair == <<"generate", RepairVersion>>
QaOf(n) == <<"qa", n>>

OpsOf(stage) ==
    IF stage \in GeneratingStages THEN {<<"generate", VersionOf[stage]>>, Repair}
    ELSE IF stage \in AuditStages THEN {<<"audit", Reviewed[stage]>>}
    ELSE IF stage = "FINAL_QA_RUNNING" THEN {QaOf(4), QaOf(RepairVersion)}
    ELSE IF stage = "RESEARCH_RUNNING" THEN {<<"research", 0>>}
    ELSE {<<"match", 0>>}

\* A body of Final QA chooses its version after its local checks; a finalization that has made its
\* version ready has no operation any more.
OpFits(rec) ==
    \/ rec.op \in OpsOf(Stage(rec)) /\ ~(rec.pc = "look" /\ Stage(rec) = "FINAL_QA_RUNNING")
    \/ /\ rec.op = NoOperation
       /\ rec.pc = "next" \/ (rec.pc = "look" /\ Stage(rec) = "FINAL_QA_RUNNING")

\* The instructions an activity may have to carry out at its end.
FrontStages ==
    {"RESEARCH_QUEUED", "RESEARCH_RUNNING", "RESEARCH_REVIEW_REQUIRED", "RESEARCH_COMPLETED",
     "EVIDENCE_MATCHING_RUNNING", "EVIDENCE_MATCHING_COMPLETED"}

After(stage) ==
    IF stage \in GeneratingStages
    THEN ({"put", "app"} \X {ReadyOf[VersionOf[stage]], NextOf[VersionOf[stage]]})
           \cup {<<"next", "stage">>}
    ELSE IF stage \in AuditStages THEN {"move", "app"} \X {ReviewOf[stage], ProducerOf[stage]}
    ELSE IF stage = "FINAL_QA_RUNNING"
    THEN ({"put", "app"} \X {"FINAL_READY", "FINAL_QA_FAILED", "V4_GENERATING"})
           \cup {<<"render", "documents">>}
    ELSE {"move", "pause", "app"} \X (FrontStages \cup {"V0_GENERATING"})

Ends == {"end"} \X {"resolved", "permanent"}
Givings == {<<"refund", "run">>, <<"put", "FAILED">>, <<"app", "FAILED">>}

Allowed(rec) == Ends \cup (IF rec.giving THEN Givings ELSE After(Stage(rec)))

Last == Ends \cup {<<"next", "stage">>}
EndsOnce(script) ==
    /\ script # <<>>
    /\ \A i \in 1..Len(script) : script[i] \in Last <=> i = Len(script)

Shape(rec) ==
    /\ IF rec.pc \in {"script", "enqueue"} THEN EndsOnce(rec.script) ELSE rec.script = <<>>
    /\ rec.script \in Seq(Allowed(rec))
    /\ rec.giving => rec.pc = "script"
    /\ rec.pc = "enqueue" => rec.adds \in JobIds
    /\ IF rec.pc \in BodyPcs THEN rec.pc \in PcsOf(Stage(rec)) /\ OpFits(rec)
       ELSE rec.op = NoOperation /\ rec.answer = "none"
    /\ rec.copy.repair \/ rec.copy.pending # NoOperation => rec.pc \in BodyPcs \cup {"script", "enqueue"}

DeliveryShape(rec) == (rec.pc = "idle" <=> rec.job = NoJob) /\ rec.pc # "done"
ClientShape(rec) ==
    /\ rec.pc \in {"idle", "script", "enqueue", "done"}
    /\ rec.job = NoJob /\ ~rec.attached
    /\ ~rec.copy.repair /\ rec.copy.pending = NoOperation

Fits(a, rec) ==
    /\ Shape(rec)
    /\ a \in Procs => DeliveryShape(rec)
    /\ a \in Clients => ClientShape(rec)

Shapes == \A a \in Actors : Fits(a, exec[a])

\* A job that can still be delivered has tries left.
TriesAreLeft == \A j \in JobIds : jobs[j].state \notin {"completed", "failed"} => jobs[j].left > 0

\* A delivery the queue waits for is the only one of an active job.
DeliveriesAreActive ==
    /\ \A p \in Procs : exec[p].attached =>
          exec[p].job \in JobIds /\ jobs[exec[p].job].state = "active"
    /\ \A p, q \in Procs :
          p # q /\ exec[p].attached /\ exec[q].attached => exec[p].job # exec[q].job

\* Where V4 is there: everything from V4_READY on, and every trace of a repair.
QaSide == {"V4_READY", "FINAL_QA_RUNNING", "FINAL_QA_FAILED", "FINAL_READY"}
Ending(rec) == rec.script # <<>> /\ ~rec.giving
Finalizing == {"reread", "note", "point", "commit", "ready", "next"}
FollowsV4(rec) ==
    \/ rec.copy.repair
    \/ rec.op = Repair
    \/ Stage(rec) = "FINAL_QA_RUNNING" /\ (rec.pc \in BodyPcs \/ Ending(rec))
    \/ Stage(rec) = "V4_GENERATING"
         /\ (rec.pc \in Finalizing \/ Ending(rec))

RunFollowsV4 == run.stage \in QaSide \/ run.payload.repair \/ RepairVersion \in versions

V4Known ==
    /\ RunFollowsV4 => 4 \in versions
    /\ \A a \in Actors : FollowsV4(exec[a]) => 4 \in versions

LegacyInv ==
    /\ LPTypeOK
    /\ Shapes
    /\ TriesAreLeft
    /\ DeliveriesAreActive
    /\ V4Known

\* The stages of bodies.
BodyStages ==
    GeneratingStages \cup AuditStages
      \cup {"FINAL_QA_RUNNING", "RESEARCH_RUNNING", "EVIDENCE_MATCHING_RUNNING"}

RowsTypeOK ==
    /\ app \in Stages
    /\ extracted \in BOOLEAN
    /\ ledger \in [Operations -> {"absent", "reserved", "committed", "released"}]
    /\ answers \in [Operations -> AllAnswers]
    /\ versions \subseteq 0..RepairVersion
    /\ current \in 0..NoVersion
    /\ audit \in {"none", "bare", "full"}
    /\ faults \in Faults

\* A delivery outside its body, with nothing in its hands.
Resting(rec) ==
    /\ rec.op = NoOperation /\ rec.answer = "none" /\ rec.script = <<>>
    /\ ~rec.copy.repair /\ rec.copy.pending = NoOperation /\ ~rec.giving
    /\ rec.pc \notin BodyPcs \cup {"script", "enqueue"}

RestPcs == {"load", "claim", "release", "giveup", "resolved", "rejected"}

Erring(a, pc, error) == [Rest(a, pc) EXCEPT !.error = error]

\* An activity that goes on while others end.
GoesOnWithout(rec, P) == [rec EXCEPT !.copy = Orphaned(@, P)]

-----------------------------------------------------------------------------
(* What a body knows of Python's answer.                                   *)

\* A body that has its answer has the one that Python keeps; a judgement is paid for; the repaired
\* version is judged only when it is there.
AnswerFits(rec, kept, paid, there) ==
    /\ rec.answer # "none" => rec.op # NoOperation /\ kept[rec.op] = rec.answer
    /\ rec.pc \in {"record", "findings", "judge"} => rec.answer # "none"
    /\ rec.pc = "commit" /\ rec.op[1] # "generate" => rec.answer # "none"
    /\ rec.pc = "judge" => paid[rec.op] = "committed"
    /\ rec.op = QaOf(RepairVersion) => RepairVersion \in there

AnswersFit ==
    /\ \A op \in Operations : answers[op] \in Answers(op) \cup {"none"}
    /\ \A p \in Procs : AnswerFits(exec[p], answers, ledger, versions)

-----------------------------------------------------------------------------
(* Where a run can get to: one started at research stops before the review *)
(* of its first audit, one started later never goes back.                  *)

FirstStages ==
    FrontStages \cup {"V0_GENERATING", "V0_READY", "HR_AUDIT_1_RUNNING", "HR_AUDIT_1_REVIEW", "FAILED"}
LaterStages == Stages \ FrontStages

Inside(rec, S) == rec.job[1] \in S \cup {"none"} /\ rec.adds[1] \in S \cup {"none"}

Within(S) ==
    /\ run.stage \in S
    /\ \A a \in Actors : Inside(exec[a], S)
    /\ \A j \in JobIds : jobs[j].state # "absent" => j[1] \in S

LacksFrom(script, x) == script \in Seq(Instructions \ {x})

FirstAudit == <<"audit", 0>>
Goes(rec, reviewed) ==
    /\ LacksFrom(rec.script, <<"move", "V1_GENERATING">>) \/ reviewed = "mismatched"
    /\ LacksFrom(rec.script, <<"move", "HR_AUDIT_1_REVIEW">>) \/ reviewed = "done"

Auditing(rec) == rec.pc \in BodyPcs /\ Stage(rec) = "HR_AUDIT_1_RUNNING"

FromResearch ==
    /\ Within(FirstStages)
    /\ 4 \notin versions
    /\ \A p \in Procs : Goes(exec[p], answers[FirstAudit])
    /\ run.stage = "HR_AUDIT_1_REVIEW" =>
          \/ answers[FirstAudit] = "done"
          \/ answers[FirstAudit] = "none" /\ \A p \in Procs : ~Auditing(exec[p])

FromGeneration ==
    /\ Within(LaterStages)
    /\ app \in LaterStages
    /\ \A c \in Clients : exec[c].script \in Seq(Ends)

Lineage == FromResearch \/ FromGeneration

-----------------------------------------------------------------------------
(* Final QA and its repair.                                                *)

\* Every trace of a repair.
Announced ==
    \/ run.payload.repair
    \/ RepairVersion \in versions
    \/ \E p \in Procs : exec[p].copy.repair \/ exec[p].op = Repair

\* The answer that asked for the repair has run out.  The repaired version is there:
Forgotten ==
    /\ RepairVersion \in versions
    /\ answers[QaOf(4)] = "none"
    /\ \A p \in Procs : exec[p].op # QaOf(4)

\* or it is still to be made, and nobody judges V4 again before it is:
Remakes(rec) ==
    /\ rec.pc \in BodyPcs \/ rec.giving => rec.copy.repair
    /\ rec.pc \in BodyPcs =>
          \/ Stage(rec) \in AuditStages
          \/ rec.op = Repair /\ rec.pc \in {"look", "reserve", "backend", "call", "park", "append"}
    /\ Ending(rec) => Stage(rec) \in AuditStages

Repairing ==
    /\ RepairVersion \notin versions
    /\ answers[QaOf(4)] = "none"
    /\ run.payload.repair
    /\ run.stage \notin QaSide
    /\ \A p \in Procs : Remakes(exec[p])

\* or the run is back at Final QA without it, and no body can send it to the generation again.
Rejudges(rec) ==
    /\ rec.pc \in BodyPcs => Stage(rec) = "FINAL_QA_RUNNING" /\ rec.copy.repair
    /\ rec.script # <<>> => rec.copy.repair
    /\ Ending(rec) => /\ Stage(rec) = "FINAL_QA_RUNNING"
                      /\ LacksFrom(rec.script, <<"put", "V4_GENERATING">>)

NotRepaired ==
    /\ RepairVersion \notin versions
    /\ run.payload.repair
    /\ run.stage \in QaSide \cup {"FAILED"}
    /\ \A p \in Procs : Rejudges(exec[p])

RepairIsJustified ==
    Announced =>
        /\ ledger[QaOf(4)] = "committed"
        /\ answers[QaOf(4)] = "repairable" \/ Forgotten \/ Repairing \/ NotRepaired

Newest == IF RepairVersion \in versions THEN RepairVersion ELSE 4
Judging(rec) == rec.pc \in BodyPcs /\ Stage(rec) = "FINAL_QA_RUNNING"

ReadyIsCleared ==
    /\ \A p \in Procs :
          \/ LacksFrom(exec[p].script, <<"put", "FINAL_READY">>)
          \/ answers[QaOf(Newest)] = "passed" /\ ledger[QaOf(Newest)] = "committed"
    /\ run.stage = "FINAL_READY" =>
          /\ ledger[QaOf(Newest)] = "committed"
          /\ \/ answers[QaOf(Newest)] = "passed"
             \/ answers[QaOf(Newest)] = "none" /\ \A p \in Procs : ~Judging(exec[p])

QaInv == RepairIsJustified /\ ReadyIsCleared

\* The whole invariant.
Whole == LegacyInv /\ AnswersFit /\ Lineage /\ QaInv

-----------------------------------------------------------------------------
(* Steps that make no progress: every activity stays as it is, but for its *)
(* leases and whether the queue waits for it, or comes to rest.            *)

Alike(rec, old) ==
    /\ rec.pc = old.pc /\ rec.job = old.job /\ rec.op = old.op /\ rec.answer = old.answer
    /\ rec.script = old.script /\ rec.adds = old.adds /\ rec.giving = old.giving
    /\ rec.copy.repair <=> old.copy.repair
    /\ rec.copy.pending = old.copy.pending

ComesToRest(rec, old) ==
    /\ Resting(rec)
    /\ rec.adds = NoJob \/ rec.adds = old.adds
    /\ \/ rec.job = NoJob \/ rec.job = old.job
       \/ rec.job \in JobIds /\ jobs[rec.job].state # "absent"

Calm ==
    /\ \A a \in Actors : Alike(exec'[a], exec[a]) \/ ComesToRest(exec'[a], exec[a])
    /\ \A j \in JobIds : jobs'[j].state # "absent" => jobs[j].state # "absent"
    /\ run'.stage = run.stage
    /\ run'.payload.repair <=> run.payload.repair
    /\ run'.payload.pending = run.payload.pending
    /\ UNCHANGED <<app, ledger, answers, versions>>

-----------------------------------------------------------------------------
(* Steps that make progress.                                               *)

\* The steps that are not calm: an activity says what it came for, a body works on its operation,
Speaks(a) ==
    Transition(a) \/ Enqueue(a) \/ WriteApplication(a) \/ Refund(a) \/ EnqueueDocuments(a)
Works(p) ==
    \/ ClaimStage(p) \/ GiveUp(p) \/ Extract(p) \/ Reserve(p) \/ PersistBackend(p)
    \/ Calls(p) \/ Commit(p) \/ Judge(p) \/ CheckLocally(p)

\* or stores what came out of it.
Finishes(p) ==
    \/ LookUpVersion(p) \/ Park(p) \/ AppendVersion(p) \/ RereadRun(p) \/ NoteVersion(p)
    \/ SetCurrent(p) \/ BecomesReady(p)
    \/ Resumes(p) \/ StartNext(p) \/ RecordAudit(p) \/ RecordFindings(p)

\* A delivery whose claim succeeds is at the first step of its stage's body, about the operation
\* that the stage and the announced repair ask for.
Claims(p, rec) ==
    /\ Go(p, rec) /\ rec.job = exec[p].job /\ rec.adds = exec[p].adds /\ rec.copy = run'.payload
    /\ rec.script = <<>> /\ ~rec.giving /\ rec.answer = "none"
    /\ rec.pc \in {"extract", "look", "reserve"}
    /\ Stage(exec[p]) \in GeneratingStages => rec.pc = "look"
    /\ rec.op = IF Stage(exec[p]) = "FINAL_QA_RUNNING" THEN NoOperation
                ELSE OperationAt(Stage(exec[p]), run.payload.repair, 4)
    /\ run'.stage = Stage(exec[p])
    /\ run.stage = run'.stage \/ (run.stage = "RESEARCH_QUEUED" /\ run'.stage = "RESEARCH_RUNNING")
    /\ run'.payload.repair = run.payload.repair /\ run'.payload.pending = run.payload.pending
    /\ UNCHANGED <<jobs, app, ledger, answers, versions>>

\* The state is cleared for FINAL_READY.
Cleared(kept, paid, newest) == kept[QaOf(newest)] = "passed" /\ paid[QaOf(newest)] = "committed"

\* The body takes its next step with the same operation and the same copy.
BodyLeaves(p) ==
    /\ UNCHANGED <<jobs, app, answers, versions>>
    /\ run'.stage = run.stage
    /\ \/ run'.payload.repair <=> run.payload.repair
       \/ run'.payload.repair <=> exec[p].copy.repair
    /\ \A op \in Operations : ledger[op] = "committed" => ledger'[op] = "committed"

\* What Final QA's part asks of an activity that becomes rec, where rows and the stage stay.
QaAllows(rec) ==
    /\ \/ run'.payload.repair \/ rec.copy.repair => Announced
       \/ answers[QaOf(4)] = "repairable" /\ ledger[QaOf(4)] = "committed"
    /\ LacksFrom(rec.script, <<"put", "FINAL_READY">>) \/ Cleared(answers, ledger, Newest)
    /\ Repairing => run'.payload.repair /\ Remakes(rec)
    /\ NotRepaired => answers[QaOf(4)] = "repairable" \/ (run'.payload.repair /\ Rejudges(rec))

\* The activity says its next instruction, or goes on to the one after it.
SpeaksOn(rec, old) ==
    /\ rec.pc \in {"script", "enqueue"} /\ rec.job = old.job /\ rec.op = old.op
    /\ rec.answer = old.answer /\ rec.copy = old.copy /\ rec.giving = old.giving
    /\ rec.script \in {old.script, Tail(old.script)}

-----------------------------------------------------------------------------
(* What is paid for, and what a body that calls Python knows.              *)

Generate(n) == <<"generate", n>>
Paid(n) == n \in versions /\ ledger[Generate(n)] = "committed"
Generating(rec) == Stage(rec) \in GeneratingStages

\* The traces of a version that has been committed.
Follows(n, rec) ==
    \/ Stage(rec) = NextOf[n] /\ (rec.pc \in BodyPcs \/ Ending(rec))
    \/ Generating(rec) /\ VersionOf[Stage(rec)] = n /\ (rec.pc \in {"ready", "next"} \/ Ending(rec))
    \/ n = 4 /\ (rec.copy.repair \/ rec.op = Repair)
RunFollows(n) ==
    run.stage \in PastOf(n) \/ (n = 4 /\ (run.payload.repair \/ RepairVersion \in versions))

\* A finalization has its version.
HasVersion(rec, there) ==
    Generating(rec) /\ rec.pc \in {"reread", "note", "point", "commit"} => rec.op[2] \in there

\* The repair is one of V4.
RepairsV4(rec) == rec.op = Repair => Stage(rec) = "V4_GENERATING"

PaidInv ==
    /\ \A n \in 0..4 : RunFollows(n) => Paid(n)
    /\ \A p \in Procs : \A n \in 0..4 : Follows(n, exec[p]) => Paid(n)
    /\ \A p \in Procs : HasVersion(exec[p], versions) /\ RepairsV4(exec[p])

-----------------------------------------------------------------------------
(* The versions a run makes.  One started at research or at V0 to V2 makes *)
(* one; one started at V3 or V4 ends with V4 and its repair.               *)

Numbers == 0..RepairVersion
Known(n) ==
    run.payload.pending = Generate(n) \/ \E p \in Procs : exec[p].copy.pending = Generate(n)
KnowsOnly(S) == \A n \in Numbers : Known(n) => n \in S

Span == [m \in 0..3 |->
    CASE m = 0 -> FirstStages
      [] m = 1 -> {"V1_GENERATING", "V1_READY", "EM_AUDIT_1_RUNNING", "EM_AUDIT_1_REVIEW", "FAILED"}
      [] m = 2 -> {"V2_GENERATING", "V2_READY", "HR_AUDIT_2_RUNNING", "HR_AUDIT_2_REVIEW", "FAILED"}
      [] m = 3 -> {"V3_GENERATING", "FAILED"}]
TailSpan ==
    {"V3_GENERATING", "V3_READY", "EM_AUDIT_2_RUNNING", "EM_AUDIT_2_REVIEW", "V4_GENERATING",
     "V4_READY", "FINAL_QA_RUNNING", "FINAL_QA_FAILED", "FINAL_READY", "FAILED"}

\* The deliveries of one audit agree on where to send the run.
AuditOf(m) == <<"audit", m>>
Reviews(m, rec) == rec.pc \in BodyPcs /\ Stage(rec) = NextOf[m]
Sends(m, rec, reviewed) ==
    /\ LacksFrom(rec.script, <<"move", ProducerOf[NextOf[m]]>>) \/ reviewed = "mismatched"
    /\ LacksFrom(rec.script, <<"move", ReviewOf[NextOf[m]]>>) \/ reviewed = "done"
Agreed(m) ==
    /\ \A p \in Procs : Sends(m, exec[p], answers[AuditOf(m)])
    /\ run.stage = ReviewOf[NextOf[m]] =>
          \/ answers[AuditOf(m)] = "done"
          \/ answers[AuditOf(m)] = "none" /\ \A p \in Procs : ~Reviews(m, exec[p])

Quiet == app \in LaterStages /\ \A c \in Clients : exec[c].script \in Seq(Ends)

Early(m) ==
    /\ Within(Span[m])
    /\ m = 0 \/ Quiet
    /\ m = 3 \/ Agreed(m)
    /\ 4 \notin versions
    /\ KnowsOnly({m})

Late ==
    /\ Within(TailSpan)
    /\ Quiet
    /\ run.stage # "V3_GENERATING"
    /\ 3 \in versions
    /\ KnowsOnly({3, 4, RepairVersion})

Lines == Late \/ \E m \in 0..3 : Early(m)

-----------------------------------------------------------------------------
(* Parked results.                                                         *)

\* Who knows a parked repair knows of the repair.
PayloadFits(payload) == payload.pending = Repair => payload.repair
ParkFits(rec) ==
    /\ PayloadFits(rec.copy)
    /\ rec.op = Repair => rec.copy.repair \/ rec.pc \in Finalizing \ {"reread"}
    /\ rec.pc = "park" => rec.answer # "none"
    /\ rec.pc = "append" => rec.answer # "none" \/ rec.copy.pending = rec.op

\* The answer of n ran out while its result was parked and nobody was at work: since then every
\* body starts from the parked result, and its way to the version does not lead through a call.
ToAppend == {"look", "reserve", "backend", "append"}
Marks(n, rec) ==
    /\ rec.pc \in BodyPcs \/ rec.giving => rec.copy.pending = Generate(n)
    /\ rec.pc \in BodyPcs /\ Generating(rec) => rec.op = Generate(n) /\ rec.pc \in ToAppend
    /\ Ending(rec) =>
          ~Generating(rec) /\ (Stage(rec) = "FINAL_QA_RUNNING" => rec.copy.pending = Generate(n))
Lost(n) == answers[Generate(n)] = "none" /\ n \notin versions /\ Known(n)
Marked(n) == run.payload.pending = Generate(n) /\ \A p \in Procs : Marks(n, exec[p])

\* A version whose answer ran out is not asked for.
Asks(n, rec) ==
    rec.op = Generate(n) =>
        /\ rec.pc \notin {"call", "park"}
        /\ rec.pc \in {"reserve", "backend"} => rec.copy.pending = Generate(n)
Forgot(n) == answers[Generate(n)] = "none" /\ n \in versions

ParkInv ==
    /\ PayloadFits(run.payload)
    /\ \A p \in Procs : ParkFits(exec[p])
    /\ \A c \in Clients : ~exec[c].giving
    /\ \A n \in Numbers : Lost(n) => Marked(n)
    /\ \A n \in Numbers : Forgot(n) => \A p \in Procs : Asks(n, exec[p])

\* What is known of parked results after a step of one actor.
Knows(a, rec, n) ==
    run'.payload.pending = Generate(n) \/ (a \in Procs /\ rec.copy.pending = Generate(n))

\* A run that started at a version later than V0.
Later == Late \/ \E m \in 1..3 : Early(m)

\* The operation of which the body of a generation may park the result.
Makes(a, n) == a \in Procs /\ exec[a].pc \in BodyPcs /\ Generating(exec[a]) /\ exec[a].op = Generate(n)

\* A script that moves the run only with its payload.
NoMoves(script) == \A s : LacksFrom(script, <<"move", s>>)

\* How a finalization goes on with the copy in which nothing is parked: it tells that its version
\* is ready, or goes straight to its next stage.
GoesOnWith(p, copy) ==
    /\ copy.pending = NoOperation /\ (copy.repair => run.payload.repair)
    /\ \/ \E script : /\ Go(p, Then(p, script, copy)) /\ NoMoves(script)
                      /\ LacksFrom(script, <<"put", "FINAL_READY">>)
       \/ \E rec : /\ Go(p, rec) /\ rec.pc = "next" /\ rec.copy = copy
                   /\ rec.job = exec[p].job /\ rec.adds = exec[p].adds
                   /\ rec.op = exec[p].op /\ rec.answer = exec[p].answer
                   /\ rec.script = <<>> /\ Stage(rec) = Stage(exec[p])

\* A transition to a stage: what the activity says after it, and what it writes.
Moves(a, rec, stage) ==
    /\ Go(a, rec) /\ SpeaksOn(rec, exec[a]) /\ rec.adds[1] \in {stage, "none"}
    /\ run'.stage = stage
    /\ run'.payload \in {run.payload, exec[a].copy}
    /\ UNCHANGED <<jobs, app, answers, versions>>

\* What a step of a keeps for the version n.
StaysParked(a, rec, n) ==
    /\ Knows(a, rec, n) => Known(n) \/ answers'[Generate(n)] # "none"
    /\ Lost(n) /\ answers'[Generate(n)] = "none" /\ n \notin versions' =>
          run'.payload.pending = Generate(n) /\ (a \in Procs => Marks(n, rec))
    /\ answers'[Generate(n)] = "none" /\ n \in versions' /\ a \in Procs => Asks(n, rec)
    /\ answers'[Generate(n)] = "none" /\ n \in versions' /\ n \notin versions =>
          \A p \in Procs : Asks(n, exec[p])

\* What a step leaves of the run and the versions, and of the queue.
RunGoesOn == run' \in Run /\ versions \subseteq versions' /\ (RunFollowsV4' => 4 \in versions')
MayAdd(a) ==
    \/ UNCHANGED jobs
    \/ exec[a].adds \in JobIds /\ jobs' = [jobs EXCEPT ![exec[a].adds].state = "waiting"]
=============================================================================
