---------------------------- MODULE WorkflowStages ----------------------------
(***************************************************************************)
(* The stage graph of a resume workflow, server/workflows/stages.ts: which *)
(* stages there are, which moves the graph allows, which stages a queue    *)
(* works on, and what a queue job may claim.  No state: the workflow       *)
(* modules EXTEND this one.                                                *)
(***************************************************************************)

QueuedStages == {"RESEARCH_QUEUED"}

GeneratingStages ==
    {"V0_GENERATING", "V1_GENERATING", "V2_GENERATING", "V3_GENERATING", "V4_GENERATING"}

AuditStages ==
    {"HR_AUDIT_1_RUNNING", "EM_AUDIT_1_RUNNING", "HR_AUDIT_2_RUNNING", "EM_AUDIT_2_RUNNING"}

RunningStages ==
    AuditStages \cup {"RESEARCH_RUNNING", "EVIDENCE_MATCHING_RUNNING", "FINAL_QA_RUNNING"}

ReviewStages ==
    {"RESEARCH_REVIEW_REQUIRED", "HR_AUDIT_1_REVIEW", "EM_AUDIT_1_REVIEW",
     "HR_AUDIT_2_REVIEW", "EM_AUDIT_2_REVIEW"}

ReadyStages ==
    {"V0_READY", "V1_READY", "V2_READY", "V3_READY", "V4_READY", "FINAL_READY"}

TerminalStages == {"FINAL_READY", "CANCELLED", "FAILED", "FINAL_QA_FAILED"}

Stages ==
    QueuedStages \cup GeneratingStages \cup RunningStages \cup ReviewStages
      \cup ReadyStages \cup TerminalStages
      \cup {"APPLICATION_CREATED", "RESEARCH_COMPLETED", "EVIDENCE_MATCHING_COMPLETED"}

\* Mutant of ClosedStages: the FAILED and CANCELLED edges are added to a cancelled run too.
OnlyReadyIsClosed == {"FINAL_READY"}

\* Nothing leaves these two.
ClosedStages == {"FINAL_READY", "CANCELLED"}

Forward ==
    { <<"APPLICATION_CREATED", "RESEARCH_QUEUED">>,
      <<"RESEARCH_QUEUED", "RESEARCH_RUNNING">>,
      <<"RESEARCH_RUNNING", "V0_GENERATING">>,
      <<"RESEARCH_RUNNING", "RESEARCH_REVIEW_REQUIRED">>,
      <<"RESEARCH_RUNNING", "RESEARCH_COMPLETED">>,
      <<"RESEARCH_REVIEW_REQUIRED", "RESEARCH_COMPLETED">>,
      <<"RESEARCH_REVIEW_REQUIRED", "RESEARCH_RUNNING">>,
      <<"RESEARCH_COMPLETED", "EVIDENCE_MATCHING_RUNNING">>,
      <<"EVIDENCE_MATCHING_RUNNING", "EVIDENCE_MATCHING_COMPLETED">>,
      <<"EVIDENCE_MATCHING_COMPLETED", "V0_GENERATING">>,
      <<"V0_GENERATING", "V0_READY">>,
      <<"V0_READY", "FINAL_QA_RUNNING">>,
      <<"V0_READY", "HR_AUDIT_1_RUNNING">>,
      <<"HR_AUDIT_1_RUNNING", "HR_AUDIT_1_REVIEW">>,
      <<"HR_AUDIT_1_REVIEW", "V1_GENERATING">>,
      <<"V1_GENERATING", "V1_READY">>,
      <<"V1_READY", "EM_AUDIT_1_RUNNING">>,
      <<"EM_AUDIT_1_RUNNING", "EM_AUDIT_1_REVIEW">>,
      <<"EM_AUDIT_1_REVIEW", "V2_GENERATING">>,
      <<"V2_GENERATING", "V2_READY">>,
      <<"V2_READY", "HR_AUDIT_2_RUNNING">>,
      <<"HR_AUDIT_2_RUNNING", "HR_AUDIT_2_REVIEW">>,
      <<"HR_AUDIT_2_REVIEW", "V3_GENERATING">>,
      <<"V3_GENERATING", "V3_READY">>,
      <<"V3_READY", "EM_AUDIT_2_RUNNING">>,
      <<"EM_AUDIT_2_RUNNING", "EM_AUDIT_2_REVIEW">>,
      <<"EM_AUDIT_2_REVIEW", "V4_GENERATING">>,
      <<"V4_GENERATING", "V4_READY">>,
      <<"V4_READY", "FINAL_QA_RUNNING">>,
      <<"FINAL_QA_RUNNING", "FINAL_READY">>,
      <<"FINAL_QA_RUNNING", "FINAL_QA_FAILED">>,
      <<"FINAL_QA_RUNNING", "V4_GENERATING">>,
      <<"FINAL_QA_FAILED", "FINAL_QA_RUNNING">> }

\* Where a failed run may be resumed: the starts of paid or queued work.
Resumable ==
    AuditStages \cup
    {"RESEARCH_QUEUED", "EVIDENCE_MATCHING_RUNNING", "V0_GENERATING", "V4_GENERATING",
     "FINAL_QA_RUNNING"}

Transitions ==
    Forward
      \cup ((Stages \ (ClosedStages \cup {"FAILED"})) \X {"CANCELLED", "FAILED"})
      \cup ({"FAILED"} \X Resumable)

CanTransition(from, to) == from = to \/ <<from, to>> \in Transitions

\* queueForStage is defined exactly on these; every other stage enqueues nothing.
WorkStages == QueuedStages \cup GeneratingStages \cup RunningStages

QueueForStage(stage) ==
    IF stage \in {"RESEARCH_QUEUED", "RESEARCH_RUNNING"} THEN "research"
    ELSE IF stage = "EVIDENCE_MATCHING_RUNNING" THEN "evidence-matching"
    ELSE IF stage \in GeneratingStages THEN "resume-generation"
    ELSE "resume-audit"

RunningCounterpart(stage) == IF stage = "RESEARCH_QUEUED" THEN "RESEARCH_RUNNING" ELSE stage

StageMatchesJobClaim(actual, claimed) ==
    actual = claimed \/ actual = RunningCounterpart(claimed)

\* The status engine.transition derives when its caller passes none.
DerivedStatus(to) ==
    IF to \in ReviewStages \cup ReadyStages THEN "waiting_review"
    ELSE IF to = "CANCELLED" THEN "cancelled"
    ELSE IF to = "FAILED" THEN "failed"
    ELSE IF to \in TerminalStages THEN "completed"
    ELSE IF to \in QueuedStages THEN "queued"
    ELSE "running"
=============================================================================
