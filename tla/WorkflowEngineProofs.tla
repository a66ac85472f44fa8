------------------------- MODULE WorkflowEngineProofs -------------------------
(***************************************************************************)
(* Type correctness of WorkflowEngine for any number of activities,        *)
(* clients, deliveries and faults.  TypeOK is not inductive: a job is      *)
(* within its tries only because one delivery at a time is attached to it, *)
(* and a step reads the head of a list that must not be empty.             *)
(***************************************************************************)
EXTENDS WorkflowEngine, TLAPS

\* What an activity or client has ready for its next step.
Shape(rec) ==
    /\ rec.pc \in {"read", "write", "refund"} => rec.todo # <<>>
    /\ rec.pc \in {"load", "claim", "work", "release", "giveup"} => rec.job \in JobIds
    /\ rec.giving => rec.job \in JobIds
    /\ rec.pc = "retry" => rec.attempt \in Attempts
    /\ rec.attached => rec.job \in JobIds

Shapes == \A a \in Actors : Shape(exec[a])

\* A job that can still be delivered has tries left.
TriesAreLeft ==
    \A j \in JobIds : jobs[j].state \in {"waiting", "active"} => jobs[j].tries < QueueAttempts

\* A delivery the queue waits for is the only one of an active job.
DeliveriesAreActive ==
    /\ \A p \in Procs : exec[p].attached => jobs[exec[p].job].state = "active"
    /\ \A p, q \in Procs :
          p # q /\ exec[p].attached /\ exec[q].attached => exec[p].job # exec[q].job

EngineInv ==
    /\ TypeOK
    /\ Shapes
    /\ TriesAreLeft
    /\ DeliveriesAreActive

\* The ids of the jobs that stages and retries enqueue.
LEMMA StageJobIsAJob ==
    ASSUME NEW stage \in PipelineStages, NEW attempt \in Attempts
    PROVE  StageJob(stage, attempt) \in JobIds
BY DEF StageJob, JobIds

LEMMA RetryJobIsAJob ==
    ASSUME NEW stage \in PipelineStages, NEW attempt \in Attempts
    PROVE  RetryJob(stage, attempt) \in JobIds
BY DEF RetryJob, JobIds, PipelineStages, QueueForStage, GeneratingStages

LEMMA NoJobIsNone == NoJob \notin JobIds
BY DEF NoJob, JobIds

\* A plan is a non-empty list of stages.
LEMMA PlanIsStages ==
    ASSUME NEW stage \in PipelineStages
    PROVE  Plan(RunningCounterpart(stage)) \in Seq(RunStages)
           /\ Plan(RunningCounterpart(stage)) # <<>>
           /\ RunningCounterpart(stage) \in PipelineStages
<1>1. RunningCounterpart(stage) \in PipelineStages
  BY DEF PipelineStages, RunningCounterpart
<1>2. \A a, b \in RunStages : <<a>> \in Seq(RunStages) /\ <<a>> # <<>>
                             /\ <<a, b>> \in Seq(RunStages) /\ <<a, b>> # <<>>
  OBVIOUS
<1>3. {"V0_GENERATING", "V0_READY", "FINAL_QA_RUNNING", "FINAL_READY"} \subseteq RunStages
  BY DEF RunStages, PipelineStages
<1>4. QED
  BY <1>1, <1>2, <1>3 DEF Plan

LEMMA StatusAfterIsAStatus ==
    ASSUME NEW stage
    PROVE  StatusAfter(stage) \in Statuses
BY DEF StatusAfter, DerivedStatus, Statuses

LEMMA IdleIsAnActivity == Idle \in Activity /\ Shape(Idle)
BY DEF Idle, Activity, Pcs, WorkPcs, NoClaims, Holders, PipelineStages, Shape

LEMMA DoneIsAnActivity == ASSUME NEW c PROVE Done(c) \in Activity /\ Shape(Done(c))
BY IdleIsAnActivity DEF Done, Activity, Pcs, Shape

\* Deliveries that end leave holders.
LEMMA OrphanedIsTyped ==
    ASSUME NEW claims \in [PipelineStages -> Holders], NEW P
    PROVE  Orphaned(claims, P) \in [PipelineStages -> Holders]
BY DEF Orphaned, Holders

LEMMA EngineInvHoldsInitially == Init => EngineInv
<1> SUFFICES ASSUME Init PROVE EngineInv
  OBVIOUS
<1>1. TypeOK
  BY EngineAssumption, IdleIsAnActivity
  DEF Init, TypeOK, Faults, Run, Job, RunStages, Statuses, Attempts, PipelineStages, NoClaims, Holders
<1>2. Shapes
  BY IdleIsAnActivity DEF Init, Shapes
<1>3. TriesAreLeft /\ DeliveriesAreActive
  BY DEF Init, TriesAreLeft, DeliveriesAreActive, Idle, Actors
<1>4. QED
  BY <1>1, <1>2, <1>3 DEF EngineInv

\* One actor moves on, at most the run and the fault budgets change with it.
LEMMA ActorMoves ==
    ASSUME EngineInv, NEW a \in Actors, NEW rec \in Activity, Shape(rec), Go(a, rec),
           rec.attached => exec[a].attached /\ rec.job = exec[a].job,
           run' \in Run, UNCHANGED jobs,
           faults' \in Faults
    PROVE  EngineInv'
<1> USE DEF EngineInv, Go
<1>1. TypeOK'
  BY DEF TypeOK
<1>2. Shapes'
  BY DEF Shapes, TypeOK, Shape
<1>3. TriesAreLeft' /\ DeliveriesAreActive'
  BY DEF TriesAreLeft, DeliveriesAreActive, TypeOK, Actors
<1>4. QED
  BY <1>1, <1>2, <1>3

\* The job an actor is delivering tells the stage it may claim.
LEMMA ClaimKeyIsAStage ==
    ASSUME EngineInv, NEW a \in Actors, exec[a].job \in JobIds
    PROVE  ClaimKey(a) \in PipelineStages
BY DEF EngineInv, TypeOK, ClaimKey, Job

\* What an exception leads to is an activity again.
LEMMA ThrowIsAnActivity ==
    ASSUME EngineInv, NEW a \in Actors, NEW error \in {"retryable", "permanent"}
    PROVE  /\ Throw(a, error) \in Activity
           /\ Shape(Throw(a, error))
           /\ Throw(a, error).attached =>
                 exec[a].attached /\ Throw(a, error).job = exec[a].job
<1>1. CASE a \in Clients
  BY <1>1, DoneIsAnActivity DEF Throw, Done, Idle
<1>2. CASE a \notin Clients
  <2>1. exec[a] \in Activity /\ Shape(exec[a]) /\ Idle \in Activity
    BY IdleIsAnActivity DEF EngineInv, TypeOK, Shapes
  <2>2. PICK pc \in {"rejected", "release"} :
           /\ pc = "release" => exec[a].job \in JobIds
           /\ Throw(a, error) =
                 [exec[a] EXCEPT !.pc = pc, !.error = error, !.todo = <<>>, !.raced = FALSE,
                                 !.adds = NoJob, !.addsStage = Idle.addsStage]
    BY <1>2, <2>1 DEF Throw, Activity
  <2> DEFINE first == [exec[a] EXCEPT !.pc = pc, !.error = error, !.todo = <<>>]
  <2>3. first \in Activity /\ Shape(first)
        /\ first.attached = exec[a].attached /\ first.job = exec[a].job
    <3>1. [exec[a] EXCEPT !.pc = pc, !.error = error] \in Activity
      BY <2>1 DEF Activity, Pcs
    <3> DEFINE thrown == [exec[a] EXCEPT !.pc = pc, !.error = error]
    <3> HIDE DEF thrown
    <3>2. first \in Activity
      <4>1. first = [thrown EXCEPT !.todo = <<>>]
        BY DEF thrown
      <4>2. <<>> \in Seq(RunStages)
        OBVIOUS
      <4>3. thrown \in Activity
        BY <3>1 DEF thrown
      <4> HIDE DEF first
      <4>4. QED
        BY <4>1, <4>2, <4>3 DEF Activity
    <3>3. /\ first.pc = pc /\ first.attached = exec[a].attached /\ first.job = exec[a].job
          /\ first.attempt = exec[a].attempt /\ first.giving = exec[a].giving
      BY <2>1 DEF Activity
    <3> HIDE DEF first
    <3>4. QED
      BY <2>1, <2>2, <3>2, <3>3 DEF Shape
  <2> HIDE DEF first
  <2> DEFINE rec == [first EXCEPT !.raced = FALSE, !.adds = NoJob, !.addsStage = Idle.addsStage]
  <2>4. rec \in Activity /\ Shape(rec) /\ rec.attached = first.attached /\ rec.job = first.job
    BY <2>1, <2>3 DEF Activity, Shape
  <2>5. Throw(a, error) = rec
    BY <2>2 DEF first
  <2>6. QED
    BY <2>3, <2>4, <2>5
<1>3. QED
  BY <1>1, <1>2

\* So is what follows an event or a job added.
LEMMA AfterIsAnActivity ==
    ASSUME NEW rec \in Activity, Shape(rec)
    PROVE  After(rec) \in Activity /\ Shape(After(rec))
           /\ After(rec).attached = rec.attached /\ After(rec).job = rec.job
<1> DEFINE first == [rec EXCEPT !.adds = NoJob, !.addsStage = Idle.addsStage, !.raced = FALSE]
<1>1. first \in Activity /\ Shape(first) /\ first.attached = rec.attached
      /\ first.job = rec.job /\ first.todo = rec.todo
  BY IdleIsAnActivity DEF Activity, Shape
<1> HIDE DEF first
<1> DEFINE pc == IF rec.todo # <<>> THEN "read" ELSE IF rec.giving THEN "mark" ELSE "resolved"
<1>2. After(rec) = [first EXCEPT !.pc = pc]
  BY DEF After, first
<1>3. pc \in {"read", "mark", "resolved"} /\ (pc = "read" => first.todo # <<>>)
  BY <1>1
<1> HIDE DEF pc
<1>4. QED
  BY <1>1, <1>2, <1>3 DEF Activity, Shape, Pcs, WorkPcs

\* Transitions are made by activities and by customers.
LEMMA TransitionKeepsInv ==
    ASSUME EngineInv, NEW a \in Actors, TransitionRead(a) \/ TransitionWrite(a)
    PROVE  EngineInv'
<1>1. exec[a] \in Activity /\ Shape(exec[a]) /\ run \in Run /\ jobs \in [JobIds -> Job]
      /\ faults \in Faults
  BY DEF EngineInv, TypeOK, Shapes
<1>2. CASE TransitionRead(a)
  <2> DEFINE rec == [exec[a] EXCEPT !.pc = "write"]
  <2>1. rec \in Activity /\ Shape(rec) /\ rec.attached = exec[a].attached /\ rec.job = exec[a].job
    BY <1>1, <1>2 DEF TransitionRead, At, Activity, Shape, Pcs, WorkPcs
  <2>2. QED
    BY <1>1, <1>2, <2>1, ThrowIsAnActivity, ActorMoves DEF TransitionRead
<1>3. CASE TransitionWrite(a)
  <2> DEFINE stage == Head(exec[a].todo)
             attempt == IF a \in Resumers THEN 1 ELSE run.attempt
             adds == IF stage \in PipelineStages THEN StageJob(stage, attempt) ELSE NoJob
             addsStage == IF stage \in PipelineStages THEN stage ELSE exec[a].addsStage
             failedAt == IF exec[a].giving THEN ClaimKey(a) ELSE run.failedAt
             claims == IF exec[a].giving \/ a \in Resumers THEN exec[a].seen ELSE run.claims
             rec == [exec[a] EXCEPT !.pc = "append", !.todo = Tail(@), !.seen = NoClaims,
                                    !.adds = adds, !.addsStage = addsStage]
  <2>1. exec[a].todo \in Seq(RunStages) /\ exec[a].todo # <<>>
    BY <1>1, <1>3 DEF TransitionWrite, At, Shape, Activity
  <2>2. stage \in RunStages /\ Tail(exec[a].todo) \in Seq(RunStages)
    BY <2>1
  <2>3. attempt \in Attempts
    BY <1>1, EngineAssumption DEF Run, Attempts
  <2>4. failedAt \in PipelineStages
    BY <1>1, ClaimKeyIsAStage DEF Shape, Run
  <2>5. claims \in [PipelineStages -> Holders] /\ NoClaims \in [PipelineStages -> Holders]
    BY <1>1 DEF Run, Activity, NoClaims, Holders
  <2>6. Go(a, rec) /\ UNCHANGED <<jobs, faults>>
    BY <1>3 DEF TransitionWrite
  <2>7. run' = [run EXCEPT !.stage = stage, !.status = StatusAfter(stage), !.attempt = attempt,
                           !.claims = claims, !.failedAt = failedAt]
    BY <1>3 DEF TransitionWrite
  <2> HIDE DEF attempt, failedAt, claims
  <2>8. adds \in JobIds \cup {NoJob} /\ addsStage \in PipelineStages
    BY <1>1, <2>3, StageJobIsAJob DEF Activity
  <2> HIDE DEF stage, adds, addsStage
  <2>9. rec \in Activity /\ Shape(rec) /\ rec.attached = exec[a].attached /\ rec.job = exec[a].job
    <3> DEFINE first == [exec[a] EXCEPT !.pc = "append", !.todo = Tail(@), !.seen = NoClaims]
    <3>1. first \in Activity /\ Shape(first) /\ first.pc = "append"
          /\ first.attached = exec[a].attached /\ first.job = exec[a].job
      BY <1>1, <2>2, <2>5 DEF Activity, Shape, Pcs, WorkPcs
    <3>2. rec = [first EXCEPT !.adds = adds, !.addsStage = addsStage]
      OBVIOUS
    <3> HIDE DEF first, rec
    <3>3. QED
      BY <2>8, <3>1, <3>2 DEF Activity, Shape
  <2>10. run' \in Run
    BY <1>1, <2>2, <2>3, <2>4, <2>5, <2>7, StatusAfterIsAStatus DEF Run
  <2> HIDE DEF rec
  <2>11. QED
    BY <1>1, <2>6, <2>9, <2>10, ActorMoves
<1>4. QED
  BY <1>2, <1>3

\* The steps of one actor that leave the queue alone.
LEMMA ActorStepKeepsInv ==
    ASSUME EngineInv, NEW p \in Procs,
           \/ Load(p) \/ ClaimStage(p) \/ WorkDone(p)
           \/ (\E error \in {"retryable", "permanent"} : WorkThrows(p, error))
           \/ Release(p) \/ GiveUp(p) \/ Refund(p) \/ MarkApplication(p)
    PROVE  EngineInv'
<1>1. exec[p] \in Activity /\ Shape(exec[p]) /\ p \in Actors /\ run \in Run /\ jobs \in [JobIds -> Job]
      /\ faults \in Faults
  BY DEF EngineInv, TypeOK, Shapes, Actors
<1>2. exec[p].pc \in {"load", "claim", "work", "release"} =>
         exec[p].job \in JobIds /\ ClaimKey(p) \in PipelineStages
  BY <1>1, ClaimKeyIsAStage DEF Shape
<1>3. CASE Load(p)
  <2>1. PICK pc \in {"claim", "resolved"} : Go(p, [exec[p] EXCEPT !.pc = pc])
    BY <1>3 DEF Load
  <2>2. [exec[p] EXCEPT !.pc = pc] \in Activity /\ Shape([exec[p] EXCEPT !.pc = pc])
    BY <1>1, <1>2, <1>3 DEF Load, At, Activity, Shape, Pcs
  <2>3. QED
    BY <1>1, <1>3, <2>1, <2>2, ActorMoves DEF Load, Activity
<1>4. CASE ClaimStage(p)
  <2>1. PICK pc \in {"work", "resolved"} : Go(p, [exec[p] EXCEPT !.pc = pc])
    BY <1>4 DEF ClaimStage
  <2>2. [exec[p] EXCEPT !.pc = pc] \in Activity /\ Shape([exec[p] EXCEPT !.pc = pc])
    BY <1>1, <1>2, <1>4 DEF ClaimStage, At, Activity, Shape, Pcs, WorkPcs
  <2>3. run' \in Run
    <3>1. RunningCounterpart(ClaimKey(p)) \in RunStages /\ "running" \in Statuses /\ p \in Holders
      BY <1>2, <1>4, PlanIsStages DEF ClaimStage, At, RunStages, Statuses, Holders
    <3> DEFINE stage == ClaimKey(p)
    <3>2. stage \in PipelineStages
      BY <1>2, <1>4 DEF ClaimStage, At
    <3>3. \/ UNCHANGED run
          \/ run' = [run EXCEPT !.stage = RunningCounterpart(stage), !.status = "running",
                               !.claims[stage] = p]
      BY <1>4 DEF ClaimStage
    <3> HIDE DEF stage
    <3>4. [run EXCEPT !.stage = RunningCounterpart(stage), !.status = "running",
                      !.claims[stage] = p] \in Run
      BY <1>1, <3>1, <3>2 DEF Run, stage
    <3>5. QED
      BY <1>1, <3>3, <3>4
  <2>4. QED
    BY <1>1, <1>4, <2>1, <2>2, <2>3, ActorMoves DEF ClaimStage, Activity
<1>5. CASE WorkDone(p)
  <2> DEFINE todo == Plan(RunningCounterpart(ClaimKey(p)))
             rec == [exec[p] EXCEPT !.pc = "read", !.todo = todo]
  <2>1. todo \in Seq(RunStages) /\ todo # <<>>
    BY <1>2, <1>5, PlanIsStages DEF WorkDone, At
  <2>2. rec \in Activity /\ Shape(rec) /\ rec.attached = exec[p].attached /\ rec.job = exec[p].job
    BY <1>1, <2>1 DEF Activity, Shape, Pcs, WorkPcs
  <2>3. QED
    BY <1>1, <1>5, <2>2, ActorMoves DEF WorkDone
<1>6. CASE \E error \in {"retryable", "permanent"} : WorkThrows(p, error)
  <2> PICK error \in {"retryable", "permanent"} : WorkThrows(p, error)
    BY <1>6
  <2> DEFINE rec == [exec[p] EXCEPT !.pc = "release", !.error = error]
  <2>1. rec \in Activity /\ Shape(rec) /\ rec.attached = exec[p].attached /\ rec.job = exec[p].job
    BY <1>1, <1>2 DEF WorkThrows, At, Activity, Shape, Pcs
  <2>2. QED
    BY <1>1, <2>1, ActorMoves DEF WorkThrows
<1>7. CASE Release(p)
  <2>1. PICK pc \in {"giveup", "rejected"} :
           Go(p, [exec[p] EXCEPT !.pc = pc, !.error = "none"])
    BY <1>7 DEF Release
  <2> DEFINE rec == [exec[p] EXCEPT !.pc = pc, !.error = "none"]
  <2>2. rec \in Activity /\ Shape(rec) /\ rec.attached = exec[p].attached /\ rec.job = exec[p].job
    BY <1>1, <1>2, <1>7 DEF Release, At, Activity, Shape, Pcs
  <2>3. run' \in Run
    BY <1>1, <1>2, <1>7 DEF Release, At, Run, Holders
  <2>4. QED
    BY <1>1, <1>7, <2>1, <2>2, <2>3, ActorMoves DEF Release
<1>8. CASE GiveUp(p)
  <2>1. run.claims \in [PipelineStages -> Holders] /\ <<"FAILED">> \in Seq(RunStages)
    BY <1>1 DEF Run, RunStages
  <2> DEFINE rec == [exec[p] EXCEPT !.pc = "refund", !.giving = TRUE, !.seen = run.claims,
                                    !.todo = <<"FAILED">>]
             past == [exec[p] EXCEPT !.pc = "resolved"]
  <2>2. rec \in Activity /\ Shape(rec) /\ rec.attached = exec[p].attached /\ rec.job = exec[p].job
    BY <1>1, <1>8, <2>1 DEF GiveUp, At, Activity, Shape, Pcs
  <2>3. past \in Activity /\ Shape(past) /\ past.attached = exec[p].attached
        /\ past.job = exec[p].job
    BY <1>1 DEF Activity, Shape, Pcs
  <2>4. QED
    BY <1>1, <1>8, <2>2, <2>3, ActorMoves DEF GiveUp
<1>9. CASE Refund(p)
  <2> DEFINE rec == [exec[p] EXCEPT !.pc = "read"]
  <2>1. rec \in Activity /\ Shape(rec) /\ rec.attached = exec[p].attached /\ rec.job = exec[p].job
    BY <1>1, <1>9 DEF Refund, At, Activity, Shape, Pcs, WorkPcs
  <2>2. QED
    BY <1>1, <1>9, <2>1, ActorMoves DEF Refund
<1>10. CASE MarkApplication(p)
  <2> DEFINE rec == [exec[p] EXCEPT !.pc = "resolved"]
  <2>1. rec \in Activity /\ Shape(rec) /\ rec.attached = exec[p].attached /\ rec.job = exec[p].job
    BY <1>1 DEF Activity, Shape, Pcs
  <2>2. QED
    BY <1>1, <1>10, <2>1, ActorMoves DEF MarkApplication
<1>11. QED
  BY <1>3, <1>4, <1>5, <1>6, <1>7, <1>8, <1>9, <1>10

\* What every step below starts from.
LEMMA ActorIsTyped ==
    ASSUME EngineInv, NEW a \in Actors
    PROVE  /\ exec[a] \in Activity /\ Shape(exec[a])
           /\ run \in Run /\ jobs \in [JobIds -> Job] /\ exec \in [Actors -> Activity]
           /\ faults \in Faults
BY DEF EngineInv, TypeOK, Shapes

\* Events: p goes on, and every other writer of an event learns that it raced.
LEMMA EventKeepsInv ==
    ASSUME EngineInv, NEW a \in Actors, AppendEvent(a) \/ AppendCollides(a)
    PROVE  EngineInv'
<1>1. CASE AppendEvent(a)
  <2> DEFINE next(q) == IF q = a
                        THEN IF exec[a].adds # NoJob THEN [exec[a] EXCEPT !.pc = "enqueue"]
                             ELSE After(exec[a])
                        ELSE [exec[q] EXCEPT !.raced = @ \/ At(q, "append")]
  <2>1. ASSUME NEW q \in Actors
        PROVE  /\ next(q) \in Activity /\ Shape(next(q))
               /\ next(q).attached = exec[q].attached /\ next(q).job = exec[q].job
    <3>1. CASE q = a
      <4> DEFINE rec == [exec[a] EXCEPT !.pc = "enqueue"]
      <4>1. exec[a] \in Activity /\ Shape(exec[a])
        BY ActorIsTyped
      <4>2. rec \in Activity /\ Shape(rec) /\ rec.attached = exec[a].attached
            /\ rec.job = exec[a].job
        BY <4>1 DEF Activity, Shape, Pcs, WorkPcs
      <4> HIDE DEF rec
      <4>3. next(q) = rec \/ next(q) = After(exec[a])
        BY <3>1 DEF rec
      <4> HIDE DEF next
      <4>4. QED
        BY <3>1, <4>1, <4>2, <4>3, AfterIsAnActivity
    <3>2. CASE q # a
      <4>1. (exec[q].raced \/ At(q, "append")) \in BOOLEAN
        OBVIOUS
      <4>2. exec[q] \in Activity /\ Shape(exec[q])
        BY ActorIsTyped
      <4> QED
        BY <3>2, <4>1, <4>2 DEF Activity, Shape
    <3>3. QED
      BY <3>1, <3>2
  <2>2. exec' = [q \in Actors |-> next(q)] /\ UNCHANGED <<run, jobs, faults>>
    BY <1>1 DEF AppendEvent
  <2> HIDE DEF next
  <2>3. TypeOK'
    BY <2>1, <2>2 DEF EngineInv, TypeOK
  <2>4. Shapes' /\ TriesAreLeft' /\ DeliveriesAreActive'
    BY <2>1, <2>2 DEF EngineInv, Shapes, TriesAreLeft, DeliveriesAreActive, Actors
  <2>5. QED
    BY <2>3, <2>4 DEF EngineInv
<1>2. CASE AppendCollides(a)
  BY <1>2, ActorIsTyped, ThrowIsAnActivity, ActorMoves DEF AppendCollides
<1>3. QED
  BY <1>1, <1>2

\* Adding a job touches no job that is being delivered.
LEMMA EnqueueKeepsInv == ASSUME EngineInv, NEW a \in Actors, Enqueue(a) PROVE EngineInv'
<1> DEFINE j == exec[a].adds
           job == [state |-> "waiting", tries |-> 0, stage |-> exec[a].addsStage]
<1>1. exec[a].addsStage \in PipelineStages /\ job \in Job
  BY ActorIsTyped, EngineAssumption DEF Activity, Job
<1>2. jobs' = jobs \/ (jobs[j].state = "absent" /\ jobs' = [jobs EXCEPT ![j] = job])
  BY DEF Enqueue, Added
<1>3. After(exec[a]) \in Activity /\ Shape(After(exec[a]))
      /\ After(exec[a]).attached = exec[a].attached /\ After(exec[a]).job = exec[a].job
  BY ActorIsTyped, AfterIsAnActivity
<1>4. Go(a, After(exec[a])) /\ UNCHANGED <<run, faults>>
  BY DEF Enqueue
<1> HIDE DEF j
<1>5. TypeOK'
  BY <1>1, <1>2, <1>3, <1>4 DEF EngineInv, TypeOK, Go
<1>6. Shapes'
  BY <1>3, <1>4 DEF EngineInv, TypeOK, Go, Shapes
<1>7. TriesAreLeft'
  BY <1>2, EngineAssumption DEF EngineInv, TypeOK, TriesAreLeft
<1>8. DeliveriesAreActive'
  <2>1. \A q \in Procs : exec'[q].attached = exec[q].attached /\ exec'[q].job = exec[q].job
    BY <1>3, <1>4 DEF EngineInv, TypeOK, Go, Actors
  <2>2. \A q \in Procs : exec[q].attached => exec[q].job \in JobIds
    BY DEF EngineInv, Shapes, Shape, Actors
  <2>3. \A k \in JobIds : jobs[k].state = "active" => jobs'[k] = jobs[k]
    BY <1>2 DEF EngineInv, TypeOK
  <2>4. QED
    BY <2>1, <2>2, <2>3 DEF EngineInv, DeliveriesAreActive
<1>9. QED
  BY <1>5, <1>6, <1>7, <1>8 DEF EngineInv

LEMMA DeliverKeepsInv ==
    ASSUME EngineInv, NEW p \in Procs, NEW j \in JobIds, Deliver(p, j)
    PROVE  EngineInv'
<1> DEFINE rec == [Idle EXCEPT !.pc = "load", !.job = j, !.attached = TRUE]
<1>1. rec \in Activity /\ Shape(rec) /\ rec.attached /\ rec.job = j
  BY IdleIsAnActivity DEF Activity, Shape, Pcs
<1>2. /\ jobs[j].state = "waiting" /\ jobs' = [jobs EXCEPT ![j].state = "active"]
      /\ exec' = [exec EXCEPT ![p] = rec] /\ UNCHANGED <<run, faults>> /\ p \in Actors
  BY DEF Deliver, Go, Actors
<1> HIDE DEF rec
<1>3. TypeOK'
  BY <1>1, <1>2 DEF EngineInv, TypeOK, Job
<1>4. Shapes'
  BY <1>1, <1>2 DEF EngineInv, TypeOK, Shapes
<1>5. TriesAreLeft'
  BY <1>2 DEF EngineInv, TypeOK, TriesAreLeft, Job
<1>6. DeliveriesAreActive'
  <2>1. \A q \in Procs : exec[q].attached => exec[q].job \in JobIds /\ exec[q].job # j
    BY <1>2 DEF EngineInv, Shapes, Shape, DeliveriesAreActive, Actors
  <2>2. QED
    BY <1>1, <1>2, <2>1 DEF EngineInv, TypeOK, DeliveriesAreActive, Job, Actors
<1>7. QED
  BY <1>3, <1>4, <1>5, <1>6 DEF EngineInv

\* Deliveries that end: what they leave is typed, and nobody in P is attached any more.
LEMMA LeavingIsTyped ==
    ASSUME EngineInv, NEW P \in SUBSET Procs,
           NEW left \in Activity, Shape(left), left.attached = FALSE,
           run' = [run EXCEPT !.claims = Orphaned(@, P)],
           exec' = [q \in Actors |-> IF q \in P THEN left
                                     ELSE [exec[q] EXCEPT !.seen = Orphaned(@, P)]]
    PROVE  /\ run' \in Run /\ exec' \in [Actors -> Activity] /\ Shapes'
           /\ \A q \in Procs : /\ exec'[q].attached => exec[q].attached /\ q \notin P
                               /\ q \notin P => exec'[q].job = exec[q].job
<1> DEFINE rec(q) == [exec[q] EXCEPT !.seen = Orphaned(@, P)]
<1>1. ASSUME NEW q \in Actors
      PROVE  /\ rec(q) \in Activity /\ Shape(rec(q))
             /\ rec(q).attached = exec[q].attached /\ rec(q).job = exec[q].job
  <2>1. exec[q] \in Activity /\ Shape(exec[q])
    BY ActorIsTyped
  <2>2. Orphaned(exec[q].seen, P) \in [PipelineStages -> Holders]
    BY <2>1, OrphanedIsTyped DEF Activity
  <2>3. QED
    BY <2>1, <2>2 DEF Activity, Shape
<1>2. exec' = [q \in Actors |-> IF q \in P THEN left ELSE rec(q)]
  OBVIOUS
<1> HIDE DEF rec
<1>3. run' \in Run
  <2>1. run \in Run /\ run.claims \in [PipelineStages -> Holders]
    BY DEF EngineInv, TypeOK, Run
  <2>2. Orphaned(run.claims, P) \in [PipelineStages -> Holders]
    BY <2>1, OrphanedIsTyped
  <2>3. QED
    BY <2>1, <2>2 DEF Run
<1>4. exec' \in [Actors -> Activity] /\ Shapes'
  BY <1>1, <1>2 DEF Shapes
<1>5. QED
  BY <1>1, <1>2, <1>3, <1>4 DEF Actors

LEMMA EndIsTyped ==
    ASSUME EngineInv, NEW P \in SUBSET Procs, End(P)
    PROVE  /\ run' \in Run /\ exec' \in [Actors -> Activity] /\ Shapes'
           /\ \A q \in Procs : /\ exec'[q].attached => exec[q].attached /\ q \notin P
                               /\ q \notin P => exec'[q].job = exec[q].job
<1>1. Idle \in Activity /\ Shape(Idle) /\ Idle.attached = FALSE
  BY IdleIsAnActivity DEF Idle
<1>2. QED
  BY <1>1, LeavingIsTyped DEF End

LEMMA ResolveKeepsInv == ASSUME EngineInv, NEW p \in Procs, Resolve(p) PROVE EngineInv'
<1> DEFINE j == exec[p].job
<1>1. End({p}) /\ UNCHANGED faults
      /\ (jobs' = jobs \/ (exec[p].attached /\ jobs' = [jobs EXCEPT ![j].state = "completed"]))
  BY DEF Resolve
<1>2. /\ run' \in Run /\ exec' \in [Actors -> Activity] /\ Shapes'
      /\ \A q \in Procs : /\ exec'[q].attached => exec[q].attached /\ q # p
                          /\ q # p => exec'[q].job = exec[q].job
  BY <1>1, EndIsTyped
<1>3. jobs \in [JobIds -> Job] /\ (exec[p].attached => j \in JobIds)
  BY ActorIsTyped DEF Shape, Actors
<1>4. jobs' \in [JobIds -> Job]
  BY <1>1, <1>3 DEF Job
<1> HIDE DEF j
<1>5. TriesAreLeft'
  BY <1>1, <1>3 DEF EngineInv, TriesAreLeft, Job
<1>6. DeliveriesAreActive'
  BY <1>1, <1>2, <1>3 DEF EngineInv, DeliveriesAreActive, Shapes, Shape, Actors, j
<1>7. QED
  BY <1>1, <1>2, <1>4, <1>5, <1>6 DEF EngineInv, TypeOK

\* A failed delivery: the job waits again with a try left, or is exhausted.
LEMMA AfterFailureIsTyped ==
    ASSUME EngineInv, NEW j \in JobIds, jobs[j].state = "active"
    PROVE  /\ AfterFailure(j) \in [JobIds -> Job]
           /\ \A k \in JobIds : AfterFailure(j)[k].state \in {"waiting", "active"} =>
                                   AfterFailure(j)[k].tries < QueueAttempts
           /\ \A k \in JobIds : k # j => AfterFailure(j)[k] = jobs[k]
<1>1. jobs \in [JobIds -> Job] /\ jobs[j].tries < QueueAttempts /\ jobs[j].tries \in 0..QueueAttempts
  BY DEF EngineInv, TypeOK, TriesAreLeft, Job
<1>2. QueueAttempts \in Nat
  BY EngineAssumption
<1> DEFINE job == [state |-> IF jobs[j].tries + 1 < QueueAttempts THEN "waiting" ELSE "failed",
                   tries |-> jobs[j].tries + 1, stage |-> jobs[j].stage]
<1>3. job \in Job /\ (job.state \in {"waiting", "active"} => job.tries < QueueAttempts)
  BY <1>1, <1>2 DEF Job
<1>4. AfterFailure(j) = [jobs EXCEPT ![j] = job]
  BY DEF AfterFailure
<1> HIDE DEF job
<1>5. QED
  BY <1>1, <1>3, <1>4 DEF EngineInv, TriesAreLeft

\* The queue's record of a job after one delivery of it failed or was given up: nobody else is
\* attached to that job.
LEMMA DetachKeepsInv ==
    ASSUME EngineInv, NEW p \in Procs, exec[p].attached,
           run' \in Run, exec' \in [Actors -> Activity], Shapes',
           faults' \in Faults,
           jobs' = AfterFailure(exec[p].job)
             \/ jobs' = [jobs EXCEPT ![exec[p].job].state = "waiting"],
           \A q \in Procs : /\ exec'[q].attached => exec[q].attached /\ q # p
                            /\ exec'[q].attached => exec'[q].job = exec[q].job
    PROVE  EngineInv'
<1> DEFINE j == exec[p].job
<1>1. /\ jobs \in [JobIds -> Job] /\ j \in JobIds /\ jobs[j].state = "active"
      /\ jobs[j].tries < QueueAttempts
      /\ \A q \in Procs : exec[q].attached /\ q # p => exec[q].job # j /\ exec[q].job \in JobIds
  BY DEF EngineInv, TypeOK, Shapes, Shape, TriesAreLeft, DeliveriesAreActive, Actors
<1>2. PICK after \in [JobIds -> Job] :
         /\ jobs' = after
         /\ \A k \in JobIds : after[k].state \in {"waiting", "active"} =>
                                 after[k].tries < QueueAttempts
         /\ \A k \in JobIds : k # j => after[k] = jobs[k]
  <2>1. CASE jobs' = AfterFailure(j)
    BY <1>1, <2>1, AfterFailureIsTyped
  <2>2. CASE jobs' = [jobs EXCEPT ![j].state = "waiting"]
    <3> DEFINE after == [jobs EXCEPT ![j].state = "waiting"]
    <3>1. after \in [JobIds -> Job] /\ after[j].tries = jobs[j].tries
          /\ \A k \in JobIds : k # j => after[k] = jobs[k]
      BY <1>1 DEF Job
    <3> HIDE DEF after
    <3>2. \A k \in JobIds : after[k].state \in {"waiting", "active"} =>
                              after[k].tries < QueueAttempts
      BY <1>1, <3>1 DEF EngineInv, TriesAreLeft
    <3>3. QED
      BY <2>2, <3>1, <3>2 DEF after
  <2>3. QED
    BY <2>1, <2>2
<1> HIDE DEF j
<1>3. TypeOK' /\ TriesAreLeft'
  BY <1>2 DEF TypeOK, TriesAreLeft
<1>4. DeliveriesAreActive'
  BY <1>1, <1>2 DEF EngineInv, DeliveriesAreActive
<1>5. QED
  BY <1>3, <1>4 DEF EngineInv

\* The activity that runs the exhausted-retries hook.
LEMMA HookIsAnActivity ==
    ASSUME NEW j \in JobIds, NEW rec, rec = [Idle EXCEPT !.pc = "giveup", !.job = j]
    PROVE  rec \in Activity /\ Shape(rec) /\ rec.attached = FALSE
<1>1. Idle \in Activity /\ Idle.attached = FALSE /\ Idle.giving = FALSE
  BY IdleIsAnActivity DEF Idle
<1>2. QED
  BY <1>1 DEF Activity, Shape, Pcs

LEMMA RejectKeepsInv == ASSUME EngineInv, NEW p \in Procs, Reject(p) PROVE EngineInv'
<1>1. exec[p] \in Activity /\ faults' = faults
      /\ faults \in Faults
  BY ActorIsTyped DEF Reject, Actors
<1>2. /\ run' \in Run /\ exec' \in [Actors -> Activity] /\ Shapes'
      /\ \A q \in Procs : /\ exec'[q].attached => exec[q].attached /\ q # p
                          /\ q # p => exec'[q].job = exec[q].job
  <2>1. CASE End({p})
    BY <2>1, EndIsTyped
  <2>2. CASE ~End({p})
    <3> DEFINE hook == [Idle EXCEPT !.pc = "giveup", !.job = exec[p].job]
    <3>1. hook \in Activity /\ Shape(hook) /\ hook.attached = FALSE
      <4>1. exec[p].job \in JobIds
        BY <2>2, ActorIsTyped DEF Reject, Shape, Actors
      <4>2. hook = [Idle EXCEPT !.pc = "giveup", !.job = exec[p].job]
        OBVIOUS
      <4> HIDE DEF hook
      <4>3. QED
        BY <4>1, <4>2, HookIsAnActivity
    <3>2. /\ run' = [run EXCEPT !.claims = Orphaned(@, {p})]
          /\ exec' = [q \in Actors |-> IF q \in {p} THEN hook
                                        ELSE [exec[q] EXCEPT !.seen = Orphaned(@, {p})]]
      BY <2>2 DEF Reject
    <3> HIDE DEF hook
    <3>3. PICK left \in Activity : left = hook
      BY <3>1
    <3>4. /\ Shape(left) /\ left.attached = FALSE /\ {p} \in SUBSET Procs
          /\ exec' = [q \in Actors |-> IF q \in {p} THEN left
                                        ELSE [exec[q] EXCEPT !.seen = Orphaned(@, {p})]]
      BY <3>1, <3>2, <3>3
    <3>5. /\ run' \in Run /\ exec' \in [Actors -> Activity] /\ Shapes'
          /\ \A q \in Procs : /\ exec'[q].attached => exec[q].attached /\ q \notin {p}
                              /\ q \notin {p} => exec'[q].job = exec[q].job
      BY <3>2, <3>4, LeavingIsTyped
    <3>6. QED
      BY <3>5
  <2>3. QED
    BY <2>1, <2>2
<1>3. CASE exec[p].attached
  <2>1. jobs' = AfterFailure(exec[p].job)
    BY <1>3 DEF Reject
  <2>2. QED
    BY <1>1, <1>2, <1>3, <2>1, DetachKeepsInv
<1>4. CASE ~exec[p].attached
  <2>1. jobs' = jobs
    BY <1>4 DEF Reject
  <2>2. QED
    BY <1>1, <1>2, <2>1 DEF EngineInv, TypeOK, TriesAreLeft, DeliveriesAreActive
<1>5. QED
  BY <1>3, <1>4

\* A delivery the queue no longer waits for runs on.
LEMMA JobTimeoutKeepsInv ==
    ASSUME EngineInv, NEW p \in Procs, NEW q \in Procs, JobTimeout(p, q)
    PROVE  EngineInv'
<1> DEFINE gone == [exec[p] EXCEPT !.attached = FALSE]
           hook == [Idle EXCEPT !.pc = "giveup", !.job = exec[p].job]
<1>1. p \in Actors /\ q \in Actors /\ run' = run /\ exec[p].attached
  BY DEF Actors, JobTimeout
<1>2. /\ exec[p] \in Activity /\ run \in Run
      /\ faults' \in Faults
  BY <1>1, ActorIsTyped, EngineAssumption DEF JobTimeout, Faults
<1>3. gone \in Activity /\ Shape(gone) /\ gone.attached = FALSE
  BY <1>1, ActorIsTyped DEF Activity, Shape
<1>4. hook \in Activity /\ Shape(hook) /\ hook.attached = FALSE
  <2>1. exec[p].job \in JobIds
    BY <1>1, ActorIsTyped DEF Shape
  <2>2. hook = [Idle EXCEPT !.pc = "giveup", !.job = exec[p].job]
    OBVIOUS
  <2> HIDE DEF hook
  <2>3. QED
    BY <2>1, <2>2, HookIsAnActivity
<1>5. \/ exec' = [exec EXCEPT ![p] = gone]
      \/ exec' = [exec EXCEPT ![p] = gone, ![q] = hook]
  BY <1>1, ActorIsTyped DEF JobTimeout
<1>6. jobs' = AfterFailure(exec[p].job)
  BY DEF JobTimeout
<1> HIDE DEF gone, hook
<1>7. exec' \in [Actors -> Activity] /\ Shapes'
  BY <1>1, <1>3, <1>4, <1>5 DEF EngineInv, TypeOK, Shapes
<1>8. \A r \in Procs : /\ exec'[r].attached => exec[r].attached /\ r # p
                       /\ exec'[r].attached => exec'[r].job = exec[r].job
  BY <1>1, <1>3, <1>4, <1>5 DEF EngineInv, TypeOK, Actors
<1>9. QED
  BY <1>1, <1>2, <1>6, <1>7, <1>8, DetachKeepsInv

LEMMA JobStallsKeepsInv == ASSUME EngineInv, NEW p \in Procs, JobStalls(p) PROVE EngineInv'
<1> DEFINE gone == [exec[p] EXCEPT !.attached = FALSE]
<1>1. p \in Actors /\ run' = run /\ exec[p].attached
  BY DEF Actors, JobStalls
<1>2. /\ exec[p] \in Activity /\ run \in Run
      /\ faults' \in Faults
  BY <1>1, ActorIsTyped, EngineAssumption DEF JobStalls, Faults
<1>3. gone \in Activity /\ Shape(gone) /\ gone.attached = FALSE
  BY <1>1, ActorIsTyped DEF Activity, Shape
<1>4. exec' = [exec EXCEPT ![p] = gone]
  BY <1>1, ActorIsTyped DEF JobStalls
<1>5. jobs' = [jobs EXCEPT ![exec[p].job].state = "waiting"]
  BY DEF JobStalls
<1> HIDE DEF gone
<1>6. exec' \in [Actors -> Activity] /\ Shapes'
  BY <1>1, <1>3, <1>4 DEF EngineInv, TypeOK, Shapes
<1>7. \A r \in Procs : /\ exec'[r].attached => exec[r].attached /\ r # p
                       /\ exec'[r].attached => exec'[r].job = exec[r].job
  BY <1>1, <1>3, <1>4 DEF EngineInv, TypeOK, Actors
<1>8. QED
  BY <1>1, <1>2, <1>5, <1>6, <1>7, DetachKeepsInv

LEMMA WorkerCrashKeepsInv ==
    ASSUME EngineInv, NEW P \in SUBSET Procs, WorkerCrash(P)
    PROVE  EngineInv'
<1> DEFINE lost(j) == \E p \in P : exec[p].attached /\ exec[p].job = j
<1>1. jobs \in [JobIds -> Job]
  BY DEF EngineInv, TypeOK
<1>2. faults' \in Faults
  BY EngineAssumption DEF EngineInv, TypeOK, WorkerCrash, Faults
<1>3. /\ run' \in Run /\ exec' \in [Actors -> Activity] /\ Shapes'
      /\ \A q \in Procs : /\ exec'[q].attached => exec[q].attached /\ q \notin P
                          /\ q \notin P => exec'[q].job = exec[q].job
  BY EndIsTyped DEF WorkerCrash
<1>4. jobs' = [j \in JobIds |-> IF lost(j) THEN [jobs[j] EXCEPT !.state = "waiting"] ELSE jobs[j]]
  BY DEF WorkerCrash
<1>5. \A j \in JobIds : lost(j) => jobs[j].state = "active"
  BY DEF EngineInv, DeliveriesAreActive
<1>6. \A q \in Procs : exec[q].attached => exec[q].job \in JobIds
  BY DEF EngineInv, Shapes, Shape, Actors
<1>7. \A q \in Procs : exec[q].attached /\ q \notin P => ~lost(exec[q].job)
  BY DEF EngineInv, DeliveriesAreActive
<1> HIDE DEF lost
<1>8. TypeOK'
  BY <1>1, <1>2, <1>3, <1>4 DEF TypeOK, Job
<1>9. TriesAreLeft'
  <2> SUFFICES ASSUME NEW j \in JobIds, jobs'[j].state \in {"waiting", "active"}
               PROVE  jobs'[j].tries < QueueAttempts
    BY DEF TriesAreLeft
  <2>1. CASE lost(j)
    BY <1>1, <1>4, <1>5, <2>1 DEF EngineInv, TriesAreLeft, Job
  <2>2. CASE ~lost(j)
    BY <1>1, <1>4, <2>2 DEF EngineInv, TriesAreLeft, Job
  <2>3. QED
    BY <2>1, <2>2
<1>10. DeliveriesAreActive'
  <2>1. \A q \in Procs : exec'[q].attached =>
            /\ exec[q].attached /\ exec'[q].job = exec[q].job
            /\ exec[q].job \in JobIds /\ ~lost(exec[q].job)
    BY <1>3, <1>6, <1>7
  <2>2. QED
    BY <1>1, <1>4, <2>1 DEF EngineInv, DeliveriesAreActive
<1>11. QED
  BY <1>3, <1>8, <1>9, <1>10 DEF EngineInv

LEMMA ExpireLeaseKeepsInv ==
    ASSUME EngineInv, NEW k \in PipelineStages, ExpireLease(k)
    PROVE  EngineInv'
<1> DEFINE rec(q) == IF exec[q].seen[k] = run.claims[k]
                     THEN [exec[q] EXCEPT !.seen[k] = "nobody"] ELSE exec[q]
<1>1. ASSUME NEW q \in Actors
      PROVE  /\ rec(q) \in Activity /\ Shape(rec(q))
             /\ rec(q).attached = exec[q].attached /\ rec(q).job = exec[q].job
  <2>1. exec[q] \in Activity /\ Shape(exec[q]) /\ "nobody" \in Holders
    BY ActorIsTyped DEF Holders
  <2> DEFINE seen == [exec[q].seen EXCEPT ![k] = "nobody"]
             freed == [exec[q] EXCEPT !.seen = seen]
  <2>2. seen \in [PipelineStages -> Holders]
    BY <2>1 DEF Activity
  <2> HIDE DEF seen
  <2>3. freed \in Activity /\ Shape(freed) /\ freed.attached = exec[q].attached
        /\ freed.job = exec[q].job
    BY <2>1, <2>2 DEF Activity, Shape
  <2>4. rec(q) = freed \/ rec(q) = exec[q]
    BY DEF seen
  <2>5. QED
    BY <2>1, <2>3, <2>4
<1>2. /\ run' = [run EXCEPT !.claims[k] = "nobody"] /\ UNCHANGED <<jobs, faults>>
      /\ exec' = [q \in Actors |-> rec(q)]
  BY DEF ExpireLease
<1> HIDE DEF rec
<1>3. run' \in Run
  BY <1>2 DEF EngineInv, TypeOK, Run, Holders
<1>4. TypeOK' /\ Shapes'
  BY <1>1, <1>2, <1>3 DEF EngineInv, TypeOK, Shapes
<1>5. TriesAreLeft' /\ DeliveriesAreActive'
  BY <1>1, <1>2 DEF EngineInv, TriesAreLeft, DeliveriesAreActive, Actors
<1>6. QED
  BY <1>4, <1>5 DEF EngineInv

\* A starting worker enqueues the run again.
LEMMA RecoverKeepsInv == ASSUME EngineInv, NEW p \in Procs, RecoverIncomplete(p) PROVE EngineInv'
<1> DEFINE adds == StageJob(run.stage, run.attempt)
           stage == run.stage
           rec == [Idle EXCEPT !.pc = "enqueue", !.adds = adds, !.addsStage = stage]
<1>1. /\ p \in Actors /\ Go(p, rec) /\ run \in Run /\ UNCHANGED <<run, jobs>>
      /\ faults' \in Faults
  BY EngineAssumption DEF EngineInv, TypeOK, RecoverIncomplete, Actors, Faults
<1>2. stage \in PipelineStages /\ run.attempt \in Attempts
  BY <1>1 DEF RecoverIncomplete, Run
<1>3. adds \in JobIds \cup {NoJob}
  BY <1>2, StageJobIsAJob
<1>4. Idle \in Activity /\ Shape(Idle) /\ Idle.attached = FALSE
  BY IdleIsAnActivity DEF Idle
<1> HIDE DEF adds, stage
<1>5. rec \in Activity /\ Shape(rec) /\ rec.attached = FALSE
  BY <1>2, <1>3, <1>4 DEF Activity, Shape, Pcs, WorkPcs
<1> HIDE DEF rec
<1>6. QED
  BY <1>1, <1>5, ActorMoves

\* The steps of an API call before and after its event, and its crash.
LEMMA ClientStepKeepsInv ==
    ASSUME EngineInv, NEW c \in Clients,
           \/ StartFinds(c) \/ StartCreates(c) \/ CancelReads(c) \/ CancelWrites(c)
           \/ RetryReads(c) \/ RetryWrites(c) \/ CustomerRetry(c) \/ Answer(c) \/ ClientCrash(c)
    PROVE  EngineInv'
<1>1. /\ c \in Actors /\ exec[c] \in Activity /\ Shape(exec[c]) /\ run \in Run
      /\ faults \in Faults
  BY DEF EngineInv, TypeOK, Shapes, Actors
<1>2. Done(c) \in Activity /\ Shape(Done(c)) /\ Done(c).attached = FALSE
  BY DoneIsAnActivity DEF Done, Idle
<1>3. Idle \in Activity /\ Shape(Idle) /\ Idle.attached = FALSE
  BY IdleIsAnActivity DEF Idle
<1>4. NoClaims \in [PipelineStages -> Holders] /\ run.claims \in [PipelineStages -> Holders]
  BY <1>1 DEF NoClaims, Holders, Run
<1>5. CASE StartFinds(c)
  <2> DEFINE found == [Idle EXCEPT !.pc = "done"]
             new == [Idle EXCEPT !.pc = "create"]
  <2>1. found \in Activity /\ Shape(found) /\ found.attached = FALSE
    BY <1>3 DEF Activity, Shape, Pcs
  <2>2. new \in Activity /\ Shape(new) /\ new.attached = FALSE
    BY <1>3 DEF Activity, Shape, Pcs
  <2>3. Go(c, found) \/ Go(c, new)
    BY <1>5 DEF StartFinds
  <2> HIDE DEF found, new
  <2>4. QED
    BY <1>1, <1>5, <2>1, <2>2, <2>3, ActorMoves DEF StartFinds
<1>6. CASE StartCreates(c)
  <2> DEFINE adds == StageJob("RESEARCH_QUEUED", 1)
             rec == [exec[c] EXCEPT !.pc = "append", !.adds = adds, !.addsStage = "RESEARCH_QUEUED"]
  <2>1. run' \in Run /\ UNCHANGED <<jobs, faults>> /\ (Go(c, Done(c)) \/ Go(c, rec))
    BY <1>1, <1>6 DEF StartCreates, Run
  <2>2. "RESEARCH_QUEUED" \in PipelineStages /\ 1 \in Attempts
    BY EngineAssumption DEF PipelineStages, Attempts
  <2>3. adds \in JobIds \cup {NoJob}
    BY <2>2, StageJobIsAJob
  <2> HIDE DEF adds
  <2>4. rec \in Activity /\ Shape(rec) /\ rec.attached = exec[c].attached /\ rec.job = exec[c].job
    <3> DEFINE first == [exec[c] EXCEPT !.pc = "append"]
    <3>1. first \in Activity /\ Shape(first) /\ first.pc = "append"
          /\ first.attached = exec[c].attached /\ first.job = exec[c].job
      BY <1>1 DEF Activity, Shape, Pcs, WorkPcs
    <3>2. rec = [first EXCEPT !.adds = adds, !.addsStage = "RESEARCH_QUEUED"]
      OBVIOUS
    <3> HIDE DEF first, rec
    <3>3. QED
      BY <2>2, <2>3, <3>1, <3>2 DEF Activity, Shape
  <2> HIDE DEF rec
  <2>5. QED
    BY <1>1, <1>2, <2>1, <2>4, ActorMoves
<1>7. CASE CancelReads(c)
  <2> DEFINE rec == [Idle EXCEPT !.pc = "cancel", !.seen = run.claims]
  <2>1. rec \in Activity /\ Shape(rec) /\ rec.attached = FALSE
    BY <1>3, <1>4 DEF Activity, Shape, Pcs
  <2>2. Go(c, Done(c)) \/ Go(c, rec)
    BY <1>7 DEF CancelReads
  <2> HIDE DEF rec
  <2>3. QED
    BY <1>1, <1>2, <1>7, <2>1, <2>2, ActorMoves DEF CancelReads
<1>8. CASE CancelWrites(c)
  <2> DEFINE rec == [exec[c] EXCEPT !.pc = "append", !.seen = NoClaims]
  <2>1. rec \in Activity /\ Shape(rec) /\ rec.attached = exec[c].attached /\ rec.job = exec[c].job
    BY <1>1, <1>4 DEF Activity, Shape, Pcs, WorkPcs
  <2>2. run' \in Run
    <3>1. "CANCELLED" \in RunStages /\ "cancelled" \in Statuses
      BY DEF RunStages, Statuses
    <3>2. exec[c].seen \in [PipelineStages -> Holders]
      BY <1>1 DEF Activity
    <3>3. run' = [run EXCEPT !.stage = "CANCELLED", !.status = "cancelled", !.claims = exec[c].seen]
      BY <1>8 DEF CancelWrites
    <3>4. QED
      BY <1>1, <3>1, <3>2, <3>3 DEF Run
  <2>3. Go(c, rec) /\ UNCHANGED <<jobs, faults>>
    BY <1>8 DEF CancelWrites
  <2> HIDE DEF rec
  <2>4. QED
    BY <1>1, <2>1, <2>2, <2>3, ActorMoves
<1>9. CASE RetryReads(c)
  <2> DEFINE attempt == run.attempt + 1
             rec == [Idle EXCEPT !.pc = "retry", !.attempt = attempt]
  <2>1. Go(c, Done(c)) \/ (Go(c, rec) /\ ~(run.attempt + 1 > MaxRunAttempts))
    BY <1>9 DEF RetryReads
  <2>2. CASE Go(c, Done(c))
    BY <1>1, <1>2, <1>9, <2>2, ActorMoves DEF RetryReads
  <2>3. CASE Go(c, rec) /\ ~(run.attempt + 1 > MaxRunAttempts)
    <3>1. attempt \in Attempts
      BY <1>1, <2>3, EngineAssumption DEF Run, Attempts
    <3> HIDE DEF attempt
    <3>2. rec \in Activity /\ Shape(rec) /\ rec.attached = FALSE
      BY <1>3, <3>1 DEF Activity, Shape, Pcs
    <3> HIDE DEF rec
    <3>3. QED
      BY <1>1, <1>9, <2>3, <3>2, ActorMoves DEF RetryReads
  <2>4. QED
    BY <2>1, <2>2, <2>3
<1>10. CASE RetryWrites(c)
  <2> DEFINE adds == IF run.stage \in PipelineStages THEN RetryJob(run.stage, exec[c].attempt)
                     ELSE NoJob
             addsStage == IF run.stage \in PipelineStages THEN run.stage ELSE exec[c].addsStage
             first == [exec[c] EXCEPT !.pc = "append", !.attempt = 0]
             rec == [first EXCEPT !.adds = adds, !.addsStage = addsStage]
  <2>1. exec[c].attempt \in Attempts
    BY <1>1, <1>10 DEF RetryWrites, At, Shape
  <2>2. adds \in JobIds \cup {NoJob} /\ addsStage \in PipelineStages
    BY <1>1, <2>1, RetryJobIsAJob DEF Activity
  <2>3. Go(c, rec) /\ UNCHANGED <<jobs, faults>>
    BY <1>10 DEF RetryWrites
  <2>4. run' \in Run
    BY <1>1, <1>10, <2>1 DEF RetryWrites, Run, Statuses
  <2> HIDE DEF adds, addsStage
  <2>5. first \in Activity /\ Shape(first) /\ first.attached = exec[c].attached
        /\ first.job = exec[c].job /\ first.pc = "append"
    BY <1>1 DEF Activity, Shape, Pcs, WorkPcs
  <2> HIDE DEF first
  <2>6. rec \in Activity /\ Shape(rec) /\ rec.attached = first.attached /\ rec.job = first.job
    BY <2>2, <2>5 DEF Activity, Shape
  <2> HIDE DEF rec
  <2>7. QED
    BY <1>1, <2>3, <2>4, <2>5, <2>6, ActorMoves
<1>11. CASE Answer(c)
  BY <1>1, <1>2, <1>11, ActorMoves DEF Answer
<1>12. CASE ClientCrash(c)
  <2>1. Go(c, Done(c)) /\ UNCHANGED <<run, jobs>>
        /\ faults' \in Faults
    BY <1>1, <1>12, EngineAssumption DEF ClientCrash, Done, Faults
  <2>2. QED
    BY <1>1, <1>2, <2>1, ActorMoves
<1>13. CASE CustomerRetry(c)
  <2> DEFINE todo == <<run.failedAt>>
             rec == [Idle EXCEPT !.pc = "read", !.todo = todo]
  <2>1. todo \in Seq(RunStages) /\ todo # <<>>
    BY <1>1 DEF Run, RunStages
  <2>2. Go(c, Done(c)) \/ Go(c, rec)
    BY <1>13 DEF CustomerRetry
  <2> HIDE DEF todo
  <2>3. rec \in Activity /\ Shape(rec) /\ rec.attached = FALSE
    BY <1>3, <2>1 DEF Activity, Shape, Pcs, WorkPcs
  <2> HIDE DEF rec
  <2>4. QED
    BY <1>1, <1>2, <1>13, <2>2, <2>3, ActorMoves DEF CustomerRetry
<1>14. QED
  BY <1>5, <1>6, <1>7, <1>8, <1>9, <1>10, <1>11, <1>12, <1>13

\* A failed call is an exception, or leaves the handler.
LEMMA EngineCallFailsKeepsInv ==
    ASSUME EngineInv, NEW a \in Actors, EngineCallFails(a)
    PROVE  EngineInv'
<1> DEFINE left == [exec[a] EXCEPT !.pc = "rejected", !.error = "none"]
<1>1. exec[a] \in Activity /\ Shape(exec[a]) /\ run' \in Run /\ UNCHANGED jobs
  BY ActorIsTyped DEF EngineCallFails
<1>2. faults' \in Faults
  BY ActorIsTyped, EngineAssumption DEF EngineCallFails, Faults
<1>3. left \in Activity /\ Shape(left) /\ left.attached = exec[a].attached /\ left.job = exec[a].job
  BY <1>1 DEF Activity, Shape, Pcs
<1>4. Go(a, left) \/ Go(a, Throw(a, "retryable"))
  BY DEF EngineCallFails
<1> HIDE DEF left
<1>5. CASE Go(a, left)
  BY <1>1, <1>2, <1>3, <1>5, ActorMoves
<1>6. CASE Go(a, Throw(a, "retryable"))
  BY <1>1, <1>2, <1>6, ThrowIsAnActivity, ActorMoves
<1>7. QED
  BY <1>4, <1>5, <1>6

\* Every step of the engine keeps the invariant.
LEMMA NextKeepsInv == ASSUME EngineInv, [Next]_vars PROVE EngineInv'
<1>1. CASE UNCHANGED vars
  BY <1>1 DEF vars, EngineInv, TypeOK, Shapes, TriesAreLeft, DeliveriesAreActive
<1>2. ASSUME NEW p \in Procs, Step(p) PROVE EngineInv'
  <2>1. p \in Actors
    BY DEF Actors
  <2>2. CASE AppendEvent(p) \/ AppendCollides(p)
    BY <2>1, <2>2, EventKeepsInv
  <2>3. CASE Enqueue(p)
    BY <2>1, <2>3, EnqueueKeepsInv
  <2>4. CASE Resolve(p)
    BY <2>4, ResolveKeepsInv
  <2>5. CASE Reject(p)
    BY <2>5, RejectKeepsInv
  <2>6. CASE TransitionRead(p) \/ TransitionWrite(p)
    BY <2>1, <2>6, TransitionKeepsInv
  <2>7. QED
    BY <1>2, <2>2, <2>3, <2>4, <2>5, <2>6, ActorStepKeepsInv DEF Step
<1>3. ASSUME NEW c \in Clients, Call(c) \/ Serve(c) PROVE EngineInv'
  <2>1. c \in Actors
    BY DEF Actors
  <2>2. CASE AppendEvent(c) \/ AppendCollides(c)
    BY <2>1, <2>2, EventKeepsInv
  <2>3. CASE Enqueue(c)
    BY <2>1, <2>3, EnqueueKeepsInv
  <2>4. CASE TransitionRead(c) \/ TransitionWrite(c)
    BY <2>1, <2>4, TransitionKeepsInv
  <2>5. QED
    BY <1>3, <2>2, <2>3, <2>4, ClientStepKeepsInv DEF Call, Serve
<1>4. CASE Fault
  BY <1>4, JobTimeoutKeepsInv, JobStallsKeepsInv, RecoverKeepsInv, WorkerCrashKeepsInv,
     ClientStepKeepsInv, EngineCallFailsKeepsInv DEF Fault
<1>5. CASE Clock
  BY <1>5, ExpireLeaseKeepsInv DEF Clock
<1>6. QED
  BY <1>1, <1>2, <1>3, <1>4, <1>5, DeliverKeepsInv DEF Next

LEMMA EngineInvHolds == Spec => []EngineInv
BY EngineInvHoldsInitially, NextKeepsInv, PTL DEF Spec

\* In every reachable state the run, the queue, every activity and client are what the database,
\* the queue and the call chains can hold: no job is tried more often than the queue allows, and
\* no payload is written back that names a holder the engine never gave a lease.
THEOREM TypeCorrect == Spec => []TypeOK
<1>1. EngineInv => TypeOK
  BY DEF EngineInv
<1>2. QED
  BY <1>1, EngineInvHolds, PTL

-----------------------------------------------------------------------------
(* Transitions: what an actor still has to make, and where the run goes.    *)

\* Every step but the end of a stage body.
OtherStep ==
    \/ \E p \in Procs :
          \/ \E j \in JobIds : Deliver(p, j)
          \/ \E error \in {"retryable", "permanent"} : WorkThrows(p, error)
          \/ Load(p) \/ ClaimStage(p) \/ Release(p) \/ TransitionRead(p) \/ TransitionWrite(p)
          \/ AppendEvent(p) \/ AppendCollides(p) \/ Enqueue(p) \/ GiveUp(p) \/ Refund(p)
          \/ MarkApplication(p) \/ Resolve(p) \/ Reject(p)
    \/ \E c \in Clients : Call(c) \/ Serve(c)
    \/ Fault
    \/ Clock
    \/ UNCHANGED vars

LEMMA NextIsOtherOrWorkDone == [Next]_vars => OtherStep \/ \E p \in Procs : WorkDone(p)
BY DEF Next, OtherStep, Step

\* An activity keeps the transitions it has to make, has made one, gives them up, gives the run up
\* or takes it back to where it failed; it is about to write one only after it has read that the
\* graph allows it; and the failure handler makes no other transition than the one to FAILED.
Carries(old, rec) ==
    /\ \/ rec.todo \in {old.todo, <<>>, <<"FAILED">>}
       \/ rec.todo = <<run.failedAt>> /\ ~rec.giving
       \/ old.pc = "write" /\ rec.todo = Tail(old.todo)
    /\ rec.pc = "write" =>
          \/ old.pc = "write"
          \/ old.pc = "read" /\ CanTransition(run.stage, Head(old.todo))
    /\ rec.giving => old.giving \/ rec.todo = <<"FAILED">>
    /\ rec.giving /\ rec.pc \in {"load", "claim", "work"} => old.giving /\ old.pc \in {"load", "claim", "work"}

Continues(a) == Carries(exec[a], exec'[a])

\* A thrown error gives the transitions up; what follows an event or a job added keeps them.
ThrowsOut(old, rec) ==
    /\ rec.todo = <<>>
    /\ rec.pc \notin {"write", "load", "claim", "work"}
    /\ rec.giving => old.giving

GoesOn(old, rec) ==
    /\ rec.todo = old.todo
    /\ rec.pc \notin {"write", "load", "claim", "work"}
    /\ rec.giving = old.giving

LEMMA RecordsThatContinue ==
    ASSUME EngineInv, NEW a \in Actors
    PROVE  /\ Idle.todo = <<>> /\ Idle.pc = "idle" /\ ~Idle.giving
           /\ \A error : ThrowsOut(exec[a], Throw(a, error))
           /\ GoesOn(exec[a], After(exec[a]))
<1>1. exec[a] \in Activity
  BY ActorIsTyped
<1>2. Idle.todo = <<>> /\ Idle.pc = "idle" /\ ~Idle.giving
  BY DEF Idle
<1>3. ASSUME NEW error PROVE ThrowsOut(exec[a], Throw(a, error))
  BY <1>1 DEF ThrowsOut, Throw, Done, Idle, Activity
<1>4. GoesOn(exec[a], After(exec[a]))
  BY <1>1 DEF GoesOn, After, Activity
<1>5. QED
  BY <1>2, <1>3, <1>4

\* One actor moves on, the others stay.
LEMMA GoContinues ==
    ASSUME EngineInv, NEW a \in Actors, NEW b \in Actors, NEW rec,
           Go(b, rec), Carries(exec[b], rec)
    PROVE  Continues(a)
<1>1. exec \in [Actors -> Activity]
  BY DEF EngineInv, TypeOK
<1>2. exec'[a] = IF a = b THEN rec ELSE exec[a]
  BY <1>1 DEF Go
<1>3. Carries(exec[a], exec[a])
  BY DEF Carries
<1>4. QED
  BY <1>2, <1>3 DEF Continues

LEMMA DeliverContinues ==
    ASSUME EngineInv, NEW p \in Procs, NEW a \in Actors, NEW j \in JobIds, Deliver(p, j)
    PROVE  Continues(a)
<1> DEFINE rec == [Idle EXCEPT !.pc = "load", !.job = j, !.attached = TRUE]
<1>1. Go(p, rec)
  BY DEF Deliver
<1>2. rec.todo = <<>> /\ rec.pc # "write" /\ ~rec.giving
  BY RecordsThatContinue, IdleIsAnActivity DEF Activity
<1> HIDE DEF rec
<1>3. QED
  BY <1>1, <1>2, GoContinues DEF Carries, Actors

LEMMA ProcStepContinues ==
    ASSUME EngineInv, NEW p \in Procs, NEW a \in Actors,
           \/ \E error \in {"retryable", "permanent"} : WorkThrows(p, error)
           \/ Load(p) \/ ClaimStage(p) \/ Release(p)
           \/ GiveUp(p) \/ Refund(p) \/ MarkApplication(p) \/ RecoverIncomplete(p)
    PROVE  Continues(a)
<1>1. /\ p \in Actors /\ exec[p] \in Activity
      /\ Idle.todo = <<>> /\ Idle.pc = "idle" /\ ~Idle.giving /\ Idle \in Activity
      /\ \A error : ThrowsOut(exec[p], Throw(p, error))
  BY ActorIsTyped, RecordsThatContinue, IdleIsAnActivity DEF Actors
<1>2. ASSUME NEW rec, Go(p, rec), Carries(exec[p], rec) PROVE Continues(a)
  BY <1>1, <1>2, GoContinues
<1>3. ASSUME NEW pc \in {"claim", "resolved", "work", "read", "rejected", "giveup"},
             pc \in {"claim", "work"} => exec[p].pc \in {"load", "claim"}
      PROVE  Carries(exec[p], [exec[p] EXCEPT !.pc = pc])
  <2> DEFINE rec == [exec[p] EXCEPT !.pc = pc]
  <2>1. rec.pc = pc /\ rec.todo = exec[p].todo /\ rec.giving = exec[p].giving
    BY <1>1 DEF Activity
  <2> HIDE DEF rec
  <2>2. Carries(exec[p], rec)
    BY <1>3, <2>1 DEF Carries
  <2>3. QED
    BY <2>2 DEF rec
<1>4. ASSUME NEW error \in {"retryable", "permanent"}, WorkThrows(p, error) PROVE Continues(a)
  <2>1. Carries(exec[p], [exec[p] EXCEPT !.pc = "release", !.error = error])
    BY <1>1 DEF Carries, Activity
  <2>2. QED
    BY <1>2, <1>4, <2>1 DEF WorkThrows
<1>5. CASE Load(p)
  BY <1>2, <1>3, <1>5 DEF Load, At
<1>6. CASE ClaimStage(p)
  BY <1>2, <1>3, <1>6 DEF ClaimStage, At
<1>7. CASE Release(p)
  <2>1. \A pc \in {"giveup", "rejected"} :
           Carries(exec[p], [exec[p] EXCEPT !.pc = pc, !.error = "none"])
    BY <1>1 DEF Carries, Activity
  <2>2. QED
    BY <1>2, <1>7, <2>1 DEF Release
<1>8. CASE GiveUp(p)
  <2>1. Carries(exec[p], [exec[p] EXCEPT !.pc = "refund", !.giving = TRUE, !.seen = run.claims,
                                         !.todo = <<"FAILED">>])
    BY <1>1 DEF Carries, Activity
  <2>2. QED
    BY <1>2, <1>3, <1>8, <2>1 DEF GiveUp
<1>9. CASE Refund(p)
  BY <1>2, <1>3, <1>9 DEF Refund
<1>10. CASE MarkApplication(p)
  BY <1>2, <1>3, <1>10 DEF MarkApplication
<1>11. CASE RecoverIncomplete(p)
  <2>1. Carries(exec[p], [Idle EXCEPT !.pc = "enqueue", !.adds = StageJob(run.stage, run.attempt),
                                      !.addsStage = run.stage])
    BY <1>1 DEF Carries, Activity
  <2>2. QED
    BY <1>2, <1>11, <2>1 DEF RecoverIncomplete
<1>12. QED
  BY <1>4, <1>5, <1>6, <1>7, <1>8, <1>9, <1>10, <1>11

LEMMA EventStepContinues ==
    ASSUME EngineInv, NEW b \in Actors, NEW a \in Actors,
           \/ AppendEvent(b) \/ AppendCollides(b) \/ Enqueue(b)
           \/ EngineCallFails(b) \/ TransitionRead(b) \/ TransitionWrite(b)
    PROVE  Continues(a)
<1>1. /\ exec[a] \in Activity /\ exec[b] \in Activity
      /\ \A error : ThrowsOut(exec[b], Throw(b, error))
      /\ GoesOn(exec[b], After(exec[b]))
  BY ActorIsTyped, RecordsThatContinue
<1>2. ASSUME NEW rec, Go(b, rec), Carries(exec[b], rec) PROVE Continues(a)
  BY <1>2, GoContinues
<1>3. (\A error : Carries(exec[b], Throw(b, error))) /\ Carries(exec[b], After(exec[b]))
  BY <1>1 DEF Carries, ThrowsOut, GoesOn
<1>4. CASE AppendEvent(b)
  <2>1. exec'[a] = IF a = b THEN IF exec[b].adds # NoJob THEN [exec[b] EXCEPT !.pc = "enqueue"]
                                 ELSE After(exec[b])
                   ELSE [exec[a] EXCEPT !.raced = @ \/ At(a, "append")]
    BY <1>4 DEF AppendEvent
  <2>2. Carries(exec[b], [exec[b] EXCEPT !.pc = "enqueue"])
    BY <1>1 DEF Carries, Activity
  <2>3. Carries(exec[a], [exec[a] EXCEPT !.raced = @ \/ At(a, "append")])
    BY <1>1 DEF Carries, Activity
  <2>4. QED
    BY <1>3, <2>1, <2>2, <2>3 DEF Continues
<1>5. CASE AppendCollides(b)
  BY <1>2, <1>3, <1>5 DEF AppendCollides
<1>6. CASE Enqueue(b)
  BY <1>2, <1>3, <1>6 DEF Enqueue
<1>7. CASE EngineCallFails(b)
  <2>1. Carries(exec[b], [exec[b] EXCEPT !.pc = "rejected", !.error = "none"])
    BY <1>1 DEF Carries, Activity
  <2>2. QED
    BY <1>2, <1>3, <1>7, <2>1 DEF EngineCallFails
<1>8. CASE TransitionRead(b)
  <2>1. Carries(exec[b], Throw(b, "permanent"))
    BY <1>3
  <2>2. At(b, "read") /\ CanTransition(run.stage, Head(exec[b].todo)) =>
          Carries(exec[b], [exec[b] EXCEPT !.pc = "write"])
    BY <1>1 DEF Carries, At, Activity
  <2>3. QED
    BY <1>2, <1>8, <2>1, <2>2 DEF TransitionRead
<1>9. CASE TransitionWrite(b)
  <2> DEFINE stage == Head(exec[b].todo)
             attempt == IF b \in Resumers THEN 1 ELSE run.attempt
             rec == [exec[b] EXCEPT
                !.pc = "append", !.todo = Tail(@), !.seen = NoClaims,
                !.adds = IF stage \in PipelineStages THEN StageJob(stage, attempt) ELSE NoJob,
                !.addsStage = IF stage \in PipelineStages THEN stage ELSE @]
  <2>1. /\ rec.pc = "append" /\ rec.todo = Tail(exec[b].todo) /\ exec[b].pc = "write"
        /\ rec.giving = exec[b].giving
    BY <1>1, <1>9 DEF Activity, TransitionWrite, At
  <2>2. Go(b, rec)
    BY <1>9 DEF TransitionWrite
  <2> HIDE DEF rec
  <2>3. QED
    BY <1>2, <2>1, <2>2 DEF Carries
<1>10. QED
  BY <1>4, <1>5, <1>6, <1>7, <1>8, <1>9

LEMMA DeliveriesThatEndContinue ==
    ASSUME EngineInv, NEW a \in Actors, NEW P, End(P)
    PROVE  Continues(a)
<1>1. exec[a] \in Activity /\ Idle.todo = <<>> /\ Idle.pc = "idle" /\ ~Idle.giving
  BY ActorIsTyped, RecordsThatContinue
<1>2. exec'[a] = IF a \in P THEN Idle ELSE [exec[a] EXCEPT !.seen = Orphaned(@, P)]
  BY DEF End
<1>3. Carries(exec[a], [exec[a] EXCEPT !.seen = Orphaned(@, P)])
  BY <1>1 DEF Carries, Activity
<1>4. QED
  BY <1>1, <1>2, <1>3 DEF Continues, Carries

LEMMA DeliveryOutcomeContinues ==
    ASSUME EngineInv, NEW p \in Procs, NEW a \in Actors,
           \/ Resolve(p) \/ Reject(p) \/ JobStalls(p)
           \/ \E q \in Procs : JobTimeout(p, q)
    PROVE  Continues(a)
<1>1. /\ exec \in [Actors -> Activity] /\ p \in Actors /\ exec[a] \in Activity
      /\ Idle \in Activity /\ Idle.todo = <<>> /\ Idle.pc = "idle" /\ ~Idle.giving
  BY ActorIsTyped, RecordsThatContinue, IdleIsAnActivity DEF Actors
<1>2. Carries(exec[a], [exec[a] EXCEPT !.attached = FALSE])
  BY <1>1 DEF Carries, Activity
<1>3. Carries(exec[a], exec[a])
  BY DEF Carries
<1>4. ASSUME NEW j PROVE Carries(exec[a], [Idle EXCEPT !.pc = "giveup", !.job = j])
  BY <1>1 DEF Carries, Activity
<1>5. CASE Resolve(p)
  BY <1>5, DeliveriesThatEndContinue DEF Resolve
<1>6. CASE Reject(p)
  <2>1. CASE End({p})
    BY <2>1, DeliveriesThatEndContinue
  <2>2. CASE ~End({p})
    <3> DEFINE gives == [Idle EXCEPT !.pc = "giveup", !.job = exec[p].job]
               stays == [exec[a] EXCEPT !.seen = Orphaned(@, {p})]
    <3>1. exec'[a] = IF a = p THEN gives ELSE stays
      BY <1>6, <2>2 DEF Reject
    <3>2. Carries(exec[a], gives) /\ Carries(exec[a], stays)
      BY <1>1, <1>4 DEF Carries, Activity
    <3> HIDE DEF gives, stays
    <3>3. QED
      BY <3>1, <3>2 DEF Continues
  <2>3. QED
    BY <2>1, <2>2
<1>7. CASE JobStalls(p)
  BY <1>1, <1>2, <1>3, <1>7 DEF JobStalls, Continues
<1>8. ASSUME NEW q \in Procs, JobTimeout(p, q) PROVE Continues(a)
  <2> DEFINE gives == [Idle EXCEPT !.pc = "giveup", !.job = exec[p].job]
             freed == [exec[a] EXCEPT !.attached = FALSE]
  <2>1. exec'[a] \in {exec[a], gives, freed}
    <3>1. \/ exec' = [exec EXCEPT ![p].attached = FALSE, ![q] = gives]
          \/ exec' = [exec EXCEPT ![p].attached = FALSE]
      BY <1>8 DEF JobTimeout
    <3> HIDE DEF gives
    <3>2. QED
      BY <1>1, <3>1
  <2>2. Carries(exec[a], gives) /\ Carries(exec[a], freed)
    BY <1>1 DEF Carries, Activity
  <2> HIDE DEF gives, freed
  <2>3. QED
    BY <1>3, <2>1, <2>2 DEF Continues
<1>9. QED
  BY <1>5, <1>6, <1>7, <1>8

LEMMA ClientStepContinues ==
    ASSUME EngineInv, NEW c \in Clients, NEW a \in Actors,
           Call(c) \/ Serve(c) \/ ClientCrash(c)
    PROVE  Continues(a)
<1>1. /\ c \in Actors /\ exec[c] \in Activity /\ Idle \in Activity
      /\ Idle.todo = <<>> /\ Idle.pc = "idle" /\ ~Idle.giving
      /\ Done(c).todo = <<>> /\ Done(c).pc = "done" /\ ~Done(c).giving
  BY ActorIsTyped, RecordsThatContinue, IdleIsAnActivity DEF Actors, Done, Activity
<1>2. ASSUME NEW rec, Go(c, rec), Carries(exec[c], rec) PROVE Continues(a)
  BY <1>1, <1>2, GoContinues
<1>3. Carries(exec[c], Done(c))
  BY <1>1 DEF Carries
<1>4. CASE StartFinds(c)
  <2> DEFINE rec == [Idle EXCEPT !.pc = IF run.made THEN "done" ELSE "create"]
  <2>1. Go(c, rec)
    BY <1>4 DEF StartFinds
  <2>2. rec.todo = <<>> /\ rec.pc # "write" /\ ~rec.giving
    BY <1>1 DEF Activity
  <2> HIDE DEF rec
  <2>3. QED
    BY <1>2, <2>1, <2>2 DEF Carries
<1>5. CASE StartCreates(c)
  <2> DEFINE rec == [exec[c] EXCEPT !.pc = "append", !.adds = StageJob("RESEARCH_QUEUED", 1),
                                    !.addsStage = "RESEARCH_QUEUED"]
  <2>1. Go(c, Done(c)) \/ Go(c, rec)
    BY <1>5 DEF StartCreates
  <2>2. rec.todo = exec[c].todo /\ rec.pc = "append" /\ rec.giving = exec[c].giving
    BY <1>1 DEF Activity
  <2> HIDE DEF rec
  <2>3. QED
    BY <1>2, <1>3, <2>1, <2>2 DEF Carries
<1>6. CASE CancelReads(c)
  <2> DEFINE rec == [Idle EXCEPT !.pc = "cancel", !.seen = run.claims]
  <2>1. Go(c, Done(c)) \/ Go(c, rec)
    BY <1>6 DEF CancelReads
  <2>2. rec.todo = <<>> /\ rec.pc # "write" /\ ~rec.giving
    BY <1>1 DEF Activity
  <2> HIDE DEF rec
  <2>3. QED
    BY <1>2, <1>3, <2>1, <2>2 DEF Carries
<1>7. CASE CancelWrites(c)
  <2> DEFINE rec == [exec[c] EXCEPT !.pc = "append", !.seen = NoClaims]
  <2>1. Go(c, rec)
    BY <1>7 DEF CancelWrites
  <2>2. rec.todo = exec[c].todo /\ rec.pc = "append" /\ rec.giving = exec[c].giving
    BY <1>1 DEF Activity
  <2> HIDE DEF rec
  <2>3. QED
    BY <1>2, <2>1, <2>2 DEF Carries
<1>8. CASE RetryReads(c)
  <2> DEFINE rec == [Idle EXCEPT !.pc = "retry", !.attempt = run.attempt + 1]
  <2>1. Go(c, Done(c)) \/ Go(c, rec)
    BY <1>8 DEF RetryReads
  <2>2. rec.todo = <<>> /\ rec.pc # "write" /\ ~rec.giving
    BY <1>1 DEF Activity
  <2> HIDE DEF rec
  <2>3. QED
    BY <1>2, <1>3, <2>1, <2>2 DEF Carries
<1>9. CASE RetryWrites(c)
  <2> DEFINE rec == [exec[c] EXCEPT
                !.pc = "append", !.attempt = 0,
                !.adds = IF run.stage \in PipelineStages THEN RetryJob(run.stage, exec[c].attempt)
                         ELSE NoJob,
                !.addsStage = IF run.stage \in PipelineStages THEN run.stage ELSE @]
  <2>1. Go(c, rec)
    BY <1>9 DEF RetryWrites
  <2>2. rec.todo = exec[c].todo /\ rec.pc = "append" /\ rec.giving = exec[c].giving
    BY <1>1 DEF Activity
  <2> HIDE DEF rec
  <2>3. QED
    BY <1>2, <2>1, <2>2 DEF Carries
<1>10. CASE Answer(c)
  BY <1>2, <1>3, <1>10 DEF Answer
<1>11. CASE ClientCrash(c)
  <2> DEFINE rec == [Idle EXCEPT !.pc = "done"]
  <2>1. Go(c, rec) /\ rec.todo = <<>> /\ rec.pc # "write" /\ ~rec.giving
    BY <1>1, <1>11 DEF ClientCrash, Activity
  <2> HIDE DEF rec
  <2>2. QED
    BY <1>2, <2>1 DEF Carries
<1>12. CASE \/ AppendEvent(c) \/ AppendCollides(c) \/ Enqueue(c)
            \/ TransitionRead(c) \/ TransitionWrite(c)
  BY <1>1, <1>12, EventStepContinues
<1>13. CASE CustomerRetry(c)
  <2> DEFINE rec == [Idle EXCEPT !.pc = "read", !.todo = <<run.failedAt>>]
  <2>1. Go(c, Done(c)) \/ Go(c, rec)
    BY <1>13 DEF CustomerRetry
  <2>2. rec.todo = <<run.failedAt>> /\ rec.pc # "write" /\ ~rec.giving
    BY <1>1 DEF Activity
  <2> HIDE DEF rec
  <2>3. QED
    BY <1>2, <1>3, <2>1, <2>2 DEF Carries
<1>14. QED
  BY <1>13, <1>4, <1>5, <1>6, <1>7, <1>8, <1>9, <1>10, <1>11, <1>12 DEF Call, Serve

LEMMA OtherStepsContinue ==
    ASSUME EngineInv, OtherStep, NEW a \in Actors
    PROVE  Continues(a)
<1>1. exec[a] \in Activity /\ Carries(exec[a], exec[a])
  BY ActorIsTyped DEF Carries
<1>2. CASE Fault
  BY <1>2, ProcStepContinues, EventStepContinues, DeliveriesThatEndContinue,
     DeliveryOutcomeContinues, ClientStepContinues DEF Fault, WorkerCrash
<1>3. ASSUME NEW k \in PipelineStages, ExpireLease(k) PROVE Continues(a)
  <2>1. exec'[a] \in {[exec[a] EXCEPT !.seen[k] = "nobody"], exec[a]}
    BY <1>3 DEF ExpireLease
  <2>2. Carries(exec[a], [exec[a] EXCEPT !.seen[k] = "nobody"])
    BY <1>1 DEF Carries, Activity
  <2>3. QED
    BY <1>1, <2>1, <2>2 DEF Continues
<1>4. CASE UNCHANGED vars
  BY <1>1, <1>4 DEF vars, Continues
<1>5. QED
  BY <1>2, <1>3, <1>4, DeliverContinues, ProcStepContinues, EventStepContinues, DeliveryOutcomeContinues,
     ClientStepContinues DEF OtherStep, Clock, Actors

\* Of the faults only a crash is seen in the run, which it takes claims from.
LEMMA FaultsLeaveTheRun ==
    ASSUME Fault
    PROVE  UNCHANGED run \/ \E P \in SUBSET Procs : WorkerCrash(P)
<1>1. ASSUME NEW p, NEW q, JobTimeout(p, q) PROVE UNCHANGED run
  BY <1>1 DEF JobTimeout
<1>2. ASSUME NEW p, JobStalls(p) \/ RecoverIncomplete(p) \/ ClientCrash(p) \/ EngineCallFails(p)
      PROVE  UNCHANGED run
  BY <1>2 DEF JobStalls, RecoverIncomplete, ClientCrash, EngineCallFails
<1>3. QED
  BY <1>1, <1>2 DEF Fault

\* The run moves to where a transition leads, to the stage a delivery claims, or is cancelled.
LEMMA RunMoves ==
    ASSUME EngineInv, [Next]_vars
    PROVE  \/ run'.stage \in {run.stage, "CANCELLED"} \cup PipelineStages
           \/ \E a \in Actors : exec[a].pc = "write" /\ run'.stage = Head(exec[a].todo)
<1>1. run \in Run
  BY DEF EngineInv, TypeOK
<1>2. CASE UNCHANGED run
  BY <1>2
<1>3. ASSUME NEW p \in Procs, ClaimStage(p) PROVE run'.stage \in {run.stage} \cup PipelineStages
  <2>1. ClaimKey(p) \in PipelineStages
    BY <1>3, ActorIsTyped, ClaimKeyIsAStage DEF ClaimStage, At, Shape, Actors
  <2>2. QED
    BY <1>1, <1>3, <2>1, PlanIsStages DEF ClaimStage, Run
<1>4. ASSUME NEW p \in Actors, TransitionWrite(p)
      PROVE  exec[p].pc = "write" /\ run'.stage = Head(exec[p].todo)
  BY <1>1, <1>4 DEF TransitionWrite, At, Run
<1>5. ASSUME NEW P, End(P) PROVE run'.stage = run.stage
  BY <1>1, <1>5 DEF End, Run
<1>6. ASSUME NEW p \in Procs, Release(p) \/ Resolve(p) \/ Reject(p) PROVE run'.stage = run.stage
  BY <1>1, <1>5, <1>6 DEF Release, Resolve, Reject, Run
<1>7. ASSUME NEW p \in Procs, Step(p)
      PROVE  \/ UNCHANGED run
             \/ ClaimStage(p) \/ TransitionWrite(p) \/ Release(p) \/ Resolve(p) \/ Reject(p)
  BY <1>7 DEF Step, Load, WorkDone, WorkThrows, TransitionRead, AppendEvent, AppendCollides, Enqueue,
              GiveUp, Refund, MarkApplication
<1>8. ASSUME NEW c \in Clients, Call(c) \/ Serve(c), ~TransitionWrite(c)
      PROVE  run'.stage \in {run.stage, "CANCELLED"}
  BY <1>1, <1>8
  DEF Call, Serve, StartFinds, StartCreates, CancelReads, CancelWrites, RetryReads, RetryWrites,
      CustomerRetry, TransitionRead, AppendEvent, AppendCollides, Enqueue, Answer, Run
<1>9. CASE Fault
  <2>1. ASSUME NEW P \in SUBSET Procs, WorkerCrash(P) PROVE run'.stage = run.stage
    BY <1>5, <2>1 DEF WorkerCrash
  <2>2. UNCHANGED run \/ \E P \in SUBSET Procs : WorkerCrash(P)
    BY <1>9, FaultsLeaveTheRun
  <2>3. QED
    BY <2>1, <2>2
<1>10. CASE Clock
  BY <1>1, <1>10 DEF Clock, ExpireLease, Run
<1>11. QED
  <2>1. ASSUME NEW p \in Procs, Step(p)
        PROVE  \/ run'.stage \in {run.stage} \cup PipelineStages
               \/ exec[p].pc = "write" /\ run'.stage = Head(exec[p].todo)
    BY <1>3, <1>4, <1>6, <1>7, <2>1 DEF Actors
  <2>2. ASSUME NEW p \in Procs, NEW j \in JobIds, Deliver(p, j) PROVE UNCHANGED run
    BY <2>2 DEF Deliver
  <2>3. CASE UNCHANGED vars
    BY <2>3 DEF vars
  <2>4. QED
    BY <1>4, <1>8, <1>9, <1>10, <2>1, <2>2, <2>3 DEF Next, Actors

\* The moves that stage bodies, the failure handler and customers make: none cancels a run.
Moves == PipelineStages \cup {"V0_READY", "FINAL_READY", "FAILED"}

MovesInv == EngineInv /\ \A a \in Actors : exec[a].todo \in Seq(Moves)

LEMMA MovesInvIsInductive == MovesInv /\ [Next]_vars => MovesInv'
<1> SUFFICES ASSUME MovesInv, [Next]_vars PROVE MovesInv'
  OBVIOUS
<1>1. EngineInv'
  BY NextKeepsInv DEF MovesInv
<1>2. <<>> \in Seq(Moves) /\ <<"FAILED">> \in Seq(Moves) /\ <<run.failedAt>> \in Seq(Moves)
  <2>1. run.failedAt \in Moves /\ "FAILED" \in Moves
    BY DEF MovesInv, EngineInv, TypeOK, Run, Moves
  <2>2. QED
    BY <2>1
<1>3. ASSUME NEW a \in Actors, Continues(a) PROVE exec'[a].todo \in Seq(Moves)
  <2>1. exec[a].pc = "write" => Tail(exec[a].todo) \in Seq(Moves)
    <3>1. exec[a].pc = "write" => exec[a].todo # <<>>
      BY ActorIsTyped DEF MovesInv, Shape
    <3>2. QED
      BY <3>1 DEF MovesInv
  <2>2. QED
    BY <1>2, <1>3, <2>1 DEF MovesInv, Continues, Carries
<1>4. CASE OtherStep
  BY <1>1, <1>3, <1>4, OtherStepsContinue DEF MovesInv
<1>5. ASSUME NEW p \in Procs, WorkDone(p), NEW a \in Actors PROVE exec'[a].todo \in Seq(Moves)
  <2>1. \A stage : Plan(stage) \in Seq(Moves)
    <3>1. \A x, y \in Moves : <<x>> \in Seq(Moves) /\ <<x, y>> \in Seq(Moves)
      OBVIOUS
    <3>2. {"V0_GENERATING", "V0_READY", "FINAL_QA_RUNNING", "FINAL_READY"} \subseteq Moves
      BY DEF Moves, PipelineStages
    <3>3. QED
      BY <3>1, <3>2 DEF Plan
  <2>2. QED
    BY <1>5, <2>1, ActorIsTyped DEF WorkDone, Go, MovesInv, Activity
<1>6. QED
  BY <1>1, <1>4, <1>5, NextIsOtherOrWorkDone DEF MovesInv

\* No transition passes its check on a cancelled run, whatever status a racing retry has written:
\* the graph alone prevents it.
THEOREM CancelledIsClosed == Spec => CancelBlocksNewMoves
<1>1. Init => MovesInv
  <2>1. Init => \A a \in Actors : exec[a].todo = <<>>
    BY DEF Init, Idle
  <2>2. <<>> \in Seq(Moves)
    OBVIOUS
  <2>3. QED
    BY <2>1, <2>2, EngineInvHoldsInitially DEF MovesInv
<1>2. MovesInv /\ [Next]_vars =>
        [run.stage = "CANCELLED" => \A a \in Actors : At(a, "write")' => At(a, "write")]_vars
  <2> SUFFICES ASSUME MovesInv, [Next]_vars, run.stage = "CANCELLED",
                      NEW p \in Actors, exec'[p].pc = "write"
               PROVE  exec[p].pc = "write"
    BY DEF At
  <2>1. CASE OtherStep
    <3>1. Continues(p)
      BY <2>1, OtherStepsContinue DEF MovesInv, Actors
    <3>2. ASSUME exec[p].pc = "read" PROVE Head(exec[p].todo) \in Moves
      <4>1. exec[p].todo # <<>> /\ exec[p].todo \in Seq(Moves)
        BY <3>2, ActorIsTyped DEF MovesInv, Shape, Actors
      <4>2. QED
        BY <4>1
    <3>3. \A to \in Moves : ~CanTransition("CANCELLED", to)
      BY DEF Moves, PipelineStages, CanTransition, Transitions, Forward, ClosedStages
    <3>4. QED
      BY <3>1, <3>2, <3>3 DEF Continues, Carries
  <2>2. ASSUME NEW q \in Procs, WorkDone(q) PROVE exec[p].pc = "write"
    BY <2>2, ActorIsTyped DEF WorkDone, Go, MovesInv, Actors, Activity
  <2>3. QED
    BY <2>1, <2>2, NextIsOtherOrWorkDone
<1>3. QED
  BY <1>1, <1>2, MovesInvIsInductive, PTL DEF Spec, CancelBlocksNewMoves

-----------------------------------------------------------------------------
(* Leases: who takes a claim away.                                          *)

\* The failure handler makes one transition, and no delivery is in it while it works.
HandlersFail ==
    \A a \in Actors :
        /\ exec[a].giving => exec[a].todo \in Seq({"FAILED"})
        /\ exec[a].pc \in {"load", "claim", "work"} => ~exec[a].giving

LeaseInv == EngineInv /\ HandlersFail

LEMMA LeaseInvIsInductive == LeaseInv /\ [Next]_vars => LeaseInv'
<1> SUFFICES ASSUME LeaseInv, [Next]_vars PROVE LeaseInv'
  OBVIOUS
<1>1. EngineInv'
  BY NextKeepsInv DEF LeaseInv
<1>2. ASSUME NEW a \in Actors, Continues(a)
      PROVE  /\ exec'[a].giving => exec'[a].todo \in Seq({"FAILED"})
             /\ exec'[a].pc \in {"load", "claim", "work"} => ~exec'[a].giving
  <2>1. <<>> \in Seq({"FAILED"}) /\ <<"FAILED">> \in Seq({"FAILED"})
    OBVIOUS
  <2>2. exec[a].pc = "write" /\ exec[a].giving => Tail(exec[a].todo) \in Seq({"FAILED"})
    <3>1. exec[a].pc = "write" => exec[a].todo # <<>>
      BY ActorIsTyped DEF LeaseInv, Shape
    <3>2. QED
      BY <3>1 DEF LeaseInv, HandlersFail
  <2>3. QED
    BY <1>2, <2>1, <2>2 DEF LeaseInv, HandlersFail, Continues, Carries
<1>3. CASE OtherStep
  BY <1>1, <1>2, <1>3, OtherStepsContinue DEF LeaseInv, HandlersFail
<1>4. ASSUME NEW p \in Procs, WorkDone(p), NEW a \in Actors
      PROVE  /\ exec'[a].giving => exec'[a].todo \in Seq({"FAILED"})
             /\ exec'[a].pc \in {"load", "claim", "work"} => ~exec'[a].giving
  <2>1. exec[p].pc = "work" /\ ~exec[p].giving
    BY <1>4 DEF WorkDone, At, LeaseInv, HandlersFail, Actors
  <2>2. a # p => exec'[a] = exec[a]
    BY <1>4, ActorIsTyped DEF WorkDone, Go, LeaseInv
  <2>3. a = p => ~exec'[a].giving
    BY <1>4, <2>1, ActorIsTyped DEF WorkDone, Go, LeaseInv, Activity
  <2>4. QED
    BY <2>2, <2>3 DEF LeaseInv, HandlersFail
<1>5. QED
  BY <1>1, <1>3, <1>4, NextIsOtherOrWorkDone DEF LeaseInv, HandlersFail

\* Who takes a claim from a delivery that works on and that the queue waits for.
LEMMA LiveLeaseStays ==
    ASSUME EngineInv, [Next]_vars,
           NEW p \in Procs, NEW k \in PipelineStages, run.claims[k] = p,
           exec[p].pc \in WorkPcs, exec[p].attached, exec'[p].pc \in WorkPcs, ~exec'[p].giving
    PROVE  \/ run'.claims[k] = p
           \/ \E c \in Clients : CancelWrites(c)
           \/ \E a \in Actors : TransitionWrite(a) /\ (exec[a].giving \/ a \in Resumers)
<1>1. /\ run \in Run /\ run.claims \in [PipelineStages -> Holders] /\ p \in Actors
      /\ exec[p] \in Activity
  BY ActorIsTyped DEF Run, Actors
<1>2. p # "nobody" /\ p # "gone"
  BY EngineAssumption
<1>3. CASE UNCHANGED run
  BY <1>3
<1>4. ASSUME NEW q \in Procs, ClaimStage(q) PROVE run'.claims[k] = p
  <2>1. run.claims[ClaimKey(q)] = "nobody" \/ UNCHANGED run
    BY <1>4 DEF ClaimStage, Claimable
  <2>2. QED
    BY <1>1, <1>2, <1>4, <2>1 DEF ClaimStage, Run
<1>5. ASSUME NEW q \in Procs, Release(q) PROVE run'.claims[k] = p
  <2>1. q # p
    BY <1>5 DEF Release, At, WorkPcs
  <2>2. QED
    BY <1>1, <1>5, <2>1 DEF Release, Releasable, Run
<1>6. ASSUME NEW P, End(P) PROVE run'.claims[k] = p
  <2>1. p \notin P
    BY <1>1, <1>6 DEF End, Idle, WorkPcs
  <2>2. QED
    BY <1>1, <1>6, <2>1 DEF End, Orphaned, Run
<1>7. ASSUME NEW q \in Procs, Resolve(q) \/ Reject(q) PROVE run'.claims[k] = p
  <2>1. CASE End({q})
    BY <1>6, <2>1
  <2>2. CASE ~End({q})
    <3>1. q # p
      BY <1>7, <2>2 DEF Resolve, Reject, At, WorkPcs
    <3>2. run' = [run EXCEPT !.claims = Orphaned(@, {q})]
      BY <1>7, <2>2 DEF Resolve, Reject
    <3>3. QED
      BY <1>1, <3>1, <3>2 DEF Orphaned, Run
  <2>3. QED
    BY <2>1, <2>2
<1>8. ASSUME NEW a \in Actors, TransitionWrite(a), ~exec[a].giving, a \notin Resumers
      PROVE  run'.claims[k] = p
  BY <1>1, <1>8 DEF TransitionWrite, Run
<1>9. ASSUME NEW key \in PipelineStages, ExpireLease(key) PROVE run'.claims[k] = p
  <2>1. run.claims[key] # p
    BY <1>9 DEF ExpireLease, MayExpire
  <2>2. QED
    BY <1>1, <1>9, <2>1 DEF ExpireLease, Run
<1>10. ASSUME NEW c \in Clients, StartCreates(c) \/ RetryWrites(c) PROVE run'.claims[k] = p
  BY <1>1, <1>10 DEF StartCreates, RetryWrites, Run
<1>11. ASSUME NEW q \in Procs, Step(q)
       PROVE  \/ UNCHANGED run
              \/ ClaimStage(q) \/ TransitionWrite(q) \/ Release(q) \/ Resolve(q) \/ Reject(q)
  BY <1>11 DEF Step, Load, WorkDone, WorkThrows, TransitionRead, AppendEvent, AppendCollides,
               Enqueue, GiveUp, Refund, MarkApplication
<1>12. ASSUME NEW c \in Clients, Call(c) \/ Serve(c)
       PROVE  UNCHANGED run \/ StartCreates(c) \/ CancelWrites(c) \/ RetryWrites(c)
              \/ TransitionWrite(c)
  BY <1>12 DEF Call, Serve, StartFinds, CancelReads, RetryReads, CustomerRetry, TransitionRead,
               AppendEvent, AppendCollides, Enqueue, Answer
<1>13. CASE Fault
  <2>1. ASSUME NEW P \in SUBSET Procs, WorkerCrash(P) PROVE run'.claims[k] = p
    BY <1>6, <2>1 DEF WorkerCrash
  <2>2. UNCHANGED run \/ \E P \in SUBSET Procs : WorkerCrash(P)
    BY <1>13, FaultsLeaveTheRun
  <2>3. QED
    BY <1>3, <2>1, <2>2
<1>14. QED
  <2>1. ASSUME NEW q \in Procs, NEW j \in JobIds, Deliver(q, j) PROVE UNCHANGED run
    BY <2>1 DEF Deliver
  <2>2. CASE UNCHANGED vars
    BY <1>3, <2>2 DEF vars
  <2>3. CASE \E q \in Procs : Step(q)
    BY <1>3, <1>4, <1>5, <1>7, <1>8, <1>11, <2>3 DEF Actors
  <2>4. CASE \E c \in Clients : Call(c) \/ Serve(c)
    BY <1>3, <1>8, <1>10, <1>12, <2>4 DEF Actors
  <2>5. QED
    BY <1>3, <1>9, <1>13, <2>1, <2>2, <2>3, <2>4 DEF Next, Clock

\* A worker's claim outlives everything that late deliveries, releases and time do: it is only
\* lost to a write of the payload that ends the run, or to the customer's retry of a failed one.
THEOREM LeasesAreKept == Spec => LeaseIsKept
<1> DEFINE Kept ==
      \A p \in Procs :
          /\ Working(p) /\ exec[p].attached /\ run.claims[ClaimKey(p)] = p
          /\ Working(p)' /\ exec'[p].attached
          => \/ run'.claims[ClaimKey(p)] = p
             \/ run'.stage \in {"FAILED", "CANCELLED"}
             \/ \E c \in Resumers : At(c, "write") /\ At(c, "append")'
<1>1. Init => LeaseInv
  <2>1. Init => HandlersFail
    BY DEF Init, Idle, HandlersFail
  <2>2. QED
    BY <2>1, EngineInvHoldsInitially DEF LeaseInv
<1>2. LeaseInv /\ [Next]_vars => [Kept]_vars
  <2> SUFFICES ASSUME LeaseInv, [Next]_vars, NEW p \in Procs,
                      Working(p), exec[p].attached, run.claims[ClaimKey(p)] = p, Working(p)'
               PROVE  \/ run'.claims[ClaimKey(p)] = p
                      \/ run'.stage \in {"FAILED", "CANCELLED"}
                      \/ \E c \in Resumers : At(c, "write") /\ At(c, "append")'
    OBVIOUS
  <2>1. exec[p].pc \in WorkPcs /\ exec'[p].pc \in WorkPcs /\ ~exec'[p].giving
    BY DEF Working
  <2>2. ClaimKey(p) \in PipelineStages
    BY ActorIsTyped, ClaimKeyIsAStage DEF LeaseInv, Shape, Actors
  <2>3. ASSUME NEW c \in Clients, CancelWrites(c) PROVE run'.stage = "CANCELLED"
    BY <2>3, ActorIsTyped DEF CancelWrites, LeaseInv, Run, Actors
  <2>4. ASSUME NEW a \in Actors, TransitionWrite(a), exec[a].giving PROVE run'.stage = "FAILED"
    <3>1. exec[a].todo # <<>> /\ exec[a].todo \in Seq({"FAILED"})
      BY <2>4, ActorIsTyped DEF TransitionWrite, At, LeaseInv, HandlersFail, Shape
    <3>2. Head(exec[a].todo) = "FAILED"
      BY <3>1
    <3>3. QED
      BY <2>4, <3>2, ActorIsTyped DEF TransitionWrite, LeaseInv, Run
  <2>5. ASSUME NEW c \in Resumers, TransitionWrite(c) PROVE At(c, "write") /\ At(c, "append")'
    <3>1. exec \in [Actors -> Activity] /\ c \in Actors
      BY ActorIsTyped DEF LeaseInv, Actors, Clients
    <3>2. QED
      BY <2>5, <3>1 DEF TransitionWrite, Go, At, Activity
  <2>6. QED
    BY <2>1, <2>2, <2>3, <2>4, <2>5, LiveLeaseStays DEF LeaseInv
<1>3. QED
  BY <1>1, <1>2, LeaseInvIsInductive, PTL DEF Spec, LeaseIsKept
=============================================================================
