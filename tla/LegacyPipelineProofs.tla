------------------------- MODULE LegacyPipelineProofs -------------------------
(***************************************************************************)
(* Theorems about LegacyPipeline, for any number of activities, clients,   *)
(* tries and faults: its types; that a run is FINAL_READY only with a      *)
(* version that Final QA passed; that a repair follows a repairable        *)
(* failure of V4; that a version is paid for when its run has gone past    *)
(* it; and that a parked result is taken up, not asked for again.          *)
(***************************************************************************)
EXTENDS LegacyPipelineInvariants, TLAPS

USE DEF Finalizing, RunGoesOn, MayAdd

-----------------------------------------------------------------------------
(* The tables.                                                              *)

LEMMA Tables ==
    /\ VersionOf["V0_GENERATING"] = 0 /\ VersionOf["V1_GENERATING"] = 1
    /\ VersionOf["V2_GENERATING"] = 2 /\ VersionOf["V3_GENERATING"] = 3
    /\ VersionOf["V4_GENERATING"] = 4
    /\ ReadyOf[0] = "V0_READY" /\ ReadyOf[1] = "V1_READY" /\ ReadyOf[2] = "V2_READY"
    /\ ReadyOf[3] = "V3_READY" /\ ReadyOf[4] = "V4_READY"
    /\ NextOf[0] = "HR_AUDIT_1_RUNNING" /\ NextOf[1] = "EM_AUDIT_1_RUNNING"
    /\ NextOf[2] = "HR_AUDIT_2_RUNNING" /\ NextOf[3] = "EM_AUDIT_2_RUNNING"
    /\ NextOf[4] = "FINAL_QA_RUNNING"
<1>1. GeneratingStages = {"V0_GENERATING", "V1_GENERATING", "V2_GENERATING", "V3_GENERATING",
                          "V4_GENERATING"}
  BY DEF GeneratingStages
<1>2. 0..4 = {0, 1, 2, 3, 4} OBVIOUS
<1>3. QED BY <1>1, <1>2 DEF VersionOf, ReadyOf, NextOf

LEMMA AuditTables ==
    /\ ReviewOf["HR_AUDIT_1_RUNNING"] = "HR_AUDIT_1_REVIEW"
    /\ ReviewOf["EM_AUDIT_1_RUNNING"] = "EM_AUDIT_1_REVIEW"
    /\ ReviewOf["HR_AUDIT_2_RUNNING"] = "HR_AUDIT_2_REVIEW"
    /\ ReviewOf["EM_AUDIT_2_RUNNING"] = "EM_AUDIT_2_REVIEW"
    /\ Reviewed["HR_AUDIT_1_RUNNING"] = 0 /\ Reviewed["EM_AUDIT_1_RUNNING"] = 1
    /\ Reviewed["HR_AUDIT_2_RUNNING"] = 2 /\ Reviewed["EM_AUDIT_2_RUNNING"] = 3
    /\ ProducerOf["HR_AUDIT_1_RUNNING"] = "V1_GENERATING"
    /\ ProducerOf["EM_AUDIT_1_RUNNING"] = "V2_GENERATING"
    /\ ProducerOf["HR_AUDIT_2_RUNNING"] = "V3_GENERATING"
    /\ ProducerOf["EM_AUDIT_2_RUNNING"] = "V4_GENERATING"
BY DEF ReviewOf, Reviewed, ProducerOf, AuditStages

LEMMA StageIsOfABody ==
    /\ \A s \in WorkStages : RunningCounterpart(s) \in BodyStages
    /\ \A j \in JobIds : j[1] \in WorkStages /\ RunningCounterpart(j[1]) \in BodyStages
    /\ RunningCounterpart(NoJob[1]) = "none" /\ NoJob \notin JobIds
    /\ "none" \notin Stages
BY DEF WorkStages, QueuedStages, RunningStages, BodyStages, RunningCounterpart, JobIds, NoJob,
       GeneratingStages, AuditStages, Stages, ReviewStages, ReadyStages, TerminalStages

LEMMA StagesOfTables ==
    /\ \A s \in GeneratingStages :
          /\ VersionOf[s] \in 0..4
          /\ ReadyOf[VersionOf[s]] \in ReadyStages \ {"FINAL_READY"}
          /\ NextOf[VersionOf[s]] \in AuditStages \cup {"FINAL_QA_RUNNING"}
          /\ s # "V4_GENERATING" => {ReadyOf[VersionOf[s]], NextOf[VersionOf[s]]} \cap QaSide = {}
                                    /\ VersionOf[s] # 4
    /\ \A s \in AuditStages :
          /\ Reviewed[s] \in 0..3
          /\ ReviewOf[s] \in ReviewStages
          /\ ProducerOf[s] \in GeneratingStages
BY Tables, AuditTables DEF GeneratingStages, AuditStages, ReadyStages, ReviewStages, QaSide

LEMMA StagesAreStages ==
    /\ GeneratingStages \subseteq Stages /\ AuditStages \subseteq Stages
    /\ ReadyStages \subseteq Stages /\ ReviewStages \subseteq Stages
    /\ FrontStages \subseteq Stages /\ WorkStages \subseteq Stages /\ QaSide \subseteq Stages
    /\ BodyStages \subseteq Stages
    /\ {"FAILED", "FINAL_QA_RUNNING", "FINAL_READY", "FINAL_QA_FAILED", "V4_GENERATING",
        "V0_GENERATING"} \subseteq Stages
BY DEF Stages, GeneratingStages, AuditStages, ReadyStages, ReviewStages, FrontStages, WorkStages,
       QaSide, BodyStages, QueuedStages, RunningStages, TerminalStages

\* What instructions an activity may have: their stages are stages, and of Final QA's side only
\* after V4.
LEMMA AfterIsInstructions ==
    ASSUME NEW stage \in BodyStages \cup {"none"}
    PROVE  /\ After(stage) \subseteq Instructions
           /\ \A x \in After(stage) :
                 \/ x = <<"next", "stage">> /\ stage \in GeneratingStages
                 \/ x = <<"render", "documents">>
                 \/ /\ x[1] \in {"move", "pause", "put", "app"}
                    /\ x[2] \in Stages
                    /\ x[2] \in QaSide => stage \in {"V4_GENERATING", "FINAL_QA_RUNNING"}
<1>1. CASE stage \in GeneratingStages
  <2> DEFINE ready == ReadyOf[VersionOf[stage]]
             next == NextOf[VersionOf[stage]]
  <2>1. After(stage) = ({"put", "app"} \X {ready, next}) \cup {<<"next", "stage">>}
    BY <1>1 DEF After
  <2>2. /\ ready \in Stages /\ next \in Stages
        /\ stage # "V4_GENERATING" => ready \notin QaSide /\ next \notin QaSide
    BY <1>1, StagesOfTables, StagesAreStages
  <2> HIDE DEF ready, next
  <2>3. ASSUME NEW x \in After(stage)
        PROVE  \/ x = <<"next", "stage">>
               \/ x[1] \in {"put", "app"} /\ x[2] \in {ready, next} /\ x = <<x[1], x[2]>>
    BY <2>1
  <2>4. After(stage) \subseteq Instructions BY <2>2, <2>3 DEF Instructions
  <2>5. QED BY <1>1, <2>2, <2>3, <2>4
<1>2. CASE stage \in AuditStages
  <2>1. stage \notin GeneratingStages /\ ReviewOf[stage] \in Stages \ QaSide
        /\ ProducerOf[stage] \in Stages \ QaSide
    BY <1>2, StagesOfTables, StagesAreStages
    DEF AuditStages, GeneratingStages, ReviewStages, QaSide
  <2>2. QED BY <1>2, <2>1 DEF After, Instructions
<1>3. CASE stage = "FINAL_QA_RUNNING"
  <2>1. After(stage) = ({"put", "app"} \X {"FINAL_READY", "FINAL_QA_FAILED", "V4_GENERATING"})
                         \cup {<<"render", "documents">>}
    BY <1>3 DEF After, GeneratingStages, AuditStages
  <2>2. QED BY <1>3, <2>1, StagesAreStages DEF Instructions
<1>4. CASE stage \in {"RESEARCH_RUNNING", "EVIDENCE_MATCHING_RUNNING", "none"}
  BY <1>4, StagesAreStages DEF After, Instructions, GeneratingStages, AuditStages, FrontStages,
     QaSide
<1>5. QED BY <1>1, <1>2, <1>3, <1>4 DEF BodyStages

LEMMA AllowedIsInstructions ==
    ASSUME NEW rec \in Activity
    PROVE  /\ Stage(rec) \in BodyStages \cup {"none"}
           /\ Allowed(rec) \subseteq Instructions
<1>1. Stage(rec) \in BodyStages \cup {"none"} BY StageIsOfABody DEF Activity, Stage
<1>2. After(Stage(rec)) \subseteq Instructions BY <1>1, AfterIsInstructions
<1>3. Ends \subseteq Instructions /\ Givings \subseteq Instructions
  BY StagesAreStages DEF Ends, Givings, Instructions
<1>4. QED BY <1>1, <1>2, <1>3 DEF Allowed

-----------------------------------------------------------------------------
(* Scripts.                                                                 *)

LEMMA LongerSequences == ASSUME NEW S, NEW T, S \subseteq T PROVE Seq(S) \subseteq Seq(T)
OBVIOUS

LEMMA ScriptOfOne ==
    ASSUME NEW S, NEW z \in S, z \in Last PROVE <<z>> \in Seq(S) /\ EndsOnce(<<z>>)
BY DEF EndsOnce

LEMMA ScriptOfTwo ==
    ASSUME NEW S, NEW a \in S, NEW z \in S, a \notin Last, z \in Last
    PROVE  <<a, z>> \in Seq(S) /\ EndsOnce(<<a, z>>)
BY DEF EndsOnce

LEMMA ScriptOfThree ==
    ASSUME NEW S, NEW a \in S, NEW b \in S, NEW z \in S, a \notin Last, b \notin Last, z \in Last
    PROVE  <<a, b, z>> \in Seq(S) /\ EndsOnce(<<a, b, z>>)
BY DEF EndsOnce

LEMMA ScriptOfFour ==
    ASSUME NEW S, NEW a \in S, NEW b \in S, NEW c \in S, NEW z \in S,
           a \notin Last, b \notin Last, c \notin Last, z \in Last
    PROVE  <<a, b, c, z>> \in Seq(S) /\ EndsOnce(<<a, b, c, z>>)
BY DEF EndsOnce

LEMMA ScriptOfFive ==
    ASSUME NEW S, NEW a \in S, NEW b \in S, NEW c \in S, NEW d \in S, NEW z \in S,
           a \notin Last, b \notin Last, c \notin Last, d \notin Last, z \in Last
    PROVE  <<a, b, c, d, z>> \in Seq(S) /\ EndsOnce(<<a, b, c, d, z>>)
BY DEF EndsOnce

LEMMA RestOfAScript ==
    ASSUME NEW S, NEW script \in Seq(S), EndsOnce(script)
    PROVE  /\ Head(script) \in S
           /\ Head(script) \notin Last =>
                 /\ Tail(script) \in Seq(S)
                 /\ EndsOnce(Tail(script))
<1>1. Len(script) \in Nat /\ Len(script) > 0 /\ Head(script) = script[1] /\ script[1] \in S
  BY DEF EndsOnce
<1>2. ASSUME Head(script) \notin Last
      PROVE  Tail(script) \in Seq(S) /\ EndsOnce(Tail(script))
  <2>1. Len(script) > 1 BY <1>1, <1>2 DEF EndsOnce
  <2>2. Tail(script) \in Seq(S) /\ Len(Tail(script)) = Len(script) - 1
        /\ \A i \in 1..Len(script) - 1 : Tail(script)[i] = script[i + 1]
    BY <2>1
  <2> DEFINE tail == Tail(script)
  <2>3. \A i \in 1..Len(tail) : tail[i] = script[i + 1] /\ i + 1 \in 1..Len(script) BY <1>1, <2>2
  <2>4. \A i \in 1..Len(tail) : tail[i] \in Last <=> i + 1 = Len(script) BY <2>3 DEF EndsOnce
  <2>5. tail \in Seq(S) /\ Len(tail) = Len(script) - 1 /\ tail # <<>> BY <1>1, <2>1, <2>2
  <2> HIDE DEF tail
  <2>6. EndsOnce(tail) BY <1>1, <2>4, <2>5 DEF EndsOnce
  <2>7. QED BY <2>5, <2>6 DEF tail
<1>3. QED BY <1>1, <1>2

-----------------------------------------------------------------------------
(* Types.                                                                   *)

LEMMA TypesOfLegacyInv ==
    ASSUME LegacyInv
    PROVE  /\ run \in Run /\ jobs \in [JobIds -> Job] /\ exec \in [Actors -> Activity]
           /\ RowsTypeOK
           /\ \A a \in Actors : exec[a] \in Activity /\ Fits(a, exec[a])
           /\ RunFollowsV4 => 4 \in versions
           /\ \A a \in Actors : FollowsV4(exec[a]) => 4 \in versions
BY DEF LegacyInv, LPTypeOK, RowsTypeOK, Shapes, V4Known

LEMMA ProcsAreNoClients ==
    /\ \A p \in Procs : p \in Actors /\ p \notin Clients /\ p \in Holders
    /\ \A c \in Clients : c \in Actors /\ c \notin Procs
BY LegacyAssumption DEF Actors, Holders

LEMMA NoPayloadIsAPayload == NoPayload \in Payload /\ ~NoPayload.repair /\ NoPayload.pending = NoOperation
BY DEF NoPayload, Payload, NoClaims, Holders

LEMMA IdleFits ==
    Idle \in Activity /\ ~FollowsV4(Idle) /\ (\A a : Fits(a, Idle)) /\ ~Idle.attached
<1>1. Idle \in Activity BY NoPayloadIsAPayload DEF Idle, Activity, Pcs, AllAnswers
<1>2. Stage(Idle) = "none" BY StageIsOfABody DEF Stage, Idle
<1>3. /\ Idle.op = NoOperation /\ Idle.op # Repair /\ ~Idle.copy.repair /\ Idle.script = <<>>
      /\ Idle.pc = "idle" /\ Idle.job = NoJob /\ ~Idle.giving /\ ~Idle.attached
      /\ Idle.answer = "none" /\ Idle.copy.pending = NoOperation
  BY NoPayloadIsAPayload DEF Idle, NoOperation, Repair
<1>4. QED
  BY <1>1, <1>2, <1>3 DEF FollowsV4, Fits, Shape, DeliveryShape, ClientShape, BodyPcs, Ending

LEMMA DerivedStatusIsAStatus ==
    ASSUME NEW stage PROVE DerivedStatus(stage) \in Statuses
BY DEF DerivedStatus, Statuses

LEMMA LatestBelow ==
    ASSUME NEW k \in 1..4, versions = {n \in 0..4 : n < k} PROVE Latest = k - 1
<1>1. k - 1 \in versions /\ \A m \in versions : m <= k - 1 OBVIOUS
<1>2. \A n \in versions : (\A m \in versions : m <= n) => n = k - 1 BY <1>1
<1>3. QED BY <1>1, <1>2 DEF Latest

LEMMA LegacyInvHoldsInitially == Init => LegacyInv
<1> SUFFICES ASSUME Init PROVE LegacyInv
  OBVIOUS
<1>1. PICK stage \in Starts, tries \in Tries :
         /\ run = [stage |-> stage, status |-> DerivedStatus(stage), attempt |-> 1,
                   payload |-> NoPayload]
         /\ jobs = [j \in JobIds |->
                      [state |-> IF j = <<stage, 1, "stage">> THEN "waiting" ELSE "absent",
                       left |-> tries]]
         /\ app = stage
         /\ versions = IF stage = "RESEARCH_QUEUED" THEN {} ELSE {n \in 0..4 : n < VersionOf[stage]}
         /\ current = IF versions = {} THEN NoVersion ELSE Latest
  BY DEF Init
<1>2. /\ stage \in {"RESEARCH_QUEUED"} \cup GeneratingStages
      /\ tries \in Nat \ {0} /\ 1 \in 1..MaxRunAttempts
      /\ [detached |-> 0, crashes |-> 0, failures |-> 0, expiries |-> 0] \in Faults
  BY LegacyAssumption DEF Faults
<1>3. stage \in Stages \ QaSide BY <1>2 DEF Stages, QueuedStages, GeneratingStages, QaSide
<1>4. run \in Run BY <1>1, <1>2, <1>3, NoPayloadIsAPayload, DerivedStatusIsAStatus DEF Run
<1>5. jobs \in [JobIds -> Job] /\ TriesAreLeft BY <1>1, <1>2 DEF Job, TriesAreLeft
<1>6. exec \in [Actors -> Activity] /\ Shapes /\ DeliveriesAreActive
      /\ \A a \in Actors : ~FollowsV4(exec[a])
  BY IdleFits, ProcsAreNoClients DEF Init, Shapes, DeliveriesAreActive
<1>7. versions \subseteq 0..RepairVersion /\ RepairVersion \notin versions BY <1>1 DEF RepairVersion
<1>8. current \in 0..NoVersion
  <2>1. CASE versions = {} BY <1>1, <2>1 DEF NoVersion
  <2>2. CASE versions # {}
    <3>1. stage \in GeneratingStages /\ VersionOf[stage] \in 1..4
      BY <1>1, <1>2, <2>2, StagesOfTables
    <3>2. versions = {n \in 0..4 : n < VersionOf[stage]} BY <1>1, <3>1 DEF GeneratingStages
    <3>3. Latest = VersionOf[stage] - 1 BY <3>1, <3>2, LatestBelow
    <3>4. QED BY <1>1, <2>2, <3>1, <3>3 DEF NoVersion
  <2>3. QED BY <2>1, <2>2
<1>9. RowsTypeOK BY <1>1, <1>2, <1>3, <1>7, <1>8 DEF Init, RowsTypeOK, AllAnswers
<1>10. ~RunFollowsV4 BY <1>1, <1>3, <1>7, NoPayloadIsAPayload DEF RunFollowsV4
<1>11. QED BY <1>4, <1>5, <1>6, <1>9, <1>10 DEF LegacyInv, LPTypeOK, RowsTypeOK, V4Known

\* One actor moves on, and the run, the rows and the queue with it.
LEMMA ActorMoves ==
    ASSUME LegacyInv, NEW a \in Actors, NEW rec \in Activity, Fits(a, rec), Go(a, rec),
           rec.attached => exec[a].attached /\ rec.job = exec[a].job,
           RunGoesOn, jobs' = jobs, RowsTypeOK',
           FollowsV4(rec) => 4 \in versions'
    PROVE  LegacyInv'
<1> USE DEF Go
<1>1. exec \in [Actors -> Activity] /\ exec'= [exec EXCEPT ![a] = rec]
      /\ \A b \in Actors : FollowsV4(exec[b]) => 4 \in versions
  BY TypesOfLegacyInv
<1>2. LPTypeOK' BY <1>1, TypesOfLegacyInv DEF LPTypeOK, RowsTypeOK
<1>3. Shapes' BY <1>1, TypesOfLegacyInv DEF Shapes
<1>4. TriesAreLeft' /\ DeliveriesAreActive'
  BY <1>1, ProcsAreNoClients DEF LegacyInv, TriesAreLeft, DeliveriesAreActive
<1>5. V4Known' BY <1>1 DEF V4Known
<1>6. QED BY <1>2, <1>3, <1>4, <1>5 DEF LegacyInv

-----------------------------------------------------------------------------
(* What an activity becomes.                                                *)

LEMMA ActorIsTyped ==
    ASSUME LegacyInv, NEW a \in Actors
    PROVE  /\ exec[a] \in Activity /\ Shape(exec[a]) /\ Fits(a, exec[a])
           /\ a \in Procs => DeliveryShape(exec[a])
           /\ a \in Clients => ClientShape(exec[a])
           /\ exec[a].job \in JobIds \cup {NoJob} /\ exec[a].copy \in Payload
           /\ exec[a].attached \in BOOLEAN
           /\ FollowsV4(exec[a]) => 4 \in versions
BY TypesOfLegacyInv DEF Activity, Fits

LEMMA DeliveryHasAJob ==
    ASSUME LegacyInv, NEW p \in Procs, exec[p].pc # "idle"
    PROVE  /\ exec[p].job \in JobIds /\ exec[p].job[1] \in WorkStages
           /\ Stage(exec[p]) \in BodyStages /\ StageAt(p) = Stage(exec[p])
<1>1. exec[p].job \in JobIds BY ActorIsTyped, ProcsAreNoClients DEF DeliveryShape
<1>2. QED BY <1>1, StageIsOfABody DEF Stage, StageAt

LEMMA RestIs ==
    ASSUME NEW a, NEW pc
    PROVE  /\ Rest(a, pc).pc = pc /\ Rest(a, pc).job = exec[a].job
           /\ Rest(a, pc).attached = exec[a].attached /\ Rest(a, pc).copy = NoPayload
           /\ Rest(a, pc).op = NoOperation /\ Rest(a, pc).answer = "none"
           /\ Rest(a, pc).script = <<>> /\ Rest(a, pc).adds = NoJob
           /\ Rest(a, pc).error = "none" /\ ~Rest(a, pc).giving
           /\ ~Rest(a, pc).copy.repair /\ Rest(a, pc).copy.pending = NoOperation
BY NoPayloadIsAPayload DEF Rest, Idle

LEMMA RestIsAnActivity ==
    ASSUME NEW a, NEW pc \in Pcs, exec[a].attached \in BOOLEAN, exec[a].job \in JobIds \cup {NoJob}
    PROVE  Rest(a, pc) \in Activity
BY IdleFits DEF Rest, Activity

LEMMA RestingFollowsNothing == ASSUME NEW rec, Resting(rec) PROVE ~FollowsV4(rec)
BY DEF Resting, FollowsV4, NoOperation, Repair, BodyPcs, Ending

LEMMA RestingFits ==
    ASSUME NEW p \in Procs, NEW rec \in Activity, Resting(rec), rec.pc \notin {"idle", "done"},
           rec.job \in JobIds
    PROVE  Fits(p, rec)
<1>1. p \notin Clients /\ rec.job # NoJob BY ProcsAreNoClients, StageIsOfABody
<1>2. QED BY <1>1 DEF Fits, Shape, DeliveryShape, Resting

LEMMA RestFits ==
    ASSUME LegacyInv, NEW p \in Procs, exec[p].pc # "idle", NEW pc \in RestPcs,
           NEW error \in {"none", "retryable", "permanent"}
    PROVE  LET rec == Erring(p, pc, error) IN
           /\ rec \in Activity /\ Fits(p, rec) /\ ~FollowsV4(rec) /\ Resting(rec)
           /\ rec.attached = exec[p].attached /\ rec.job = exec[p].job /\ rec.pc = pc
<1> DEFINE rec == Erring(p, pc, error)
<1>1. p \in Actors /\ exec[p].job \in JobIds BY ProcsAreNoClients, DeliveryHasAJob
<1>2. exec[p].attached \in BOOLEAN /\ exec[p].job \in JobIds /\ pc \in Pcs
  BY <1>1, ActorIsTyped DEF RestPcs, Pcs
<1>3. rec \in Activity /\ rec.attached = exec[p].attached /\ rec.job = exec[p].job /\ rec.pc = pc
  BY <1>2, IdleFits DEF Erring, Rest, Activity
<1>4. Resting(rec) BY RestIs, NoPayloadIsAPayload DEF Resting, RestPcs, BodyPcs, Erring, Rest, Idle
<1> HIDE DEF rec
<1>5. Fits(p, rec) /\ ~FollowsV4(rec)
  BY <1>2, <1>3, <1>4, RestingFits, RestingFollowsNothing DEF RestPcs
<1>6. QED BY <1>3, <1>4, <1>5 DEF rec

LEMMA PlainRestFits ==
    ASSUME LegacyInv, NEW p \in Procs, exec[p].pc # "idle", NEW pc \in RestPcs
    PROVE  LET rec == Rest(p, pc) IN
           /\ rec \in Activity /\ Fits(p, rec) /\ ~FollowsV4(rec) /\ Resting(rec)
           /\ rec.attached = exec[p].attached /\ rec.job = exec[p].job
<1> DEFINE rec == Rest(p, pc)
<1>1. p \in Actors /\ exec[p].job \in JobIds BY ProcsAreNoClients, DeliveryHasAJob
<1>2. exec[p].attached \in BOOLEAN /\ exec[p].job \in JobIds /\ pc \in Pcs
  BY <1>1, ActorIsTyped DEF RestPcs, Pcs
<1>3. rec \in Activity /\ rec.attached = exec[p].attached /\ rec.job = exec[p].job /\ rec.pc = pc
  BY <1>2, RestIsAnActivity, RestIs
<1>4. Resting(rec) BY RestIs, NoPayloadIsAPayload DEF Resting, RestPcs, BodyPcs
<1> HIDE DEF rec
<1>5. Fits(p, rec) /\ ~FollowsV4(rec)
  BY <1>2, <1>3, <1>4, RestingFits, RestingFollowsNothing DEF RestPcs
<1>6. QED BY <1>3, <1>4, <1>5 DEF rec

LEMMA DoneFits ==
    ASSUME LegacyInv, NEW c \in Clients
    PROVE  LET rec == Rest(c, "done") IN
           /\ rec \in Activity /\ Fits(c, rec) /\ ~FollowsV4(rec) /\ Resting(rec) /\ ~rec.attached
<1> DEFINE rec == Rest(c, "done")
<1>1. c \in Actors /\ c \notin Procs BY ProcsAreNoClients
<1>2. exec[c].job = NoJob /\ exec[c].attached = FALSE /\ exec[c].job \in JobIds \cup {NoJob}
      /\ exec[c].attached \in BOOLEAN /\ "done" \in Pcs
  BY <1>1, ActorIsTyped DEF ClientShape, Pcs
<1>3. rec \in Activity /\ rec.attached = exec[c].attached /\ rec.job = exec[c].job
  BY <1>2, RestIsAnActivity, RestIs
<1>4. Resting(rec) BY RestIs, NoPayloadIsAPayload DEF Resting, BodyPcs
<1>5. rec.pc = "done" BY RestIs
<1> HIDE DEF rec
<1>6. Fits(c, rec)
  BY <1>1, <1>2, <1>3, <1>4, <1>5 DEF Fits, Shape, ClientShape, Resting, DeliveryShape
<1>7. QED BY <1>2, <1>3, <1>4, <1>6, RestingFollowsNothing DEF rec

LEMMA ThrownFits ==
    ASSUME LegacyInv, NEW a \in Actors, exec[a].pc # "idle",
           NEW error \in {"none", "retryable", "permanent"}
    PROVE  LET rec == Thrown(a, error) IN
           /\ rec \in Activity /\ Fits(a, rec) /\ ~FollowsV4(rec) /\ Resting(rec)
           /\ rec.attached => exec[a].attached
           /\ rec.job = exec[a].job
<1>1. CASE a \in Clients BY <1>1, DoneFits, RestIs DEF Thrown
<1>2. CASE a \notin Clients
  <2>1. a \in Procs BY <1>2 DEF Actors
  <2>2. CASE exec[a].giving
    <3>1. Thrown(a, error) = Rest(a, "rejected") /\ "rejected" \in RestPcs
      BY <1>2, <2>2 DEF Thrown, RestPcs
    <3>2. QED BY <2>1, <3>1, PlainRestFits
  <2>3. CASE ~exec[a].giving
    <3>1. Thrown(a, error) = Erring(a, "release", error) /\ "release" \in RestPcs
      BY <1>2, <2>3 DEF Thrown, RestPcs, Erring
    <3>2. QED BY <2>1, <3>1, RestFits
  <2>4. QED BY <2>2, <2>3
<1>3. QED BY <1>1, <1>2

\* A body goes on.
LEMMA BodyFits ==
    ASSUME NEW p \in Procs, NEW rec \in Activity, rec.job \in JobIds,
           rec.pc \in PcsOf(Stage(rec)), OpFits(rec), rec.script = <<>>, ~rec.giving
    PROVE  Fits(p, rec)
<1>1. p \notin Clients /\ rec.job # NoJob BY ProcsAreNoClients, StageIsOfABody
<1>2. rec.pc \in BodyPcs BY DEF PcsOf, BodyPcs
<1>3. QED BY <1>1, <1>2 DEF Fits, Shape, DeliveryShape, BodyPcs

\* A delivery comes to its end.
LEMMA ThenFits ==
    ASSUME LegacyInv, NEW p \in Procs, exec[p].pc # "idle", NEW copy \in Payload, NEW script,
           script \in Seq(Ends \cup After(Stage(exec[p]))), EndsOnce(script)
    PROVE  LET rec == Then(p, script, copy) IN
           /\ rec \in Activity /\ Fits(p, rec)
           /\ rec.attached = exec[p].attached /\ rec.job = exec[p].job
           /\ rec.pc = "script" /\ rec.script = script /\ rec.copy = copy
           /\ ~rec.giving /\ rec.op = NoOperation /\ rec.answer = "none"
           /\ FollowsV4(rec) => copy.repair \/ Stage(exec[p]) \in {"FINAL_QA_RUNNING", "V4_GENERATING"}
<1> DEFINE rec == Then(p, script, copy)
<1>1. p \in Actors /\ p \notin Clients BY ProcsAreNoClients
<1>2. /\ exec[p].attached \in BOOLEAN /\ exec[p].job \in JobIds /\ exec[p].job # NoJob
      /\ exec[p].job \in JobIds \cup {NoJob}
  BY <1>1, ActorIsTyped, DeliveryHasAJob, StageIsOfABody
<1>3. /\ rec.attached = exec[p].attached /\ rec.job = exec[p].job
      /\ rec.pc = "script" /\ rec.script = script /\ rec.copy = copy
      /\ ~rec.giving /\ rec.op = NoOperation /\ rec.answer = "none"
  BY DEF Then, Rest, Idle
<1>4. Stage(rec) = Stage(exec[p]) /\ Allowed(rec) = Ends \cup After(Stage(exec[p]))
  BY <1>3 DEF Stage, Allowed
<1>5. script \in Seq(Instructions)
  <2>1. Stage(exec[p]) \in BodyStages BY DeliveryHasAJob
  <2>2. Ends \cup After(Stage(exec[p])) \subseteq Instructions
    BY <2>1, AfterIsInstructions DEF Ends, Instructions
  <2>3. QED BY <2>2, LongerSequences
<1>6. rec \in Activity BY <1>2, <1>5, IdleFits DEF Then, Rest, Activity, Pcs
<1> HIDE DEF rec
<1>7. Fits(p, rec) BY <1>1, <1>2, <1>3, <1>4 DEF Fits, Shape, DeliveryShape, BodyPcs
<1>8. FollowsV4(rec) => copy.repair \/ Stage(exec[p]) \in {"FINAL_QA_RUNNING", "V4_GENERATING"}
  BY <1>3, <1>4 DEF FollowsV4, NoOperation, Repair
<1>9. QED BY <1>3, <1>6, <1>7, <1>8 DEF rec

-----------------------------------------------------------------------------
(* The steps of the bodies.                                                 *)

LEMMA InBody ==
    ASSUME LegacyInv, NEW p \in Procs, exec[p].pc \in BodyPcs
    PROVE  /\ p \in Actors /\ exec[p].pc # "idle" /\ exec[p].job \in JobIds
           /\ exec[p].pc \in PcsOf(Stage(exec[p])) /\ OpFits(exec[p])
           /\ exec[p].script = <<>> /\ ~exec[p].giving
           /\ Stage(exec[p]) \in BodyStages /\ StageAt(p) = Stage(exec[p])
           /\ exec[p] \in Activity /\ exec[p].copy \in Payload
           /\ exec[p].attached \in BOOLEAN
           /\ Stage(exec[p]) = "FINAL_QA_RUNNING" => 4 \in versions
           /\ exec[p].op = Repair => 4 \in versions
           /\ exec[p].copy.repair => 4 \in versions
           /\ Stage(exec[p]) = "V4_GENERATING" /\ exec[p].pc \in Finalizing
                => 4 \in versions
<1>1. p \in Actors /\ exec[p].pc # "idle" /\ exec[p].pc \notin {"script", "enqueue"}
  BY ProcsAreNoClients DEF BodyPcs
<1>2. Shape(exec[p]) /\ (FollowsV4(exec[p]) => 4 \in versions) BY <1>1, ActorIsTyped
<1>3. exec[p].script = <<>> /\ ~exec[p].giving BY <1>1, <1>2 DEF Shape
<1>4. exec[p].pc \in PcsOf(Stage(exec[p])) /\ OpFits(exec[p]) BY <1>2 DEF Shape
<1>5. exec[p] \in Activity /\ exec[p].copy \in Payload /\ exec[p].attached \in BOOLEAN
  BY <1>1, ActorIsTyped
<1>6. /\ exec[p].job \in JobIds /\ Stage(exec[p]) \in BodyStages /\ StageAt(p) = Stage(exec[p])
  BY <1>1, DeliveryHasAJob
<1>7. /\ Stage(exec[p]) = "FINAL_QA_RUNNING" => 4 \in versions
      /\ exec[p].op = Repair => 4 \in versions
      /\ exec[p].copy.repair => 4 \in versions
      /\ Stage(exec[p]) = "V4_GENERATING" /\ exec[p].pc \in Finalizing
           => 4 \in versions
  BY <1>2 DEF FollowsV4
<1>8. QED BY <1>1, <1>3, <1>4, <1>5, <1>6, <1>7

LEMMA BodyGoesOn ==
    ASSUME LegacyInv, NEW p \in Procs, exec[p].pc \in BodyPcs, NEW rec \in Activity, Go(p, rec),
           rec.job = exec[p].job, rec.attached = exec[p].attached, rec.script = <<>>,
           ~rec.giving, rec.copy.repair => exec[p].copy.repair \/ RunFollowsV4,
           rec.pc \in PcsOf(Stage(exec[p])), OpFits(rec), rec.op = Repair => exec[p].op = Repair,
           /\ Stage(exec[p]) = "V4_GENERATING"
           /\ rec.pc \in Finalizing
           => exec[p].pc \in Finalizing \/ 4 \in versions',
           RunGoesOn, jobs' = jobs, RowsTypeOK'
    PROVE  LegacyInv'
<1>1. Stage(rec) = Stage(exec[p]) BY DEF Stage
<1>2. p \in Actors /\ rec.job \in JobIds BY InBody
<1>3. Fits(p, rec) BY <1>1, <1>2, BodyFits
<1>4. ~Ending(rec) /\ exec[p].pc \in BodyPcs BY DEF Ending
<1>5. FollowsV4(rec) => 4 \in versions'
  <2>1. RunFollowsV4 => 4 \in versions BY TypesOfLegacyInv
  <2>2. QED BY <1>1, <1>4, <2>1, InBody DEF FollowsV4
<1>6. QED BY <1>2, <1>3, <1>5, ActorMoves

\* The body ends by throwing.
LEMMA BodyThrows ==
    ASSUME LegacyInv, NEW p \in Procs, exec[p].pc # "idle",
           NEW error \in {"none", "retryable", "permanent"}, Go(p, Thrown(p, error)),
           RunGoesOn, jobs' = jobs, RowsTypeOK'
    PROVE  LegacyInv'
<1>1. p \in Actors BY ProcsAreNoClients
<1> DEFINE rec == Thrown(p, error)
<1>2. /\ rec \in Activity /\ Fits(p, rec) /\ ~FollowsV4(rec)
      /\ rec.attached => exec[p].attached
      /\ rec.job = exec[p].job
  BY <1>1, ThrownFits
<1>3. Go(p, rec) OBVIOUS
<1> HIDE DEF rec
<1>4. QED BY <1>1, <1>2, <1>3, ActorMoves

LEMMA DeliveryRests ==
    ASSUME LegacyInv, NEW p \in Procs, exec[p].pc # "idle", NEW pc \in RestPcs, Go(p, Rest(p, pc)),
           RunGoesOn, jobs' = jobs, RowsTypeOK'
    PROVE  LegacyInv'
<1>1. p \in Actors BY ProcsAreNoClients
<1> DEFINE rec == Rest(p, pc)
<1>2. /\ rec \in Activity /\ Fits(p, rec) /\ ~FollowsV4(rec)
      /\ rec.attached => exec[p].attached
      /\ rec.job = exec[p].job
  BY PlainRestFits
<1>3. Go(p, rec) OBVIOUS
<1> HIDE DEF rec
<1>4. QED BY <1>1, <1>2, <1>3, ActorMoves

\* The body ends with a script.
LEMMA BodyEnds ==
    ASSUME LegacyInv, NEW p \in Procs, exec[p].pc \in BodyPcs, NEW copy \in Payload, NEW script,
           script \in Seq(Ends \cup After(Stage(exec[p]))), EndsOnce(script),
           Go(p, Then(p, script, copy)), copy.repair => 4 \in versions,
           Stage(exec[p]) = "V4_GENERATING" => 4 \in versions,
           RunGoesOn, jobs' = jobs, RowsTypeOK'
    PROVE  LegacyInv'
<1>1. p \in Actors /\ exec[p].pc # "idle" /\ (Stage(exec[p]) = "FINAL_QA_RUNNING" => 4 \in versions)
  BY InBody
<1> DEFINE rec == Then(p, script, copy)
<1>2. /\ rec \in Activity /\ Fits(p, rec)
      /\ rec.attached = exec[p].attached /\ rec.job = exec[p].job
      /\ FollowsV4(rec) => copy.repair \/ Stage(exec[p]) \in {"FINAL_QA_RUNNING", "V4_GENERATING"}
  BY <1>1, ThenFits
<1>3. Go(p, rec) OBVIOUS
<1> HIDE DEF rec
<1>4. FollowsV4(rec) => 4 \in versions' BY <1>1, <1>2
<1>5. QED BY <1>1, <1>2, <1>3, <1>4, ActorMoves

\* What most steps leave alone.
LEMMA RunIsLeftAlone ==
    ASSUME LegacyInv, UNCHANGED <<run, versions>>
    PROVE  RunGoesOn
<1>1. RunFollowsV4' <=> RunFollowsV4 BY DEF RunFollowsV4
<1>2. QED BY <1>1, TypesOfLegacyInv

LEMMA RowsAreLeftAlone ==
    ASSUME LegacyInv, UNCHANGED <<app, rows, faults>> PROVE RowsTypeOK' /\ versions' = versions
BY TypesOfLegacyInv DEF RowsTypeOK, rows

LEMMA CountsKeepsTypes ==
    ASSUME LegacyInv, NEW kind \in {"detached", "crashes", "failures", "expiries"}, NEW bound,
           bound = CASE kind = "detached" -> MaxDetached [] kind = "crashes" -> MaxCrashes
                     [] kind = "failures" -> MaxFailures [] kind = "expiries" -> MaxExpiries,
           Counts(kind, bound)
    PROVE  faults' \in Faults
<1>1. faults \in Faults BY TypesOfLegacyInv DEF RowsTypeOK
<1>2. bound \in Nat BY LegacyAssumption
<1>3. faults[kind] \in 0..bound /\ faults[kind] + 1 \in 0..bound BY <1>1, <1>2 DEF Faults, Counts
<1>4. QED BY <1>1, <1>3 DEF Faults, Counts

LEMMA OpsOfStages ==
    ASSUME NEW stage \in BodyStages, NEW op \in OpsOf(stage)
    PROVE  /\ op \in Operations /\ op # NoOperation
           /\ op[1] = "generate" <=> stage \in GeneratingStages
           /\ op[1] = "audit" <=> stage \in AuditStages
           /\ op[1] = "generate" => op[2] \in 0..RepairVersion /\ (op[2] = RepairVersion => op = Repair)
                                    /\ (op[2] = 4 => stage = "V4_GENERATING")
                                    /\ op = <<"generate", op[2]>>
           /\ stage # "RESEARCH_RUNNING" <=> op[1] # "research"
<1>1. CASE stage \in GeneratingStages
  <2>1. VersionOf[stage] \in 0..4 /\ (VersionOf[stage] = 4 => stage = "V4_GENERATING")
    BY <1>1, StagesOfTables
  <2>2. PICK n \in 0..RepairVersion : op = <<"generate", n>> /\ (n = 4 => stage = "V4_GENERATING")
    BY <1>1, <2>1 DEF OpsOf, Repair, RepairVersion
  <2>3. op \in Operations /\ op[1] = "generate" /\ op[2] = n BY <2>2 DEF Operations
  <2>4. stage \notin AuditStages /\ stage # "RESEARCH_RUNNING"
    BY <1>1 DEF AuditStages, GeneratingStages
  <2>5. QED BY <1>1, <2>2, <2>3, <2>4 DEF NoOperation, Repair
<1>2. CASE stage \in AuditStages
  <2>1. Reviewed[stage] \in 0..3 /\ stage \notin GeneratingStages /\ stage # "RESEARCH_RUNNING"
    BY <1>2, StagesOfTables DEF AuditStages, GeneratingStages
  <2>2. op = <<"audit", Reviewed[stage]>> BY <1>2, <2>1 DEF OpsOf
  <2>3. QED BY <1>2, <2>1, <2>2 DEF Operations, NoOperation
<1>3. CASE stage \in {"FINAL_QA_RUNNING", "RESEARCH_RUNNING", "EVIDENCE_MATCHING_RUNNING"}
  BY <1>3 DEF OpsOf, Operations, NoOperation, AuditStages, GeneratingStages, QaOf, RepairVersion
<1>4. QED BY <1>1, <1>2, <1>3 DEF BodyStages

LEMMA BodyHasAnOperation ==
    ASSUME LegacyInv, NEW p \in Procs, exec[p].pc \in BodyPcs \ {"next", "look"}
    PROVE  exec[p].op \in OpsOf(Stage(exec[p])) /\ exec[p].op \in Operations
<1>1. exec[p].op \in OpsOf(Stage(exec[p])) /\ Stage(exec[p]) \in BodyStages BY InBody DEF OpFits
<1>2. QED BY <1>1, OpsOfStages

\* The body takes its next step, with the same operation and the same copy.
LEMMA BodyMoves ==
    ASSUME LegacyInv, NEW p \in Procs, exec[p].pc \in BodyPcs,
           exec[p].op \in OpsOf(Stage(exec[p])),
           NEW pc \in PcsOf(Stage(exec[p])), pc # "look",
           Go(p, [exec[p] EXCEPT !.pc = pc]),
           /\ Stage(exec[p]) = "V4_GENERATING" /\ pc \in Finalizing
           => exec[p].pc \in Finalizing \/ 4 \in versions',
           RunGoesOn, jobs' = jobs, RowsTypeOK'
    PROVE  LegacyInv'
<1> DEFINE rec == [exec[p] EXCEPT !.pc = pc]
<1>1. exec[p] \in Activity /\ exec[p].script = <<>> /\ ~exec[p].giving BY InBody
<1>2. pc \in Pcs BY DEF PcsOf, Pcs
<1>3. /\ rec \in Activity /\ rec.pc = pc /\ rec.job = exec[p].job /\ rec.attached = exec[p].attached
      /\ rec.script = <<>> /\ ~rec.giving /\ rec.op = exec[p].op /\ rec.copy = exec[p].copy
  BY <1>1, <1>2 DEF Activity
<1>4. Go(p, rec) OBVIOUS
<1> HIDE DEF rec
<1>5. OpFits(rec) BY <1>3 DEF OpFits, Stage
<1>6. rec.pc \in PcsOf(Stage(exec[p])) /\ (rec.op = Repair => exec[p].op = Repair)
      /\ (rec.copy.repair => exec[p].copy.repair \/ RunFollowsV4)
  BY <1>3
<1>7. /\ Stage(exec[p]) = "V4_GENERATING" /\ rec.pc \in Finalizing
      => exec[p].pc \in Finalizing \/ 4 \in versions'
  BY <1>3
<1>8. QED BY <1>3, <1>4, <1>5, <1>6, <1>7, BodyGoesOn

LEMMA ReserveKeepsInv == ASSUME LegacyInv, NEW p \in Procs, Reserve(p) PROVE LegacyInv'
<1> USE DEF Reserve, At
<1>1. exec[p].pc \in BodyPcs /\ exec[p].op \in OpsOf(Stage(exec[p]))
  BY BodyHasAnOperation DEF BodyPcs
<1>2. "backend" \in PcsOf(Stage(exec[p])) BY <1>1, InBody DEF PcsOf
<1>3. RowsTypeOK' BY TypesOfLegacyInv DEF RowsTypeOK
<1>4. RunGoesOn BY RunIsLeftAlone
<1>5. QED BY <1>1, <1>2, <1>3, <1>4, BodyMoves

LEMMA PayloadFields ==
    ASSUME NEW payload \in Payload
    PROVE  /\ payload.claims \in [WorkStages -> Holders] /\ payload.backend \in BOOLEAN
           /\ payload.pending \in ({"generate"} \X (0..RepairVersion)) \cup {NoOperation}
           /\ payload.repair \in BOOLEAN
           /\ [payload EXCEPT !.backend = TRUE] \in Payload
           /\ [payload EXCEPT !.backend = TRUE].repair = payload.repair
           /\ [payload EXCEPT !.pending = NoOperation] \in Payload
           /\ [payload EXCEPT !.pending = NoOperation].repair = payload.repair
           /\ \A n \in 0..RepairVersion :
                 /\ [payload EXCEPT !.pending = <<"generate", n>>] \in Payload
                 /\ [payload EXCEPT !.pending = <<"generate", n>>].repair = payload.repair
BY DEF Payload

LEMMA RunWrites ==
    ASSUME LegacyInv, NEW payload \in Payload, run' = [run EXCEPT !.payload = payload],
           versions' = versions, payload.repair => 4 \in versions
    PROVE  run' \in Run /\ (RunFollowsV4' => 4 \in versions')
<1>1. run \in Run /\ (RunFollowsV4 => 4 \in versions) BY TypesOfLegacyInv
<1>2. run' \in Run /\ run'.stage = run.stage /\ run'.payload = payload BY <1>1 DEF Run
<1>3. RunFollowsV4' => RunFollowsV4 \/ payload.repair BY <1>2 DEF RunFollowsV4
<1>4. QED BY <1>1, <1>2, <1>3

LEMMA PersistBackendKeepsInv == ASSUME LegacyInv, NEW p \in Procs, PersistBackend(p) PROVE LegacyInv'
<1> USE DEF PersistBackend, At
<1>1. exec[p].pc \in BodyPcs /\ exec[p].op \in OpsOf(Stage(exec[p]))
  BY BodyHasAnOperation DEF BodyPcs
<1>2. RowsTypeOK' /\ versions' = versions BY RowsAreLeftAlone
<1>3. run' \in Run /\ (RunFollowsV4' => 4 \in versions')
  <2>1. CASE exec[p].copy.backend BY <1>2, <2>1, RunIsLeftAlone
  <2>2. CASE ~exec[p].copy.backend
    <3>1. exec[p].copy \in Payload /\ (exec[p].copy.repair => 4 \in versions) BY <1>1, InBody
    <3> DEFINE payload == [exec[p].copy EXCEPT !.backend = TRUE]
    <3>2. payload \in Payload /\ (payload.repair => 4 \in versions) BY <3>1, PayloadFields
    <3>3. run' = [run EXCEPT !.payload = payload] BY <2>2
    <3> HIDE DEF payload
    <3>4. QED BY <1>2, <3>2, <3>3, RunWrites
  <2>3. QED BY <2>1, <2>2
<1>4. CASE exec[p].copy.pending = exec[p].op
  <2>1. exec[p].copy.pending \in ({"generate"} \X (0..RepairVersion)) \cup {NoOperation}
    BY <1>1, InBody, PayloadFields
  <2>2. exec[p].op[1] = "generate" BY <1>1, <1>4, <2>1, InBody, OpsOfStages
  <2>3. Stage(exec[p]) \in GeneratingStages BY <1>1, <2>2, OpsOfStages, InBody
  <2>4. "append" \in PcsOf(Stage(exec[p])) BY <2>3 DEF PcsOf
  <2>5. Go(p, [exec[p] EXCEPT !.pc = "append"]) BY <1>4
  <2>6. QED BY <1>1, <1>2, <1>3, <2>4, <2>5, BodyMoves
<1>5. CASE exec[p].copy.pending # exec[p].op
  <2>1. "call" \in PcsOf(Stage(exec[p])) BY <1>1, InBody DEF PcsOf
  <2>2. Go(p, [exec[p] EXCEPT !.pc = "call"]) BY <1>5
  <2>3. QED BY <1>1, <1>2, <1>3, <2>1, <2>2, BodyMoves
<1>6. QED BY <1>4, <1>5

LEMMA CallsKeepsInv == ASSUME LegacyInv, NEW p \in Procs, Calls(p) PROVE LegacyInv'
<1> USE DEF Calls, At
<1>1. /\ exec[p].pc = "call" /\ exec[p].pc \in BodyPcs /\ exec[p].pc # "idle"
      /\ exec[p].op \in OpsOf(Stage(exec[p]))
      /\ exec[p].op \in Operations /\ Stage(exec[p]) \in BodyStages
  BY BodyHasAnOperation, InBody DEF BodyPcs
<1>2. answers \in [Operations -> AllAnswers] BY TypesOfLegacyInv DEF RowsTypeOK
<1>3. answers' \in [Operations -> AllAnswers] BY <1>1, <1>2 DEF Answers, AllAnswers
<1>4. RunGoesOn BY RunIsLeftAlone
<1>5. CASE Go(p, Receives(p)) /\ UNCHANGED faults
  <2> DEFINE rec == Receives(p)
  <2>1. RowsTypeOK' BY <1>3, <1>5, TypesOfLegacyInv DEF RowsTypeOK
  <2>2. exec[p] \in Activity /\ exec[p].script = <<>> /\ ~exec[p].giving BY <1>1, InBody
  <2>3. AfterCall(p) \in PcsOf(Stage(exec[p])) /\ AfterCall(p) \in {"park", "record", "commit"}
    BY <1>1, OpsOfStages DEF AfterCall, PcsOf
  <2>4. AfterCall(p) \in Pcs /\ answers'[exec[p].op] \in AllAnswers BY <1>1, <1>3, <2>3 DEF Pcs
  <2>5. /\ rec \in Activity /\ rec.pc = AfterCall(p) /\ rec.job = exec[p].job
        /\ rec.attached = exec[p].attached
        /\ rec.script = <<>> /\ ~rec.giving /\ rec.op = exec[p].op /\ rec.copy = exec[p].copy
    BY <2>2, <2>4 DEF Receives, Activity
  <2>6. Go(p, rec) BY <1>5
  <2> HIDE DEF rec
  <2>7. OpFits(rec) BY <1>1, <2>3, <2>5 DEF OpFits, Stage
  <2>8. ~(rec.pc \in Finalizing /\ Stage(exec[p]) = "V4_GENERATING")
    BY <1>1, <2>3, <2>5, OpsOfStages DEF AfterCall, GeneratingStages
  <2>9. /\ rec.pc \in PcsOf(Stage(exec[p])) /\ (rec.op = Repair => exec[p].op = Repair)
        /\ (rec.copy.repair => exec[p].copy.repair \/ RunFollowsV4)
    BY <2>3, <2>5
  <2>10. QED BY <1>1, <1>4, <2>1, <2>5, <2>6, <2>7, <2>8, <2>9, BodyGoesOn
<1>6. CASE Go(p, Thrown(p, "retryable")) /\ Counts("failures", MaxFailures)
  <2>1. RowsTypeOK' BY <1>3, <1>6, CountsKeepsTypes, TypesOfLegacyInv DEF RowsTypeOK
  <2>2. QED BY <1>1, <1>4, <1>6, <2>1, BodyThrows
<1>7. QED BY <1>5, <1>6

LEMMA CallThrowsKeepsInv == ASSUME LegacyInv, NEW p \in Procs, CallThrows(p) PROVE LegacyInv'
<1> USE DEF CallThrows, At
<1>1. PICK error \in {"retryable", "permanent"} : Go(p, Thrown(p, error)) OBVIOUS
<1>2. RowsTypeOK' BY CountsKeepsTypes, TypesOfLegacyInv DEF RowsTypeOK, rows
<1>3. RunGoesOn BY RunIsLeftAlone DEF rows
<1>4. QED BY <1>1, <1>2, <1>3, BodyThrows

LEMMA ExtractionThrowsKeepsInv ==
    ASSUME LegacyInv, NEW p \in Procs, ExtractionThrows(p) PROVE LegacyInv'
<1> USE DEF ExtractionThrows, At
<1>1. PICK error \in {"retryable", "permanent"} : Go(p, Thrown(p, error)) OBVIOUS
<1>2. RowsTypeOK' BY CountsKeepsTypes, TypesOfLegacyInv DEF RowsTypeOK, rows
<1>3. RunGoesOn BY RunIsLeftAlone DEF rows
<1>4. QED BY <1>1, <1>2, <1>3, BodyThrows

LEMMA CommitKeepsInv == ASSUME LegacyInv, NEW p \in Procs, Commit(p) PROVE LegacyInv'
<1> USE DEF Commit, At
<1>1. /\ exec[p].pc = "commit" /\ exec[p].pc \in BodyPcs /\ exec[p].pc # "idle"
      /\ exec[p].op \in OpsOf(Stage(exec[p])) /\ Stage(exec[p]) \in BodyStages
      /\ exec[p].op \in Operations
  BY BodyHasAnOperation, InBody DEF BodyPcs
<1>2. RowsTypeOK' BY <1>1, TypesOfLegacyInv DEF RowsTypeOK
<1>3. RunGoesOn BY RunIsLeftAlone
<1>4. CASE ledger[exec[p].op] = "released" BY <1>1, <1>2, <1>3, <1>4, BodyThrows
<1>5. CASE ledger[exec[p].op] # "released"
  <2> DEFINE pc == IF exec[p].op[1] = "generate" THEN "ready" ELSE "judge"
  <2>1. pc \in PcsOf(Stage(exec[p])) /\ pc # "look" BY <1>1, OpsOfStages DEF PcsOf
  <2>2. Go(p, [exec[p] EXCEPT !.pc = pc]) BY <1>5
  <2>3. QED BY <1>1, <1>2, <1>3, <2>1, <2>2, BodyMoves
<1>6. QED BY <1>4, <1>5

LEMMA RecordsKeepInv ==
    ASSUME LegacyInv, NEW p \in Procs, RecordAudit(p) \/ RecordFindings(p) PROVE LegacyInv'
<1> USE DEF RecordAudit, RecordFindings, At
<1>1. /\ exec[p].pc \in {"record", "findings"} /\ exec[p].pc \in BodyPcs
      /\ exec[p].op \in OpsOf(Stage(exec[p]))
  BY BodyHasAnOperation DEF BodyPcs
<1>2. Stage(exec[p]) \in AuditStages BY <1>1, InBody DEF PcsOf
<1>3. RowsTypeOK' BY TypesOfLegacyInv DEF RowsTypeOK
<1>4. RunGoesOn BY RunIsLeftAlone
<1>5. Stage(exec[p]) # "V4_GENERATING" BY <1>2 DEF AuditStages
<1>6. PICK pc \in {"findings", "commit"} : Go(p, [exec[p] EXCEPT !.pc = pc]) OBVIOUS
<1>7. pc \in PcsOf(Stage(exec[p])) /\ pc # "look" BY <1>2 DEF PcsOf, AuditStages, GeneratingStages
<1>8. QED BY <1>1, <1>3, <1>4, <1>5, <1>6, <1>7, BodyMoves

LEMMA LookUpVersionKeepsInv ==
    ASSUME LegacyInv, NEW p \in Procs, LookUpVersion(p) PROVE LegacyInv'
<1> USE DEF LookUpVersion, At
<1>1. /\ exec[p].pc = "look" /\ exec[p].pc \in BodyPcs /\ exec[p].op[1] = "generate" BY DEF BodyPcs
<1>2. exec[p].op \in OpsOf(Stage(exec[p])) /\ Stage(exec[p]) \in BodyStages
  BY <1>1, InBody DEF OpFits, NoOperation
<1>3. Stage(exec[p]) \in GeneratingStages BY <1>1, <1>2, OpsOfStages
<1>4. RowsTypeOK' /\ versions' = versions BY RowsAreLeftAlone
<1>5. run' \in Run /\ (RunFollowsV4' => 4 \in versions') BY <1>4, RunIsLeftAlone
<1> DEFINE pc == IF Number(p) \in versions THEN "point" ELSE "reserve"
<1>6. pc \in PcsOf(Stage(exec[p])) /\ pc # "look" /\ Go(p, [exec[p] EXCEPT !.pc = pc])
  BY <1>3 DEF PcsOf
<1>7. Stage(exec[p]) = "V4_GENERATING" /\ pc = "point" => 4 \in versions
  <2> SUFFICES ASSUME Stage(exec[p]) = "V4_GENERATING", Number(p) \in versions
               PROVE  4 \in versions
    OBVIOUS
  <2>1. exec[p].op = <<"generate", 4>> \/ exec[p].op = Repair
    BY <1>2, Tables DEF OpsOf, GeneratingStages
  <2>2. QED BY <1>1, <2>1, InBody DEF Number
<1>8. QED BY <1>1, <1>2, <1>4, <1>5, <1>6, <1>7, BodyMoves

LEMMA ParkKeepsInv == ASSUME LegacyInv, NEW p \in Procs, Park(p) PROVE LegacyInv'
<1> USE DEF Park, At
<1>1. /\ exec[p].pc = "park" /\ exec[p].pc \in BodyPcs
      /\ exec[p].op \in OpsOf(Stage(exec[p])) /\ Stage(exec[p]) \in BodyStages
  BY BodyHasAnOperation, InBody DEF BodyPcs
<1>2. Stage(exec[p]) \in GeneratingStages BY <1>1, InBody DEF PcsOf
<1>3. RowsTypeOK' /\ versions' = versions BY RowsAreLeftAlone
<1>4. exec[p].copy \in Payload /\ (exec[p].copy.repair => 4 \in versions) BY <1>1, InBody
<1>5. PICK n \in 0..RepairVersion : exec[p].op = <<"generate", n>> BY <1>1, <1>2, OpsOfStages
<1> DEFINE payload == [exec[p].copy EXCEPT !.pending = <<"generate", n>>]
<1>6. payload \in Payload /\ (payload.repair => 4 \in versions) BY <1>4, PayloadFields
<1>7. run' = [run EXCEPT !.payload = payload] BY <1>5
<1> HIDE DEF payload
<1>8. run' \in Run /\ (RunFollowsV4' => 4 \in versions') BY <1>3, <1>6, <1>7, RunWrites
<1>9. "append" \in PcsOf(Stage(exec[p])) BY <1>2 DEF PcsOf
<1>10. QED BY <1>1, <1>3, <1>8, <1>9, BodyMoves

\* The number is V4's only in V4's body, and the repair's only after V4.
LEMMA AppendVersionKeepsInv ==
    ASSUME LegacyInv, NEW p \in Procs, AppendVersion(p) PROVE LegacyInv'
<1> USE DEF AppendVersion, At
<1>1. /\ exec[p].pc = "append" /\ exec[p].pc \in BodyPcs
      /\ exec[p].op \in OpsOf(Stage(exec[p])) /\ Stage(exec[p]) \in BodyStages
  BY BodyHasAnOperation, InBody DEF BodyPcs
<1>2. Stage(exec[p]) \in GeneratingStages BY <1>1, InBody DEF PcsOf
<1>3. Number(p) \in 0..RepairVersion /\ (Number(p) = RepairVersion => exec[p].op = Repair)
  BY <1>1, <1>2, OpsOfStages DEF Number
<1>4. RowsTypeOK' BY <1>3, TypesOfLegacyInv DEF RowsTypeOK
<1>5. run' \in Run /\ versions \subseteq versions' /\ (RunFollowsV4 => 4 \in versions)
  BY TypesOfLegacyInv
<1> DEFINE pc == IF Number(p) = RepairVersion THEN "reread" ELSE "point"
<1>6. exec[p].op = Repair => 4 \in versions BY <1>1, InBody
<1>7. RunFollowsV4' => RunFollowsV4 \/ Number(p) = RepairVersion BY DEF RunFollowsV4
<1>8. RunFollowsV4' => 4 \in versions' BY <1>3, <1>5, <1>6, <1>7
<1>9. Stage(exec[p]) = "V4_GENERATING" => 4 \in versions'
  <2> SUFFICES ASSUME Stage(exec[p]) = "V4_GENERATING" PROVE 4 \in versions'
    OBVIOUS
  <2>1. exec[p].op = <<"generate", 4>> \/ exec[p].op = Repair
    BY <1>1, Tables DEF OpsOf, GeneratingStages
  <2>2. QED BY <1>6, <2>1 DEF Number
<1>10. pc \in PcsOf(Stage(exec[p])) /\ pc # "look" /\ Go(p, [exec[p] EXCEPT !.pc = pc])
  BY <1>2 DEF PcsOf
<1> HIDE DEF pc
<1>11. QED BY <1>1, <1>4, <1>5, <1>8, <1>9, <1>10, BodyMoves

LEMMA RereadRunKeepsInv == ASSUME LegacyInv, NEW p \in Procs, RereadRun(p) PROVE LegacyInv'
<1> USE DEF RereadRun, At
<1>1. /\ exec[p].pc = "reread" /\ exec[p].pc \in BodyPcs /\ exec[p] \in Activity
      /\ exec[p].op \in OpsOf(Stage(exec[p])) /\ exec[p].script = <<>> /\ ~exec[p].giving
  BY BodyHasAnOperation, InBody DEF BodyPcs
<1>2. Stage(exec[p]) \in GeneratingStages BY <1>1, InBody DEF PcsOf
<1>3. RowsTypeOK' /\ versions' = versions BY RowsAreLeftAlone
<1>4. run' \in Run /\ (RunFollowsV4' => 4 \in versions') BY <1>3, RunIsLeftAlone
<1>5. run.payload \in Payload /\ (run.payload.repair => RunFollowsV4) /\ "note" \in Pcs
  BY TypesOfLegacyInv DEF Run, RunFollowsV4, Pcs
<1> DEFINE rec == [exec[p] EXCEPT !.pc = "note", !.copy = run.payload]
<1>6. /\ rec \in Activity /\ rec.pc = "note" /\ rec.job = exec[p].job
      /\ rec.attached = exec[p].attached /\ rec.script = <<>> /\ ~rec.giving
      /\ rec.op = exec[p].op /\ rec.copy = run.payload
  BY <1>1, <1>5 DEF Activity
<1>7. Go(p, rec) OBVIOUS
<1> HIDE DEF rec
<1>8. OpFits(rec) /\ rec.pc \in PcsOf(Stage(exec[p])) /\ exec[p].pc \in Finalizing
  BY <1>1, <1>2, <1>6 DEF OpFits, Stage, PcsOf
<1>9. QED BY <1>1, <1>3, <1>4, <1>5, <1>6, <1>7, <1>8, BodyGoesOn

LEMMA NoteVersionKeepsInv == ASSUME LegacyInv, NEW p \in Procs, NoteVersion(p) PROVE LegacyInv'
<1> USE DEF NoteVersion, At
<1>1. /\ exec[p].pc = "note" /\ exec[p].pc \in BodyPcs /\ exec[p].pc \in Finalizing
      /\ exec[p].op \in OpsOf(Stage(exec[p])) /\ exec[p].copy \in Payload
      /\ exec[p].copy.repair => 4 \in versions
  BY BodyHasAnOperation, InBody DEF BodyPcs
<1>2. "point" \in PcsOf(Stage(exec[p])) BY <1>1, InBody DEF PcsOf
<1>3. RowsTypeOK' /\ versions' = versions BY RowsAreLeftAlone
<1>4. run' \in Run /\ (RunFollowsV4' => 4 \in versions') BY <1>1, <1>3, RunWrites
<1>5. QED BY <1>1, <1>2, <1>3, <1>4, BodyMoves

LEMMA SetCurrentKeepsInv == ASSUME LegacyInv, NEW p \in Procs, SetCurrent(p) PROVE LegacyInv'
<1> USE DEF SetCurrent, At
<1>1. /\ exec[p].pc = "point" /\ exec[p].pc \in BodyPcs
      /\ exec[p].op \in OpsOf(Stage(exec[p])) /\ Stage(exec[p]) \in BodyStages
  BY BodyHasAnOperation, InBody DEF BodyPcs
<1>2. Stage(exec[p]) \in GeneratingStages BY <1>1, InBody DEF PcsOf
<1>3. Number(p) \in 0..RepairVersion BY <1>1, <1>2, OpsOfStages DEF Number
<1>4. RowsTypeOK' BY <1>3, TypesOfLegacyInv DEF RowsTypeOK, RepairVersion, NoVersion
<1>5. RunGoesOn BY RunIsLeftAlone
<1>6. "commit" \in PcsOf(Stage(exec[p])) BY <1>2 DEF PcsOf
<1>7. QED BY <1>1, <1>4, <1>5, <1>6, BodyMoves

-----------------------------------------------------------------------------
(* The ends of the bodies.                                                  *)

LEMMA ExtractKeepsInv == ASSUME LegacyInv, NEW p \in Procs, Extract(p) PROVE LegacyInv'
<1> USE DEF Extract, At
<1>1. exec[p].pc = "extract" /\ exec[p].pc \in BodyPcs /\ exec[p].pc # "idle"
      /\ exec[p].op \in OpsOf(Stage(exec[p])) /\ Stage(exec[p]) \in BodyStages
  BY BodyHasAnOperation, InBody DEF BodyPcs
<1>2. Stage(exec[p]) = "RESEARCH_RUNNING" BY <1>1, InBody DEF PcsOf
<1>3. RowsTypeOK' BY TypesOfLegacyInv DEF RowsTypeOK, Stages, ReviewStages
<1>4. RunGoesOn BY RunIsLeftAlone
<1>5. CASE Go(p, GoesOn(p))
  <2>1. CASE app = "RESEARCH_REVIEW_REQUIRED"
    <3>1. Go(p, Rest(p, "resolved")) /\ "resolved" \in RestPcs BY <1>5, <2>1 DEF GoesOn, RestPcs
    <3>2. QED BY <1>1, <1>3, <1>4, <3>1, DeliveryRests
  <2>2. CASE app # "RESEARCH_REVIEW_REQUIRED"
    <3>1. Go(p, [exec[p] EXCEPT !.pc = "reserve"]) BY <1>5, <2>2 DEF GoesOn
    <3>2. "reserve" \in PcsOf(Stage(exec[p])) BY DEF PcsOf
    <3>3. QED BY <1>1, <1>3, <1>4, <3>1, <3>2, BodyMoves
  <2>3. QED BY <2>1, <2>2
<1>6. CASE Go(p, Pauses(p))
  <2> DEFINE script == << <<"pause", "RESEARCH_REVIEW_REQUIRED">>, <<"end", "resolved">> >>
             S == Ends \cup After(Stage(exec[p]))
  <2>1. <<"pause", "RESEARCH_REVIEW_REQUIRED">> \in S /\ <<"end", "resolved">> \in S
        /\ <<"pause", "RESEARCH_REVIEW_REQUIRED">> \notin Last /\ <<"end", "resolved">> \in Last
    BY <1>2 DEF After, Ends, Last, FrontStages, GeneratingStages, AuditStages
  <2> HIDE DEF S
  <2>2. script \in Seq(S) /\ EndsOnce(script) BY <2>1, ScriptOfTwo
  <2>3. Go(p, Then(p, script, NoPayload)) BY <1>6 DEF Pauses
  <2>4. Stage(exec[p]) # "V4_GENERATING" BY <1>2
  <2> HIDE DEF script
  <2>5. QED BY <1>1, <1>3, <1>4, <2>2, <2>3, <2>4, BodyEnds, NoPayloadIsAPayload DEF S
<1>7. QED BY <1>5, <1>6

LEMMA BecomesReadyKeepsInv ==
    ASSUME LegacyInv, NEW p \in Procs, BecomesReady(p) PROVE LegacyInv'
<1> USE DEF BecomesReady, At
<1>1. /\ exec[p].pc = "ready" /\ exec[p].pc \in BodyPcs
      /\ exec[p].op \in OpsOf(Stage(exec[p])) /\ Stage(exec[p]) \in BodyStages
      /\ StageAt(p) = Stage(exec[p])
  BY BodyHasAnOperation, InBody DEF BodyPcs
<1>2. Stage(exec[p]) \in GeneratingStages BY <1>1, InBody DEF PcsOf
<1>3. RowsTypeOK' /\ versions' = versions BY RowsAreLeftAlone
<1>4. run' \in Run /\ (RunFollowsV4' => 4 \in versions') BY <1>3, RunIsLeftAlone
<1> DEFINE cleared == [run.payload EXCEPT !.pending = NoOperation]
<1>5. cleared \in Payload /\ (cleared.repair <=> run.payload.repair)
  BY TypesOfLegacyInv, PayloadFields DEF Run
<1>6. /\ cleared.repair => RunFollowsV4 /\ 4 \in versions
      /\ Stage(exec[p]) = "V4_GENERATING" => 4 \in versions
  BY <1>1, <1>5, TypesOfLegacyInv, InBody DEF RunFollowsV4
<1>7. CASE run.stage = StageAt(p)
  <2> DEFINE script == << <<"put", ReadyOf[VersionOf[StageAt(p)]]>>, <<"next", "stage">> >>
             S == Ends \cup After(Stage(exec[p]))
  <2>1. <<"put", ReadyOf[VersionOf[StageAt(p)]]>> \in S /\ <<"next", "stage">> \in S
        /\ <<"put", ReadyOf[VersionOf[StageAt(p)]]>> \notin Last /\ <<"next", "stage">> \in Last
    BY <1>1, <1>2 DEF After, Ends, Last
  <2> HIDE DEF S
  <2>2. script \in Seq(S) /\ EndsOnce(script) BY <2>1, ScriptOfTwo
  <2>3. Go(p, Then(p, script, cleared)) BY <1>7
  <2> HIDE DEF script, cleared
  <2>4. QED BY <1>1, <1>3, <1>4, <1>5, <1>6, <2>2, <2>3, BodyEnds DEF S
<1>8. CASE run.stage # StageAt(p)
  <2> DEFINE rec == [exec[p] EXCEPT !.pc = "next", !.copy = cleared]
  <2>1. Go(p, rec) BY <1>8
  <2>2. exec[p] \in Activity /\ exec[p].script = <<>> /\ ~exec[p].giving /\ "next" \in Pcs
    BY <1>1, InBody DEF Pcs
  <2> HIDE DEF cleared
  <2>3. /\ rec \in Activity /\ rec.pc = "next" /\ rec.job = exec[p].job
        /\ rec.attached = exec[p].attached
        /\ rec.script = <<>> /\ ~rec.giving /\ rec.op = exec[p].op /\ rec.copy = cleared
    BY <1>5, <2>2 DEF Activity
  <2> HIDE DEF rec
  <2>4. OpFits(rec) /\ rec.pc \in PcsOf(Stage(exec[p])) BY <1>1, <1>2, <2>3 DEF OpFits, Stage, PcsOf
  <2>5. (rec.op = Repair => exec[p].op = Repair) /\ (rec.copy.repair => RunFollowsV4) BY <1>6, <2>3
  <2>6. QED BY <1>1, <1>3, <1>4, <1>6, <2>1, <2>3, <2>4, <2>5, BodyGoesOn
<1>9. QED BY <1>7, <1>8

LEMMA StartNextKeepsInv == ASSUME LegacyInv, NEW p \in Procs, StartNext(p) PROVE LegacyInv'
<1> USE DEF StartNext, At
<1>1. /\ exec[p].pc = "next" /\ exec[p].pc \in BodyPcs /\ Stage(exec[p]) \in BodyStages
      /\ StageAt(p) = Stage(exec[p]) /\ exec[p].copy \in Payload
  BY InBody DEF BodyPcs
<1>2. Stage(exec[p]) \in GeneratingStages BY <1>1, InBody DEF PcsOf
<1>3. RowsTypeOK' /\ versions' = versions BY RowsAreLeftAlone
<1>4. /\ exec[p].copy.repair => 4 \in versions
      /\ Stage(exec[p]) = "V4_GENERATING" => 4 \in versions
      /\ run.payload \in Payload /\ run \in Run
      /\ run.payload.repair => 4 \in versions
  BY <1>1, InBody, TypesOfLegacyInv DEF RunFollowsV4, Run
<1> DEFINE n == VersionOf[StageAt(p)]
           S == Ends \cup After(Stage(exec[p]))
<1>5. \A kind \in {"put", "app"}, stage \in {ReadyOf[n], NextOf[n]} :
          <<kind, stage>> \in S /\ <<kind, stage>> \notin Last
  BY <1>1, <1>2 DEF After, Ends, Last
<1>6. <<"end", "resolved">> \in S /\ <<"end", "resolved">> \in Last BY DEF Ends, Last
<1> HIDE DEF S
<1>7. CASE run.stage = ReadyOf[n]
  <2> DEFINE script == << <<"put", NextOf[n]>>, <<"app", NextOf[n]>>, <<"end", "resolved">> >>
  <2>1. script \in Seq(S) /\ EndsOnce(script) BY <1>5, <1>6, ScriptOfThree
  <2>2. Merged(p) \in Payload
    <3>1. /\ NoClaims \in [WorkStages -> Holders]
          /\ \A s \in WorkStages : exec[p].copy.claims[s] \in Holders /\ run.payload.claims[s] \in Holders
          /\ exec[p].copy.backend \in BOOLEAN /\ run.payload.backend \in BOOLEAN
          /\ exec[p].copy.repair \in BOOLEAN /\ run.payload.repair \in BOOLEAN
      BY <1>1, <1>4, PayloadFields DEF NoClaims, Holders
    <3>2. QED BY <3>1 DEF Merged, Payload
  <2>3. Merged(p).repair => 4 \in versions BY <1>4 DEF Merged
  <2>4. Go(p, Then(p, script, Merged(p))) /\ UNCHANGED run BY <1>7
  <2>5. run' \in Run /\ (RunFollowsV4' => 4 \in versions') BY <1>3, <2>4, RunIsLeftAlone
  <2> HIDE DEF script, n
  <2>6. QED BY <1>1, <1>3, <1>4, <2>1, <2>2, <2>3, <2>4, <2>5, BodyEnds DEF S
<1>8. CASE run.stage # ReadyOf[n]
  <2> DEFINE end == IF run.stage = NextOf[n] THEN NextOf[n] ELSE ReadyOf[n]
             script == << <<"app", end>>, <<"end", "resolved">> >>
  <2>1. script \in Seq(S) /\ EndsOnce(script) BY <1>5, <1>6, ScriptOfTwo
  <2>2. Go(p, Then(p, script, NoPayload)) BY <1>8
  <2>3. run' \in Run /\ (RunFollowsV4' => 4 \in versions')
    <3>1. CASE run.payload.pending # NoOperation
      <4>1. run' = [run EXCEPT !.payload = exec[p].copy] BY <1>8, <3>1
      <4>2. QED BY <1>1, <1>3, <1>4, <4>1, RunWrites
    <3>2. CASE run.payload.pending = NoOperation
      <4>1. UNCHANGED run BY <1>8, <3>2
      <4>2. QED BY <1>3, <4>1, RunIsLeftAlone
    <3>3. QED BY <3>1, <3>2
  <2> HIDE DEF script, n, end
  <2>4. QED BY <1>1, <1>3, <1>4, <2>1, <2>2, <2>3, BodyEnds, NoPayloadIsAPayload DEF S
<1>9. QED BY <1>7, <1>8

LEMMA ResumesKeepsInv == ASSUME LegacyInv, NEW p \in Procs, Resumes(p) PROVE LegacyInv'
<1> USE DEF Resumes, At
<1>1. p \in Actors /\ exec[p].pc = "script" /\ exec[p].pc # "idle" BY ProcsAreNoClients
<1>2. /\ Shape(exec[p]) /\ exec[p] \in Activity /\ (FollowsV4(exec[p]) => 4 \in versions)
      /\ exec[p].job \in JobIds /\ Stage(exec[p]) \in BodyStages
  BY <1>1, ActorIsTyped, DeliveryHasAJob
<1>3. EndsOnce(exec[p].script) /\ exec[p].script \in Seq(Allowed(exec[p]))
      /\ exec[p].op = NoOperation /\ exec[p].answer = "none"
  BY <1>1, <1>2 DEF Shape, BodyPcs
<1>4. Head(exec[p].script) \in Allowed(exec[p]) /\ exec[p].script # <<>>
  BY <1>3, RestOfAScript DEF EndsOnce
<1>5. ~exec[p].giving /\ Stage(exec[p]) \in GeneratingStages
  <2>1. Head(exec[p].script) \notin Ends \cup Givings BY DEF Ends, Givings
  <2>2. ~exec[p].giving /\ Head(exec[p].script) \in After(Stage(exec[p])) BY <1>4, <2>1 DEF Allowed
  <2>3. QED BY <1>2, <2>2, AfterIsInstructions
<1> DEFINE rec == [exec[p] EXCEPT !.pc = "next", !.script = <<>>]
<1>6. /\ rec \in Activity /\ rec.pc = "next" /\ rec.job = exec[p].job
      /\ rec.attached = exec[p].attached /\ rec.script = <<>> /\ ~rec.giving
      /\ rec.op = NoOperation /\ rec.copy = exec[p].copy
  <2>1. "next" \in Pcs /\ <<>> \in Seq(Instructions) BY DEF Pcs
  <2>2. QED BY <1>2, <1>3, <1>5, <2>1 DEF Activity
<1>7. Go(p, rec) OBVIOUS
<1> HIDE DEF rec
<1>8. Fits(p, rec)
  <2>1. rec.pc \in PcsOf(Stage(rec)) /\ OpFits(rec) BY <1>5, <1>6 DEF PcsOf, Stage, OpFits
  <2>2. QED BY <1>2, <1>6, <2>1, BodyFits
<1>9. FollowsV4(rec) => 4 \in versions
  <2>1. Ending(exec[p]) BY <1>4, <1>5 DEF Ending
  <2>2. Stage(rec) = Stage(exec[p]) /\ rec.op # Repair BY <1>6 DEF Stage, NoOperation, Repair
  <2>3. QED BY <1>2, <1>6, <2>1, <2>2 DEF FollowsV4
<1>10. RowsTypeOK' /\ versions' = versions BY RowsAreLeftAlone
<1>11. run' \in Run /\ (RunFollowsV4' => 4 \in versions') BY <1>10, RunIsLeftAlone
<1>12. QED BY <1>1, <1>6, <1>7, <1>8, <1>9, <1>10, <1>11, ActorMoves

LEMMA QaScripts ==
    ASSUME NEW stage, stage = "FINAL_QA_RUNNING"
    PROVE  LET S == Ends \cup After(stage) IN
           /\ FailedQa \in Seq(S) /\ EndsOnce(FailedQa)
           /\ ReadyScript \in Seq(S) /\ EndsOnce(ReadyScript)
           /\ LET script == << <<"put", "V4_GENERATING">>, <<"app", "V4_GENERATING">>,
                                <<"end", "resolved">> >> IN
              script \in Seq(S) /\ EndsOnce(script)
<1> DEFINE S == Ends \cup After(stage)
<1>1. \A kind \in {"put", "app"}, t \in {"FINAL_READY", "FINAL_QA_FAILED", "V4_GENERATING"} :
          <<kind, t>> \in S /\ <<kind, t>> \notin Last
  BY DEF After, Ends, Last, GeneratingStages, AuditStages
<1> DEFINE render == <<"render", "documents">>
           script == << <<"put", "V4_GENERATING">>, <<"app", "V4_GENERATING">>,
                        <<"end", "resolved">> >>
<1>7. render \in S /\ render \notin Last BY DEF After, Ends, Last, GeneratingStages, AuditStages
<1>2. \A how \in {"resolved", "permanent"} : <<"end", how>> \in S /\ <<"end", how>> \in Last
  BY DEF Ends, Last
<1> HIDE DEF S
<1>3. FailedQa \in Seq(S) /\ EndsOnce(FailedQa) BY <1>1, <1>2, ScriptOfThree DEF FailedQa
<1>4. script \in Seq(S) /\ EndsOnce(script) BY <1>1, <1>2, ScriptOfThree
<1>5. ReadyScript \in Seq(S) /\ EndsOnce(ReadyScript)
  BY <1>1, <1>2, <1>7, ScriptOfFour DEF ReadyScript
<1>6. QED BY <1>3, <1>4, <1>5 DEF S

LEMMA LatestIsOfQa ==
    ASSUME versions \subseteq 0..RepairVersion, 4 \in versions
    PROVE  /\ Latest = IF RepairVersion \in versions THEN RepairVersion ELSE 4
           /\ QaOf(Latest) \in {QaOf(4), QaOf(RepairVersion)}
<1> DEFINE n == IF RepairVersion \in versions THEN RepairVersion ELSE 4
<1>1. n \in versions /\ \A m \in versions : m <= n BY DEF RepairVersion
<1>2. \A k \in versions : (\A m \in versions : m <= k) => k = n BY <1>1 DEF RepairVersion
<1>3. Latest = n BY <1>1, <1>2 DEF Latest
<1>4. QED BY <1>3

LEMMA CheckLocallyKeepsInv == ASSUME LegacyInv, NEW p \in Procs, CheckLocally(p) PROVE LegacyInv'
<1> USE DEF CheckLocally, At
<1>1. /\ exec[p].pc = "look" /\ exec[p].pc \in BodyPcs /\ exec[p].op = NoOperation
      /\ exec[p] \in Activity /\ exec[p].script = <<>> /\ ~exec[p].giving
      /\ exec[p].copy \in Payload /\ Stage(exec[p]) \in BodyStages
      /\ exec[p].copy.repair => 4 \in versions
  BY InBody DEF BodyPcs
<1>2. Stage(exec[p]) = "FINAL_QA_RUNNING" BY <1>1, InBody, OpsOfStages DEF OpFits
<1>3. 4 \in versions BY <1>1, <1>2, InBody
<1>4. RowsTypeOK' /\ versions' = versions /\ versions \subseteq 0..RepairVersion
  BY RowsAreLeftAlone, TypesOfLegacyInv DEF RowsTypeOK
<1>5. run' \in Run /\ (RunFollowsV4' => 4 \in versions') BY <1>4, RunIsLeftAlone
<1>6. CASE Go(p, [exec[p] EXCEPT !.pc = "reserve", !.op = OperationAt("FINAL_QA_RUNNING", FALSE, Latest)])
  <2> DEFINE op == OperationAt("FINAL_QA_RUNNING", FALSE, Latest)
             rec == [exec[p] EXCEPT !.pc = "reserve", !.op = op]
  <2>1. op = QaOf(Latest) BY DEF OperationAt, GeneratingStages, AuditStages, QaOf
  <2>2. op \in OpsOf("FINAL_QA_RUNNING")
    BY <1>3, <1>4, <2>1, LatestIsOfQa DEF OpsOf, GeneratingStages, AuditStages
  <2>3. Go(p, rec) BY <1>6
  <2> HIDE DEF op
  <2>4. op \in Operations /\ op # Repair
    <3>1. op \in Operations BY <2>2, OpsOfStages DEF BodyStages
    <3>2. op # Repair BY <2>1 DEF QaOf, Repair
    <3>3. QED BY <3>1, <3>2
  <2>5. /\ rec \in Activity /\ rec.pc = "reserve" /\ rec.job = exec[p].job
        /\ rec.attached = exec[p].attached
        /\ rec.script = <<>> /\ ~rec.giving /\ rec.op = op /\ rec.copy = exec[p].copy
    BY <1>1, <2>4 DEF Activity, Pcs
  <2> HIDE DEF rec
  <2>6. OpFits(rec) /\ rec.pc \in PcsOf(Stage(exec[p])) BY <1>2, <2>2, <2>5 DEF OpFits, Stage, PcsOf
  <2>7. QED BY <1>1, <1>3, <1>4, <1>5, <2>3, <2>4, <2>5, <2>6, BodyGoesOn
<1>7. CASE Go(p, Then(p, FailedQa, exec[p].copy))
  <2>1. FailedQa \in Seq(Ends \cup After(Stage(exec[p]))) /\ EndsOnce(FailedQa) BY <1>2, QaScripts
  <2>2. QED BY <1>1, <1>3, <1>4, <1>5, <1>7, <2>1, BodyEnds
<1>8. QED BY <1>6, <1>7

LEMMA StartRepairKeepsInv ==
    ASSUME LegacyInv, NEW p \in Procs, exec[p].pc \in BodyPcs, Stage(exec[p]) = "FINAL_QA_RUNNING",
           StartRepair(p), UNCHANGED <<jobs, app, rows, faults>>
    PROVE  LegacyInv'
<1> DEFINE payload == [exec[p].copy EXCEPT !.claims = NoClaims, !.repair = TRUE]
           script == << <<"put", "V4_GENERATING">>, <<"app", "V4_GENERATING">>,
                        <<"end", "resolved">> >>
<1>1. 4 \in versions /\ exec[p].copy \in Payload BY InBody
<1>2. payload \in Payload BY <1>1 DEF Payload, NoClaims, Holders
<1>3. RowsTypeOK' /\ versions' = versions BY RowsAreLeftAlone
<1>4. run' = [run EXCEPT !.payload = payload] /\ Go(p, Then(p, script, payload)) BY DEF StartRepair
<1>5. script \in Seq(Ends \cup After(Stage(exec[p]))) /\ EndsOnce(script) BY QaScripts
<1> HIDE DEF payload, script
<1>6. run' \in Run /\ (RunFollowsV4' => 4 \in versions') BY <1>1, <1>2, <1>3, <1>4, RunWrites
<1>7. QED BY <1>1, <1>2, <1>3, <1>4, <1>5, <1>6, BodyEnds

LEMMA JudgeQaKeepsInv ==
    ASSUME LegacyInv, NEW p \in Procs, exec[p].pc \in BodyPcs, Stage(exec[p]) = "FINAL_QA_RUNNING",
           JudgeQa(p), UNCHANGED <<jobs, app, rows, faults>>
    PROVE  LegacyInv'
<1> USE DEF JudgeQa
<1>1. 4 \in versions /\ exec[p].copy \in Payload /\ exec[p].pc # "idle" BY InBody
<1>2. RowsTypeOK' /\ versions' = versions BY RowsAreLeftAlone
<1>3. UNCHANGED run => run' \in Run /\ (RunFollowsV4' => 4 \in versions') BY <1>2, RunIsLeftAlone
<1>4. FailedQa \in Seq(Ends \cup After(Stage(exec[p]))) /\ EndsOnce(FailedQa) BY QaScripts
<1>5. CASE exec[p].answer = "passed"
  <2>1. Go(p, Then(p, ReadyScript, exec[p].copy)) /\ UNCHANGED run BY <1>5
  <2>2. ReadyScript \in Seq(Ends \cup After(Stage(exec[p]))) /\ EndsOnce(ReadyScript) BY QaScripts
  <2>3. QED BY <1>1, <1>2, <1>3, <2>1, <2>2, BodyEnds
<1>6. CASE exec[p].answer # "passed" /\ exec[p].copy.repair
  <2>1. Go(p, Then(p, FailedQa, exec[p].copy)) /\ UNCHANGED run BY <1>6
  <2>2. QED BY <1>1, <1>2, <1>3, <1>4, <2>1, BodyEnds
<1>7. CASE exec[p].answer = "unrepairable" /\ ~exec[p].copy.repair
  <2>1. Go(p, Thrown(p, "permanent")) /\ UNCHANGED run BY <1>7
  <2>2. QED BY <1>1, <1>2, <1>3, <2>1, BodyThrows
<1>8. CASE exec[p].answer = "repairable" /\ ~exec[p].copy.repair BY <1>8, StartRepairKeepsInv
<1>9. QED BY <1>5, <1>6, <1>7, <1>8

LEMMA FrontScripts ==
    ASSUME NEW stage \in {"RESEARCH_RUNNING", "EVIDENCE_MATCHING_RUNNING", "none"}
    PROVE  \A kind \in {"move", "pause", "app"}, t \in FrontStages \cup {"V0_GENERATING"} :
              <<kind, t>> \in Ends \cup After(stage) /\ <<kind, t>> \notin Last
BY DEF After, Ends, Last, GeneratingStages, AuditStages

LEMMA JudgeKeepsInv == ASSUME LegacyInv, NEW p \in Procs, Judge(p) PROVE LegacyInv'
<1> USE DEF Judge, At
<1>1. /\ exec[p].pc = "judge" /\ exec[p].pc \in BodyPcs /\ exec[p].pc # "idle"
      /\ Stage(exec[p]) \in BodyStages /\ StageAt(p) = Stage(exec[p])
  BY InBody DEF BodyPcs
<1> DEFINE S == Ends \cup After(Stage(exec[p]))
<1>2. RowsTypeOK' /\ versions' = versions BY RowsAreLeftAlone
<1>3. UNCHANGED run => run' \in Run /\ (RunFollowsV4' => 4 \in versions') BY <1>2, RunIsLeftAlone
<1>4. <<"end", "resolved">> \in S /\ <<"end", "resolved">> \in Last BY DEF Ends, Last
<1>5. CASE Stage(exec[p]) = "RESEARCH_RUNNING" /\ UNCHANGED run
           /\ Go(p, Then(p, ResearchScript(exec[p].answer), NoPayload))
  <2>1. \A kind \in {"move", "pause", "app"}, t \in FrontStages :
           <<kind, t>> \in S /\ <<kind, t>> \notin Last
    BY <1>5, FrontScripts
  <2>2. {"RESEARCH_COMPLETED", "EVIDENCE_MATCHING_RUNNING"} \subseteq FrontStages BY DEF FrontStages
  <2> HIDE DEF S
  <2>3. ResearchScript(exec[p].answer) \in Seq(S) /\ EndsOnce(ResearchScript(exec[p].answer))
    <3>1. CASE exec[p].answer = "questions"
      BY <1>4, <2>1, <2>2, <3>1, ScriptOfThree DEF ResearchScript
    <3>2. CASE exec[p].answer # "questions"
      BY <1>4, <2>1, <2>2, <3>2, ScriptOfFive DEF ResearchScript
    <3>3. QED BY <3>1, <3>2
  <2> DEFINE script == ResearchScript(exec[p].answer)
  <2> HIDE DEF script
  <2>4. QED BY <1>1, <1>2, <1>3, <1>5, <2>3, BodyEnds, NoPayloadIsAPayload DEF S, script
<1>6. CASE Stage(exec[p]) = "EVIDENCE_MATCHING_RUNNING" /\ UNCHANGED run
           /\ Go(p, Then(p, MatchScript, NoPayload))
  <2>1. \A kind \in {"move", "pause", "app"}, t \in FrontStages \cup {"V0_GENERATING"} :
           <<kind, t>> \in S /\ <<kind, t>> \notin Last
    BY <1>6, FrontScripts
  <2>2. "EVIDENCE_MATCHING_COMPLETED" \in FrontStages BY DEF FrontStages
  <2> HIDE DEF S
  <2>3. MatchScript \in Seq(S) /\ EndsOnce(MatchScript)
    BY <1>4, <2>1, <2>2, ScriptOfFour DEF MatchScript
  <2>4. QED BY <1>1, <1>2, <1>3, <1>6, <2>3, BodyEnds, NoPayloadIsAPayload DEF S
<1>7. CASE Stage(exec[p]) \in AuditStages /\ UNCHANGED run
           /\ Go(p, Then(p, AuditScript(Stage(exec[p]), exec[p].answer), NoPayload))
  <2> DEFINE stage == Stage(exec[p])
  <2>1. \A kind \in {"move", "app"}, t \in {ReviewOf[stage], ProducerOf[stage]} :
           <<kind, t>> \in S /\ <<kind, t>> \notin Last
    BY <1>7 DEF After, Ends, Last, AuditStages, GeneratingStages
  <2> HIDE DEF S
  <2>2. AuditScript(stage, exec[p].answer) \in Seq(S) /\ EndsOnce(AuditScript(stage, exec[p].answer))
    BY <1>4, <2>1, ScriptOfThree DEF AuditScript
  <2>3. Stage(exec[p]) # "V4_GENERATING" BY <1>7 DEF AuditStages
  <2>4. QED BY <1>1, <1>2, <1>3, <1>7, <2>2, <2>3, BodyEnds, NoPayloadIsAPayload DEF S
<1>8. CASE Stage(exec[p]) = "FINAL_QA_RUNNING" /\ JudgeQa(p) BY <1>1, <1>8, JudgeQaKeepsInv
<1>9. QED BY <1>1, <1>5, <1>6, <1>7, <1>8

-----------------------------------------------------------------------------
(* The steps of the scripts.                                                *)

LEMMA InScript ==
    ASSUME LegacyInv, NEW a \in Actors, exec[a].pc \in {"script", "enqueue"}
    PROVE  /\ exec[a] \in Activity /\ exec[a].pc # "idle"
           /\ EndsOnce(exec[a].script) /\ exec[a].script # <<>>
           /\ exec[a].script \in Seq(Allowed(exec[a]))
           /\ Head(exec[a].script) \in Allowed(exec[a])
           /\ Allowed(exec[a]) \subseteq Instructions
           /\ Head(exec[a].script) \in Instructions
           /\ Head(exec[a].script) \notin Last =>
                 /\ Tail(exec[a].script) \in Seq(Allowed(exec[a]))
                 /\ EndsOnce(Tail(exec[a].script))
           /\ exec[a].op = NoOperation /\ exec[a].answer = "none"
           /\ exec[a].pc = "enqueue" => ~exec[a].giving /\ exec[a].adds \in JobIds
           /\ FollowsV4(exec[a]) => 4 \in versions
<1>1. Shape(exec[a]) /\ exec[a] \in Activity /\ (FollowsV4(exec[a]) => 4 \in versions)
  BY ActorIsTyped
<1>2. /\ EndsOnce(exec[a].script) /\ exec[a].script \in Seq(Allowed(exec[a]))
      /\ exec[a].op = NoOperation /\ exec[a].answer = "none"
      /\ exec[a].pc = "enqueue" => ~exec[a].giving /\ exec[a].adds \in JobIds
  BY <1>1 DEF Shape, BodyPcs
<1>3. Allowed(exec[a]) \subseteq Instructions BY <1>1, AllowedIsInstructions
<1>4. QED BY <1>1, <1>2, <1>3, RestOfAScript DEF EndsOnce

LEMMA ScriptGoesOn ==
    ASSUME LegacyInv, NEW a \in Actors, exec[a].pc \in {"script", "enqueue"}, NEW rec \in Activity,
           rec.job = exec[a].job, rec.attached = exec[a].attached, rec.giving = exec[a].giving,
           rec.copy = exec[a].copy, rec.op = exec[a].op, rec.answer = exec[a].answer,
           rec.script \in Seq(Allowed(exec[a])), EndsOnce(rec.script),
           \/ rec.pc = "script"
           \/ rec.pc = "enqueue" /\ rec.adds \in JobIds /\ ~exec[a].giving
    PROVE  Fits(a, rec) /\ (FollowsV4(rec) => 4 \in versions)
<1>1. Stage(rec) = Stage(exec[a]) /\ Allowed(rec) = Allowed(exec[a]) BY DEF Stage, Allowed
<1>2. /\ exec[a].op = NoOperation /\ exec[a].answer = "none" /\ exec[a].pc # "idle"
      /\ exec[a].script # <<>> /\ (FollowsV4(exec[a]) => 4 \in versions)
  BY InScript
<1>3. /\ a \in Procs => DeliveryShape(exec[a])
      /\ a \in Clients => ClientShape(exec[a])
  BY ActorIsTyped
<1>4. Shape(rec) BY <1>1, <1>2 DEF Shape, BodyPcs
<1>5. Fits(a, rec) BY <1>2, <1>3, <1>4 DEF Fits, DeliveryShape, ClientShape
<1>6. FollowsV4(rec) => FollowsV4(exec[a])
  BY <1>1, <1>2 DEF FollowsV4, BodyPcs, Ending, NoOperation, Repair
<1>7. QED BY <1>2, <1>5, <1>6

\* The script goes on to its next instruction.
LEMMA ScriptMoves ==
    ASSUME LegacyInv, NEW a \in Actors, exec[a].pc \in {"script", "enqueue"}, NEW rec \in Activity,
           rec.job = exec[a].job, rec.attached = exec[a].attached, rec.giving = exec[a].giving,
           rec.copy = exec[a].copy, rec.op = exec[a].op, rec.answer = exec[a].answer,
           rec.script \in Seq(Allowed(exec[a])), EndsOnce(rec.script),
           \/ rec.pc = "script"
           \/ rec.pc = "enqueue" /\ rec.adds \in JobIds /\ ~exec[a].giving,
           Go(a, rec), RunGoesOn, jobs' = jobs, RowsTypeOK'
    PROVE  LegacyInv'
BY ScriptGoesOn, ActorMoves

LEMMA WriteApplicationKeepsInv ==
    ASSUME LegacyInv, NEW a \in Actors, WriteApplication(a) PROVE LegacyInv'
<1> USE DEF WriteApplication, At
<1>1. Head(exec[a].script) \notin Last /\ exec[a].pc = "script" BY DEF Last, Ends
<1>2. /\ exec[a] \in Activity /\ Head(exec[a].script) \in Instructions
      /\ Tail(exec[a].script) \in Seq(Allowed(exec[a])) /\ EndsOnce(Tail(exec[a].script))
      /\ Tail(exec[a].script) \in Seq(Instructions)
  BY <1>1, InScript, LongerSequences
<1>3. Head(exec[a].script)[2] \in Stages BY <1>2 DEF Instructions
<1>4. RowsTypeOK' BY <1>3, TypesOfLegacyInv DEF RowsTypeOK, rows
<1>5. RunGoesOn BY RunIsLeftAlone DEF rows
<1> DEFINE rec == [exec[a] EXCEPT !.script = Tail(@)]
<1>6. /\ rec \in Activity /\ rec.job = exec[a].job /\ rec.attached = exec[a].attached
      /\ rec.giving = exec[a].giving /\ rec.copy = exec[a].copy /\ rec.op = exec[a].op
      /\ rec.answer = exec[a].answer /\ rec.script = Tail(exec[a].script) /\ rec.pc = "script"
  BY <1>1, <1>2 DEF Activity
<1>7. Go(a, rec) OBVIOUS
<1> HIDE DEF rec
<1>8. QED BY <1>1, <1>2, <1>4, <1>5, <1>6, <1>7, ScriptMoves

LEMMA RefundKeepsInv ==
    ASSUME LegacyInv, NEW a \in Actors, Refund(a) \/ EnqueueDocuments(a) PROVE LegacyInv'
<1> USE DEF Refund, EnqueueDocuments, rows, At
<1>1. Head(exec[a].script) \notin Last /\ exec[a].pc = "script" BY DEF Last, Ends
<1>2. /\ exec[a] \in Activity
      /\ Tail(exec[a].script) \in Seq(Allowed(exec[a])) /\ EndsOnce(Tail(exec[a].script))
      /\ Tail(exec[a].script) \in Seq(Instructions)
  BY <1>1, InScript, LongerSequences
<1>3. RowsTypeOK' BY TypesOfLegacyInv DEF RowsTypeOK
<1>4. RunGoesOn BY RunIsLeftAlone
<1> DEFINE rec == [exec[a] EXCEPT !.script = Tail(@)]
<1>5. /\ rec \in Activity /\ rec.job = exec[a].job /\ rec.attached = exec[a].attached
      /\ rec.giving = exec[a].giving /\ rec.copy = exec[a].copy /\ rec.op = exec[a].op
      /\ rec.answer = exec[a].answer /\ rec.script = Tail(exec[a].script) /\ rec.pc = "script"
  BY <1>1, <1>2 DEF Activity
<1>6. Go(a, rec) OBVIOUS
<1> HIDE DEF rec
<1>7. QED BY <1>1, <1>2, <1>3, <1>4, <1>5, <1>6, ScriptMoves

\* An actor's record with the queue's row of its job.
LEMMA EnqueueKeepsInv == ASSUME LegacyInv, NEW a \in Actors, Enqueue(a) PROVE LegacyInv'
<1> USE DEF Enqueue, At
<1>1. /\ exec[a] \in Activity /\ exec[a].adds \in JobIds /\ exec[a].pc = "enqueue"
      /\ exec[a].script \in Seq(Allowed(exec[a])) /\ EndsOnce(exec[a].script)
  BY InScript
<1> DEFINE rec == [exec[a] EXCEPT !.pc = "script", !.adds = NoJob]
<1>2. "script" \in Pcs BY DEF Pcs
<1>3. /\ rec \in Activity /\ rec.job = exec[a].job /\ rec.attached = exec[a].attached
      /\ rec.giving = exec[a].giving /\ rec.copy = exec[a].copy /\ rec.op = exec[a].op
      /\ rec.answer = exec[a].answer /\ rec.script = exec[a].script /\ rec.pc = "script"
  BY <1>1, <1>2 DEF Activity
<1>4. exec' = [exec EXCEPT ![a] = rec] /\ exec \in [Actors -> Activity] BY TypesOfLegacyInv DEF Go
<1> HIDE DEF rec
<1>5. Fits(a, rec) /\ (FollowsV4(rec) => 4 \in versions) BY <1>1, <1>3, ScriptGoesOn
<1>6. jobs \in [JobIds -> Job] /\ TriesAreLeft BY TypesOfLegacyInv DEF LegacyInv
<1>7. /\ jobs' \in [JobIds -> Job]
      /\ \A j \in JobIds :
            /\ jobs'[j].left = jobs[j].left
            /\ jobs'[j].state # jobs[j].state => jobs[j].state = "absent" /\ jobs'[j].state = "waiting"
  BY <1>1, <1>6 DEF Job
<1>8. RowsTypeOK' /\ versions' = versions BY RowsAreLeftAlone
<1>9. LPTypeOK' BY <1>3, <1>4, <1>7, <1>8, TypesOfLegacyInv DEF LPTypeOK, RowsTypeOK
<1>10. Shapes' BY <1>4, <1>5, TypesOfLegacyInv DEF Shapes
<1>11. TriesAreLeft' BY <1>6, <1>7 DEF TriesAreLeft
<1>12. DeliveriesAreActive'
  <2>1. \A p \in Procs : exec'[p].attached = exec[p].attached /\ exec'[p].job = exec[p].job
    BY <1>3, <1>4, ProcsAreNoClients
  <2>2. DeliveriesAreActive BY DEF LegacyInv
  <2>3. QED BY <1>7, <2>1, <2>2 DEF DeliveriesAreActive
<1>13. V4Known'
  <2>1. run' = run /\ (RunFollowsV4' => 4 \in versions') BY <1>8, RunIsLeftAlone
  <2>2. \A b \in Actors : FollowsV4(exec[b]) => 4 \in versions BY TypesOfLegacyInv
  <2>3. QED BY <1>4, <1>5, <1>8, <2>1, <2>2 DEF V4Known
<1>14. QED BY <1>9, <1>10, <1>11, <1>12, <1>13 DEF LegacyInv

LEMMA EndScriptKeepsInv == ASSUME LegacyInv, NEW a \in Actors, EndScript(a) PROVE LegacyInv'
<1> USE DEF EndScript, At
<1>1. exec[a].pc # "idle" OBVIOUS
<1>2. RowsTypeOK' /\ versions' = versions BY RowsAreLeftAlone
<1>3. run' \in Run /\ (RunFollowsV4' => 4 \in versions') BY <1>2, RunIsLeftAlone
<1>4. CASE a \in Clients
  <2> DEFINE rec == Rest(a, "done")
  <2>1. rec \in Activity /\ Fits(a, rec) /\ ~FollowsV4(rec) /\ ~rec.attached BY <1>4, DoneFits
  <2>2. Go(a, rec) BY <1>4
  <2> HIDE DEF rec
  <2>3. QED BY <1>2, <1>3, <2>1, <2>2, ActorMoves
<1>5. CASE a \notin Clients
  <2>1. a \in Procs BY <1>5 DEF Actors
  <2>2. CASE Head(exec[a].script)[2] = "permanent"
    <3>1. Go(a, Thrown(a, "permanent")) BY <1>5, <2>2
    <3>2. QED BY <1>1, <1>2, <1>3, <2>1, <3>1, BodyThrows
  <2>3. CASE Head(exec[a].script)[2] # "permanent"
    <3>1. Go(a, Rest(a, "resolved")) /\ "resolved" \in RestPcs BY <1>5, <2>3 DEF RestPcs
    <3>2. QED BY <1>1, <1>2, <1>3, <2>1, <3>1, DeliveryRests
  <2>4. QED BY <2>2, <2>3
<1>6. QED BY <1>4, <1>5

LEMMA StatusAfterIsAStatus == ASSUME NEW kind, NEW stage PROVE StatusAfter(kind, stage) \in Statuses
BY DerivedStatusIsAStatus DEF StatusAfter, Statuses

\* What throws: a delivery rests, a client is done.
LEMMA ActorThrows ==
    ASSUME LegacyInv, NEW a \in Actors, exec[a].pc # "idle",
           NEW error \in {"none", "retryable", "permanent"}, Go(a, Thrown(a, error)),
           RunGoesOn, jobs' = jobs, RowsTypeOK'
    PROVE  LegacyInv'
<1> DEFINE rec == Thrown(a, error)
<1>1. /\ rec \in Activity /\ Fits(a, rec) /\ ~FollowsV4(rec)
      /\ rec.attached => exec[a].attached
      /\ rec.job = exec[a].job
  BY ThrownFits
<1>2. Go(a, rec) OBVIOUS
<1> HIDE DEF rec
<1>3. QED BY <1>1, <1>2, ActorMoves

\* What a transition asks for is allowed at the end of its body.
LEMMA WhatTransitionsWrite ==
    ASSUME LegacyInv, NEW a \in Actors, exec[a].pc = "script",
           Head(exec[a].script)[1] \in {"move", "pause", "put"}
    PROVE  LET stage == Head(exec[a].script)[2] IN
           /\ stage \in Stages /\ Head(exec[a].script) \notin Last
           /\ stage \in QaSide => 4 \in versions
           /\ exec[a].giving => stage = "FAILED"
<1> DEFINE x == Head(exec[a].script)
<1>1. /\ exec[a] \in Activity /\ x \in Allowed(exec[a]) /\ exec[a].script # <<>>
      /\ FollowsV4(exec[a]) => 4 \in versions
      /\ exec[a].op = NoOperation
  BY InScript
<1>2. x \notin Last /\ x \notin Ends BY DEF Last, Ends
<1>3. CASE exec[a].giving
  <2>1. x \in Givings BY <1>1, <1>2, <1>3 DEF Allowed
  <2>2. x[2] = "FAILED" BY <2>1 DEF Givings
  <2>3. QED BY <1>2, <2>2, StagesAreStages DEF QaSide
<1>4. CASE ~exec[a].giving
  <2>1. x \in After(Stage(exec[a])) /\ Stage(exec[a]) \in BodyStages \cup {"none"}
    BY <1>1, <1>2, <1>4, AllowedIsInstructions DEF Allowed
  <2>2. x[2] \in Stages /\ (x[2] \in QaSide => Stage(exec[a]) \in {"V4_GENERATING", "FINAL_QA_RUNNING"})
    BY <2>1, AfterIsInstructions
  <2>3. Ending(exec[a]) BY <1>1, <1>4 DEF Ending
  <2>4. QED BY <1>1, <1>2, <1>4, <2>2, <2>3 DEF FollowsV4
<1>5. QED BY <1>3, <1>4

LEMMA TransitionKeepsInv == ASSUME LegacyInv, NEW a \in Actors, Transition(a) PROVE LegacyInv'
<1> USE DEF Transition, At
<1> DEFINE kind == Head(exec[a].script)[1]
           stage == Head(exec[a].script)[2]
<1>1. /\ exec[a].pc = "script" /\ exec[a].pc # "idle"
      /\ stage \in Stages /\ Head(exec[a].script) \notin Last
      /\ stage \in QaSide => 4 \in versions
      /\ exec[a].giving => stage = "FAILED"
  BY WhatTransitionsWrite
<1>2. RowsTypeOK' /\ versions' = versions BY RowsAreLeftAlone
<1>3. /\ run \in Run /\ (RunFollowsV4 => 4 \in versions)
      /\ exec[a] \in Activity /\ (FollowsV4(exec[a]) => 4 \in versions)
      /\ exec[a].copy \in Payload
  BY TypesOfLegacyInv, ActorIsTyped
<1>4. CASE run.status # "cancelled" /\ CanTransition(run.stage, stage)
  <2> DEFINE payload == IF kind = "put" THEN exec[a].copy ELSE run.payload
             status == StatusAfter(kind, stage)
  <2>1. run' = [run EXCEPT !.stage = stage, !.status = status, !.payload = payload] BY <1>4
  <2>2. payload \in Payload /\ (payload.repair => 4 \in versions) /\ status \in Statuses
    BY <1>3, StatusAfterIsAStatus DEF Run, FollowsV4, RunFollowsV4
  <2> HIDE DEF payload, status
  <2>3. run' \in Run /\ run'.stage = stage /\ run'.payload = payload
    BY <1>1, <1>3, <2>1, <2>2 DEF Run
  <2>4. RunFollowsV4' => 4 \in versions' BY <1>1, <1>2, <1>3, <2>2, <2>3 DEF RunFollowsV4
  <2> DEFINE pc == IF stage \in WorkStages THEN "enqueue" ELSE "script"
             adds == IF stage \in WorkStages THEN <<stage, run.attempt, "stage">> ELSE NoJob
             rec == [exec[a] EXCEPT !.script = Tail(@), !.pc = pc, !.adds = adds]
  <2>5. Go(a, rec) BY <1>4
  <2>6. /\ Tail(exec[a].script) \in Seq(Allowed(exec[a])) /\ EndsOnce(Tail(exec[a].script))
        /\ Tail(exec[a].script) \in Seq(Instructions)
    BY <1>1, InScript, LongerSequences
  <2>7. pc \in Pcs /\ adds \in JobIds \cup {NoJob} /\ (pc = "enqueue" => adds \in JobIds)
        /\ pc \in {"script", "enqueue"}
    BY <1>3 DEF Pcs, JobIds, Run
  <2>8. pc = "enqueue" => ~exec[a].giving
    BY <1>1 DEF WorkStages, QueuedStages, GeneratingStages, RunningStages, AuditStages
  <2> HIDE DEF pc, adds
  <2>9. /\ rec \in Activity /\ rec.job = exec[a].job /\ rec.attached = exec[a].attached
        /\ rec.giving = exec[a].giving /\ rec.copy = exec[a].copy /\ rec.op = exec[a].op
        /\ rec.answer = exec[a].answer /\ rec.script = Tail(exec[a].script) /\ rec.pc = pc
        /\ rec.adds = adds
    BY <1>3, <2>6, <2>7 DEF Activity
  <2> HIDE DEF rec
  <2>10. jobs' = jobs OBVIOUS
  <2> HIDE DEF kind, stage, Transition
  <2>11. QED BY <1>1, <1>2, <2>3, <2>4, <2>5, <2>6, <2>7, <2>8, <2>9, <2>10, ScriptMoves
<1>5. CASE ~(run.status # "cancelled" /\ CanTransition(run.stage, stage))
  <2>1. Go(a, Thrown(a, "permanent")) /\ UNCHANGED run BY <1>5
  <2>2. run' \in Run /\ (RunFollowsV4' => 4 \in versions') BY <1>2, <2>1, RunIsLeftAlone
  <2>3. QED BY <1>1, <1>2, <2>1, <2>2, ActorThrows
<1>6. QED BY <1>4, <1>5

-----------------------------------------------------------------------------
(* A delivery's way to its body and out of it.                              *)

LEMMA LoadKeepsInv == ASSUME LegacyInv, NEW p \in Procs, Load(p) PROVE LegacyInv'
<1> USE DEF Load, At
<1>1. exec[p].pc = "load" /\ exec[p].pc # "idle" OBVIOUS
<1>2. Shape(exec[p]) /\ exec[p] \in Activity /\ p \in Actors /\ exec[p].job \in JobIds
  BY <1>1, ProcsAreNoClients, ActorIsTyped, DeliveryHasAJob
<1>3. Resting(exec[p]) BY <1>1, <1>2 DEF Shape, Resting, BodyPcs
<1>4. PICK pc \in {"claim", "resolved"} : Go(p, [exec[p] EXCEPT !.pc = pc]) OBVIOUS
<1> DEFINE rec == [exec[p] EXCEPT !.pc = pc]
<1>5. /\ rec \in Activity /\ rec.job = exec[p].job /\ rec.attached = exec[p].attached /\ rec.pc = pc
      /\ Resting(rec)
  BY <1>2, <1>3 DEF Activity, Pcs, Resting, BodyPcs
<1>6. Go(p, rec) BY <1>4
<1> HIDE DEF rec
<1>7. Fits(p, rec) /\ ~FollowsV4(rec) BY <1>2, <1>5, RestingFits, RestingFollowsNothing
<1>8. RowsTypeOK' /\ versions' = versions BY RowsAreLeftAlone
<1>9. run' \in Run /\ (RunFollowsV4' => 4 \in versions') BY <1>8, RunIsLeftAlone
<1>10. QED BY <1>2, <1>5, <1>6, <1>7, <1>8, <1>9, ActorMoves

LEMMA OperationOfAStage ==
    ASSUME NEW stage \in BodyStages, stage # "FINAL_QA_RUNNING", NEW repairing \in BOOLEAN
    PROVE  /\ OperationAt(stage, repairing, 4) \in OpsOf(stage)
           /\ OperationAt(stage, repairing, 4) = Repair => repairing
<1>1. CASE stage \in GeneratingStages
  <2>1. stage \notin AuditStages /\ stage \notin {"RESEARCH_RUNNING", "EVIDENCE_MATCHING_RUNNING"}
    BY <1>1 DEF AuditStages, GeneratingStages
  <2>2. OperationAt(stage, repairing, 4)
          = <<"generate", IF repairing THEN RepairVersion ELSE VersionOf[stage]>>
    BY <1>1, <2>1 DEF OperationAt
  <2>3. VersionOf[stage] # RepairVersion BY <1>1, StagesOfTables DEF RepairVersion
  <2>4. QED BY <1>1, <2>2, <2>3 DEF OpsOf, Repair
<1>2. CASE stage \in AuditStages
  BY <1>2 DEF OperationAt, OpsOf, Repair, AuditStages, GeneratingStages
<1>3. CASE stage \in {"RESEARCH_RUNNING", "EVIDENCE_MATCHING_RUNNING"}
  BY <1>3 DEF OperationAt, OpsOf, Repair, AuditStages, GeneratingStages
<1>4. QED BY <1>1, <1>2, <1>3 DEF BodyStages

LEMMA ClaimedStage ==
    ASSUME NEW key \in WorkStages, NEW stage, StageMatchesJobClaim(stage, key)
    PROVE  /\ RunningCounterpart(key) \in Stages
           /\ RunningCounterpart(key) \in QaSide => stage = RunningCounterpart(key)
BY DEF StageMatchesJobClaim, RunningCounterpart, WorkStages, QueuedStages, GeneratingStages,
       RunningStages, AuditStages, Stages, QaSide

LEMMA ClaimStageKeepsInv == ASSUME LegacyInv, NEW p \in Procs, ClaimStage(p) PROVE LegacyInv'
<1> USE DEF ClaimStage, At
<1> DEFINE key == exec[p].job[1]
<1>1. /\ p \in Actors /\ p \in Holders /\ exec[p].pc = "claim" /\ exec[p].pc # "idle"
      /\ exec[p] \in Activity /\ exec[p].job \in JobIds /\ key \in WorkStages /\ Shape(exec[p])
      /\ StageAt(p) = Stage(exec[p]) /\ Stage(exec[p]) \in BodyStages
      /\ Stage(exec[p]) = RunningCounterpart(key)
  BY ProcsAreNoClients, ActorIsTyped, DeliveryHasAJob DEF Stage
<1>2. Resting(exec[p]) BY <1>1 DEF Shape, Resting, BodyPcs
<1>3. RowsTypeOK' /\ versions' = versions BY RowsAreLeftAlone
<1>4. run \in Run /\ run.payload \in Payload /\ (RunFollowsV4 => 4 \in versions)
  BY TypesOfLegacyInv DEF Run
<1>5. CASE /\ StageMatchesJobClaim(run.stage, key) /\ MayBeFree(key)
           /\ run' = [run EXCEPT !.stage = RunningCounterpart(key), !.status = "running",
                                 !.payload.claims[key] = p]
           /\ Go(p, [exec[p] EXCEPT
                       !.pc = FirstStep(StageAt(p)), !.copy = run'.payload,
                       !.op = IF StageAt(p) = "FINAL_QA_RUNNING" THEN NoOperation
                              ELSE OperationAt(StageAt(p), run.payload.repair, 4)])
  <2> DEFINE stage == Stage(exec[p])
             pc == FirstStep(stage)
             op == IF stage = "FINAL_QA_RUNNING" THEN NoOperation
                   ELSE OperationAt(stage, run.payload.repair, 4)
             rec == [exec[p] EXCEPT !.pc = pc, !.copy = run'.payload, !.op = op]
  <2>1. /\ run' \in Run /\ run'.stage = stage /\ run'.payload \in Payload
        /\ run'.payload.repair <=> run.payload.repair
    <3>1. RunningCounterpart(key) \in Stages BY <1>1, <1>5, ClaimedStage
    <3>2. QED BY <1>1, <1>4, <1>5, <3>1 DEF Run, Payload, Statuses
  <2>2. /\ stage \in QaSide => run.stage = stage
        /\ run.payload.repair => 4 \in versions
        /\ run.payload.repair \in BOOLEAN
    BY <1>1, <1>4, <1>5, ClaimedStage, PayloadFields DEF RunFollowsV4
  <2>3. RunFollowsV4' => 4 \in versions' BY <1>3, <1>4, <2>1, <2>2 DEF RunFollowsV4
  <2>4. Go(p, rec) BY <1>1, <1>5
  <2>5. pc \in PcsOf(stage) /\ pc \in {"extract", "look", "reserve"}
        /\ (stage = "FINAL_QA_RUNNING" <=> pc = "look" /\ stage \notin GeneratingStages)
    BY <1>1 DEF FirstStep, PcsOf, BodyStages, GeneratingStages, AuditStages
  <2>6. /\ stage = "FINAL_QA_RUNNING" => op = NoOperation
        /\ stage # "FINAL_QA_RUNNING" => op \in OpsOf(stage) /\ op \in Operations
        /\ op = Repair => run.payload.repair
    BY <1>1, <2>2, OperationOfAStage, OpsOfStages DEF NoOperation, Repair
  <2>7. pc \in Pcs /\ op \in Operations \cup {NoOperation} BY <2>5, <2>6 DEF Pcs
  <2> HIDE DEF pc, op
  <2>8. /\ rec \in Activity /\ rec.pc = pc /\ rec.job = exec[p].job /\ rec.op = op
        /\ rec.attached = exec[p].attached /\ rec.script = <<>> /\ ~rec.giving
        /\ rec.copy = run'.payload
    BY <1>1, <1>2, <2>1, <2>7 DEF Activity, Resting
  <2> HIDE DEF rec
  <2>9. Stage(rec) = stage /\ rec.pc \in PcsOf(Stage(rec)) /\ OpFits(rec)
    BY <2>5, <2>6, <2>8 DEF Stage, OpFits
  <2>10. Fits(p, rec) BY <1>1, <2>8, <2>9, BodyFits
  <2>11. FollowsV4(rec) => 4 \in versions
    <3>1. stage = "FINAL_QA_RUNNING" => 4 \in versions BY <1>4, <2>2 DEF RunFollowsV4, QaSide
    <3>2. ~Ending(rec) /\ rec.pc \notin Finalizing BY <2>5, <2>8 DEF Ending
    <3>3. QED BY <2>1, <2>2, <2>6, <2>8, <2>9, <3>1, <3>2 DEF FollowsV4
  <2>12. QED BY <1>1, <1>3, <2>1, <2>3, <2>4, <2>8, <2>10, <2>11, ActorMoves
<1>6. CASE Go(p, Rest(p, "resolved")) /\ UNCHANGED run
  <2>1. run' \in Run /\ (RunFollowsV4' => 4 \in versions') BY <1>3, <1>6, RunIsLeftAlone
  <2>2. "resolved" \in RestPcs BY DEF RestPcs
  <2>3. QED BY <1>1, <1>3, <1>6, <2>1, <2>2, DeliveryRests
<1>7. QED BY <1>5, <1>6

LEMMA ReleaseKeepsInv == ASSUME LegacyInv, NEW p \in Procs, Release(p) PROVE LegacyInv'
<1> USE DEF Release, At
<1> DEFINE key == exec[p].job[1]
<1>1. exec[p].pc # "idle" /\ key \in WorkStages BY DeliveryHasAJob
<1>2. RowsTypeOK' /\ versions' = versions BY RowsAreLeftAlone
<1>3. run \in Run /\ (RunFollowsV4 => 4 \in versions) BY TypesOfLegacyInv
<1>4. run' \in Run /\ run'.stage = run.stage /\ (run'.payload.repair <=> run.payload.repair)
  BY <1>1, <1>3 DEF Run, Payload, Holders
<1>5. RunFollowsV4' => 4 \in versions' BY <1>2, <1>3, <1>4 DEF RunFollowsV4
<1>6. PICK pc \in RestPcs : Go(p, Rest(p, pc)) BY DEF RestPcs
<1>7. QED BY <1>1, <1>2, <1>4, <1>5, <1>6, DeliveryRests

LEMMA GiveUpKeepsInv == ASSUME LegacyInv, NEW p \in Procs, GiveUp(p) PROVE LegacyInv'
<1> USE DEF GiveUp, At
<1>1. p \in Actors /\ p \notin Clients /\ exec[p].pc # "idle" /\ exec[p].job \in JobIds
      /\ exec[p].attached \in BOOLEAN /\ exec[p].job # NoJob
  BY ProcsAreNoClients, ActorIsTyped, DeliveryHasAJob, StageIsOfABody
<1>2. RowsTypeOK' /\ versions' = versions BY RowsAreLeftAlone
<1>3. run' \in Run /\ (RunFollowsV4' => 4 \in versions') BY <1>2, RunIsLeftAlone
<1>4. CASE run.stage = "FAILED" \/ run.status = "failed"
  <2>1. Go(p, Rest(p, "resolved")) /\ "resolved" \in RestPcs BY <1>4 DEF RestPcs
  <2>2. QED BY <1>1, <1>2, <1>3, <2>1, DeliveryRests
<1>5. CASE ~(run.stage = "FAILED" \/ run.status = "failed")
  <2> DEFINE script == << <<"refund", "run">>, <<"put", "FAILED">>, <<"app", "FAILED">>,
                          <<"end", "resolved">> >>
             S == Ends \cup Givings
             rec == [Then(p, script, run.payload) EXCEPT !.giving = TRUE]
  <2>1. {<<"refund", "run">>, <<"put", "FAILED">>, <<"app", "FAILED">>, <<"end", "resolved">>}
          \subseteq S
        /\ <<"refund", "run">> \notin Last /\ <<"put", "FAILED">> \notin Last
        /\ <<"app", "FAILED">> \notin Last /\ <<"end", "resolved">> \in Last
    BY DEF Ends, Givings, Last
  <2>2. S \subseteq Instructions BY StagesAreStages DEF Ends, Givings, Instructions
  <2>3. Go(p, rec) BY <1>5
  <2> HIDE DEF S
  <2>4. script \in Seq(S) /\ EndsOnce(script) BY <2>1, ScriptOfFour
  <2> HIDE DEF script
  <2>5. script \in Seq(Instructions) BY <2>2, <2>4, LongerSequences
  <2>6. run.payload \in Payload /\ (run.payload.repair => 4 \in versions)
    BY TypesOfLegacyInv DEF Run, RunFollowsV4
  <2>7. /\ rec.pc = "script" /\ rec.job = exec[p].job /\ rec.attached = exec[p].attached
        /\ rec.op = NoOperation /\ rec.answer = "none" /\ rec.script = script
        /\ rec.copy = run.payload /\ rec.giving
    BY DEF Then, Rest, Idle
  <2>8. rec \in Activity BY <1>1, <2>5, <2>6, IdleFits DEF Then, Rest, Activity, Pcs
  <2> HIDE DEF rec
  <2>9. Fits(p, rec) BY <1>1, <2>4, <2>7 DEF Fits, Shape, DeliveryShape, BodyPcs, Allowed, S
  <2>10. FollowsV4(rec) => 4 \in versions
    BY <2>6, <2>7 DEF FollowsV4, Ending, NoOperation, Repair, BodyPcs
  <2>11. QED BY <1>1, <1>2, <1>3, <2>3, <2>7, <2>8, <2>9, <2>10, ActorMoves
<1>6. QED BY <1>4, <1>5

LEMMA DeliverKeepsInv ==
    ASSUME LegacyInv, NEW p \in Procs, NEW j \in JobIds, Deliver(p, j) PROVE LegacyInv'
<1> USE DEF Deliver, At
<1> DEFINE rec == [Idle EXCEPT !.pc = "load", !.job = j, !.attached = TRUE]
<1>1. p \in Actors /\ jobs \in [JobIds -> Job] /\ exec \in [Actors -> Activity]
      /\ TriesAreLeft /\ DeliveriesAreActive /\ Shapes
      /\ \A b \in Actors : FollowsV4(exec[b]) => 4 \in versions
  BY ProcsAreNoClients, TypesOfLegacyInv DEF LegacyInv
<1>2. rec \in Activity /\ rec.pc = "load" /\ rec.job = j /\ rec.attached
  BY IdleFits DEF Activity, Pcs
<1>3. Resting(rec) BY IdleFits, NoPayloadIsAPayload DEF Resting, Idle, BodyPcs
<1>4. exec' = [exec EXCEPT ![p] = rec] BY DEF Go
<1> HIDE DEF rec
<1>5. Fits(p, rec) /\ ~FollowsV4(rec) BY <1>2, <1>3, RestingFits, RestingFollowsNothing
<1>6. RowsTypeOK' /\ versions' = versions BY RowsAreLeftAlone
<1>7. run' \in Run /\ (RunFollowsV4' => 4 \in versions') BY <1>6, RunIsLeftAlone
<1>8. /\ jobs' \in [JobIds -> Job] /\ jobs'[j].state = "active" /\ jobs[j].state = "waiting"
      /\ jobs'[j].left = jobs[j].left
      /\ \A k \in JobIds : k # j => jobs'[k] = jobs[k]
  BY <1>1 DEF Job
<1>9. LPTypeOK' BY <1>1, <1>2, <1>4, <1>6, <1>7, <1>8 DEF LPTypeOK, RowsTypeOK
<1>10. Shapes' BY <1>1, <1>4, <1>5 DEF Shapes
<1>11. TriesAreLeft' BY <1>1, <1>8 DEF TriesAreLeft
<1>12. DeliveriesAreActive'
  <2>1. \A q \in Procs : exec[q].attached => exec[q].job # j BY <1>1, <1>8 DEF DeliveriesAreActive
  <2>2. exec'[p] = rec /\ \A q \in Procs : q # p => exec'[q] = exec[q]
    BY <1>1, <1>4, ProcsAreNoClients
  <2>3. QED BY <1>1, <1>2, <1>8, <2>1, <2>2 DEF DeliveriesAreActive
<1>13. V4Known' BY <1>1, <1>4, <1>5, <1>6, <1>7 DEF V4Known
<1>14. QED BY <1>9, <1>10, <1>11, <1>12, <1>13 DEF LegacyInv

-----------------------------------------------------------------------------
(* The queue's side of a delivery, faults.                                  *)

LEMMA OrphanedIs ==
    ASSUME NEW payload \in Payload, NEW P
    PROVE  Orphaned(payload, P) \in Payload /\ (Orphaned(payload, P).repair <=> payload.repair)
           /\ Orphaned(payload, P).pending = payload.pending
<1> DEFINE claims == [s \in WorkStages |-> IF payload.claims[s] \in P THEN "gone" ELSE payload.claims[s]]
<1>1. claims \in [WorkStages -> Holders] BY PayloadFields DEF Holders
<1>2. Orphaned(payload, P) = [payload EXCEPT !.claims = claims] BY DEF Orphaned
<1> HIDE DEF claims
<1>3. QED BY <1>1, <1>2 DEF Payload

LEMMA GoingOnFits ==
    ASSUME NEW a, NEW rec \in Activity, Fits(a, rec), NEW P
    PROVE  LET then == GoesOnWithout(rec, P) IN
           /\ then \in Activity /\ Fits(a, then) /\ (FollowsV4(then) <=> FollowsV4(rec))
           /\ then.attached = rec.attached /\ then.job = rec.job
<1> DEFINE then == GoesOnWithout(rec, P)
           copy == Orphaned(rec.copy, P)
<1>1. copy \in Payload /\ (copy.repair <=> rec.copy.repair) /\ copy.pending = rec.copy.pending
  BY OrphanedIs DEF Activity
<1>2. then = [rec EXCEPT !.copy = copy] BY DEF GoesOnWithout
<1> HIDE DEF then, copy
<1>3. /\ then \in Activity /\ then.pc = rec.pc /\ then.job = rec.job /\ then.attached = rec.attached
      /\ then.op = rec.op /\ then.answer = rec.answer /\ then.script = rec.script
      /\ then.adds = rec.adds /\ then.giving = rec.giving /\ (then.copy.repair <=> rec.copy.repair)
      /\ then.copy.pending = rec.copy.pending
  BY <1>1, <1>2 DEF Activity
<1>4. Stage(then) = Stage(rec) /\ Allowed(then) = Allowed(rec) /\ Ending(then) = Ending(rec)
      /\ (OpFits(then) <=> OpFits(rec))
  BY <1>3 DEF Stage, Allowed, Ending, OpFits
<1>5. Fits(a, then)
  <2>1. Shape(then) BY <1>3, <1>4 DEF Fits, Shape
  <2>2. (a \in Procs => DeliveryShape(then)) /\ (a \in Clients => ClientShape(then))
    BY <1>3 DEF Fits, DeliveryShape, ClientShape
  <2>3. QED BY <2>1, <2>2 DEF Fits
<1>6. FollowsV4(then) <=> FollowsV4(rec) BY <1>3, <1>4 DEF FollowsV4
<1>7. QED BY <1>3, <1>5, <1>6 DEF then

\* The queue's rows change only where no delivery is waited for any more.
LEMMA ActivitiesEnd ==
    ASSUME LegacyInv, NEW P \in SUBSET Procs, NEW fresh \in Activity,
           \A p \in P : Fits(p, fresh), ~FollowsV4(fresh), ~fresh.attached,
           run' = [run EXCEPT !.payload = Orphaned(@, P)],
           exec' = [a \in Actors |-> IF a \in P THEN fresh ELSE [exec[a] EXCEPT !.copy = Orphaned(@, P)]],
           jobs' \in [JobIds -> Job], TriesAreLeft',
           \A j \in JobIds :
              (\E q \in Procs \ P : exec[q].attached /\ exec[q].job = j) => jobs'[j] = jobs[j],
           UNCHANGED <<app, rows>>, faults' \in Faults
    PROVE  LegacyInv'
<1>1. /\ run \in Run /\ DeliveriesAreActive
      /\ \A a \in Actors : exec[a] \in Activity /\ Fits(a, exec[a])
      /\ \A a \in Actors : FollowsV4(exec[a]) => 4 \in versions
      /\ RunFollowsV4 => 4 \in versions
  BY TypesOfLegacyInv DEF LegacyInv
<1>2. exec' = [a \in Actors |-> IF a \in P THEN fresh ELSE GoesOnWithout(exec[a], P)]
  BY DEF GoesOnWithout
<1>3. \A a \in Actors : /\ exec'[a] \in Activity /\ Fits(a, exec'[a])
                        /\ FollowsV4(exec'[a]) => 4 \in versions
  BY <1>1, <1>2, GoingOnFits
<1>4. \A q \in Procs : exec'[q].attached => /\ q \notin P /\ exec[q].attached
                                           /\ exec'[q].job = exec[q].job
  BY <1>1, <1>2, GoingOnFits, ProcsAreNoClients
<1>5. run' \in Run /\ run'.stage = run.stage /\ (run'.payload.repair <=> run.payload.repair)
  <2> DEFINE payload == Orphaned(run.payload, P)
  <2>1. payload \in Payload /\ (payload.repair <=> run.payload.repair) BY <1>1, OrphanedIs DEF Run
  <2>2. run' = [run EXCEPT !.payload = payload] OBVIOUS
  <2> HIDE DEF payload
  <2>3. QED BY <1>1, <2>1, <2>2 DEF Run
<1>6. versions' = versions /\ RowsTypeOK' BY TypesOfLegacyInv DEF rows, RowsTypeOK
<1>7. RunFollowsV4' => 4 \in versions' BY <1>1, <1>5, <1>6 DEF RunFollowsV4
<1>8. exec' \in [Actors -> Activity] BY <1>2, <1>3
<1>9. LPTypeOK' BY <1>5, <1>6, <1>8 DEF LPTypeOK, RowsTypeOK
<1>10. Shapes' /\ V4Known' BY <1>3, <1>6, <1>7 DEF Shapes, V4Known
<1>11. DeliveriesAreActive' BY <1>1, <1>4 DEF DeliveriesAreActive
<1>12. QED BY <1>9, <1>10, <1>11 DEF LegacyInv

LEMMA AttachedJob ==
    ASSUME LegacyInv, NEW p \in Procs, exec[p].attached
    PROVE  /\ exec[p].job \in JobIds /\ jobs[exec[p].job] \in Job
           /\ jobs[exec[p].job].state = "active" /\ jobs[exec[p].job].left > 0
           /\ \A q \in Procs \ {p} : exec[q].attached => exec[q].job # exec[p].job
           /\ exec[p].pc # "idle"
<1>1. exec[p].job \in JobIds /\ jobs[exec[p].job].state = "active"
      /\ \A q \in Procs \ {p} : exec[q].attached => exec[q].job # exec[p].job
  BY DEF LegacyInv, DeliveriesAreActive
<1>2. jobs[exec[p].job].left > 0 BY <1>1 DEF LegacyInv, TriesAreLeft
<1>3. jobs[exec[p].job] \in Job BY <1>1, TypesOfLegacyInv
<1>4. exec[p].pc # "idle" BY <1>1, ActorIsTyped, ProcsAreNoClients, StageIsOfABody DEF DeliveryShape
<1>5. QED BY <1>1, <1>2, <1>3, <1>4

LEMMA ResolveKeepsInv == ASSUME LegacyInv, NEW p \in Procs, Resolve(p) PROVE LegacyInv'
<1> USE DEF Resolve, At
<1>1. /\ jobs \in [JobIds -> Job] /\ TriesAreLeft BY TypesOfLegacyInv DEF LegacyInv
<1>2. /\ jobs' \in [JobIds -> Job]
      /\ \A j \in JobIds : jobs'[j].left = jobs[j].left
                           /\ (jobs'[j].state # jobs[j].state => jobs'[j].state = "completed")
      /\ \A j \in JobIds :
            (\E q \in Procs \ {p} : exec[q].attached /\ exec[q].job = j) => jobs'[j] = jobs[j]
  BY <1>1, AttachedJob DEF Job
<1>3. TriesAreLeft' BY <1>1, <1>2 DEF TriesAreLeft
<1>4. faults' \in Faults /\ UNCHANGED <<app, rows>> BY TypesOfLegacyInv DEF RowsTypeOK
<1>5. QED BY <1>2, <1>3, <1>4, ActivitiesEnd, IdleFits DEF End

LEMMA FailureKeepsJobs ==
    ASSUME LegacyInv, NEW p \in Procs, exec[p].attached, jobs' = AfterFailure(exec[p].job)
    PROVE  /\ jobs' \in [JobIds -> Job] /\ TriesAreLeft'
           /\ \A j \in JobIds : j # exec[p].job => jobs'[j] = jobs[j]
<1> DEFINE j == exec[p].job
<1>1. jobs \in [JobIds -> Job] /\ TriesAreLeft BY TypesOfLegacyInv DEF LegacyInv
<1>2. j \in JobIds /\ jobs[j] \in Job /\ jobs[j].left \in Nat /\ jobs[j].left > 0
  BY AttachedJob DEF Job
<1>3. jobs' = [jobs EXCEPT ![j] = [state |-> IF jobs[j].left > 1 THEN "waiting" ELSE "failed",
                                  left |-> jobs[j].left - 1]]
  BY DEF AfterFailure
<1> HIDE DEF j
<1>4. jobs' \in [JobIds -> Job] /\ \A k \in JobIds : k # j => jobs'[k] = jobs[k]
  BY <1>1, <1>2, <1>3 DEF Job
<1>5. jobs'[j].state = "failed" \/ jobs'[j].left > 0 BY <1>1, <1>2, <1>3
<1>6. TriesAreLeft' BY <1>1, <1>4, <1>5 DEF TriesAreLeft
<1>7. QED BY <1>4, <1>6 DEF j

\* The exhausted hook runs beside an activity that is over, or that runs on.
LEMMA HookFits ==
    ASSUME NEW p \in Procs, NEW j \in JobIds
    PROVE  LET rec == [Idle EXCEPT !.pc = "giveup", !.job = j] IN
           rec \in Activity /\ Fits(p, rec) /\ ~FollowsV4(rec) /\ ~rec.attached /\ Resting(rec)
<1> DEFINE rec == [Idle EXCEPT !.pc = "giveup", !.job = j]
<1>1. rec \in Activity /\ rec.pc = "giveup" /\ rec.job = j /\ ~rec.attached
  BY IdleFits DEF Activity, Pcs, Idle
<1>2. Resting(rec) BY IdleFits, NoPayloadIsAPayload DEF Resting, Idle, BodyPcs
<1> HIDE DEF rec
<1>3. Fits(p, rec) /\ ~FollowsV4(rec) BY <1>1, <1>2, RestingFits, RestingFollowsNothing
<1>4. QED BY <1>1, <1>2, <1>3 DEF rec

LEMMA RejectKeepsInv == ASSUME LegacyInv, NEW p \in Procs, Reject(p) PROVE LegacyInv'
<1> USE DEF Reject, At
<1> DEFINE j == exec[p].job
<1>1. jobs \in [JobIds -> Job] /\ TriesAreLeft /\ j \in JobIds
  BY TypesOfLegacyInv, DeliveryHasAJob DEF LegacyInv
<1>2. /\ jobs' \in [JobIds -> Job] /\ TriesAreLeft'
      /\ \A k \in JobIds :
            (\E q \in Procs \ {p} : exec[q].attached /\ exec[q].job = k) => jobs'[k] = jobs[k]
  <2>1. CASE exec[p].attached BY <2>1, FailureKeepsJobs, AttachedJob
  <2>2. CASE ~exec[p].attached BY <1>1, <2>2 DEF TriesAreLeft
  <2>3. QED BY <2>1, <2>2
<1>3. faults' \in Faults /\ UNCHANGED <<app, rows>> BY TypesOfLegacyInv DEF RowsTypeOK
<1>4. CASE exec[p].attached /\ Exhausts(j)
  <2> DEFINE fresh == [Idle EXCEPT !.pc = "giveup", !.job = j]
  <2>1. fresh \in Activity /\ Fits(p, fresh) /\ ~FollowsV4(fresh) /\ ~fresh.attached
    BY <1>1, HookFits
  <2>2. /\ run' = [run EXCEPT !.payload = Orphaned(@, {p})]
        /\ exec' = [a \in Actors |-> IF a \in {p} THEN fresh
                                     ELSE [exec[a] EXCEPT !.copy = Orphaned(@, {p})]]
    BY <1>4
  <2> HIDE DEF fresh
  <2>3. QED BY <1>2, <1>3, <2>1, <2>2, ActivitiesEnd
<1>5. CASE ~(exec[p].attached /\ Exhausts(j))
  <2>1. End({p}) BY <1>5
  <2>2. QED BY <1>2, <1>3, <2>1, ActivitiesEnd, IdleFits DEF End
<1>6. QED BY <1>4, <1>5

LEMMA WorkerCrashKeepsInv ==
    ASSUME LegacyInv, NEW P \in SUBSET Procs, WorkerCrash(P) PROVE LegacyInv'
<1> USE DEF WorkerCrash, At
<1>1. /\ jobs \in [JobIds -> Job] /\ TriesAreLeft BY TypesOfLegacyInv DEF LegacyInv
<1>2. \A j \in JobIds :
         (\E p \in P : exec[p].attached /\ exec[p].job = j) => jobs[j].left > 0
  BY AttachedJob
<1>3. jobs' \in [JobIds -> Job] BY <1>1 DEF Job
<1>4. TriesAreLeft' BY <1>1, <1>2 DEF TriesAreLeft, Job
<1>5. \A j \in JobIds :
         (\E q \in Procs \ P : exec[q].attached /\ exec[q].job = j) => jobs'[j] = jobs[j]
  BY AttachedJob
<1>6. faults' \in Faults /\ UNCHANGED <<app, rows>> BY CountsKeepsTypes
<1>7. QED BY <1>3, <1>4, <1>5, <1>6, ActivitiesEnd, IdleFits DEF End

\* A delivery that lost the race against its timeout is as it was, but nobody waits for it.
LEMMA DetachedFits ==
    ASSUME LegacyInv, NEW p \in Procs, exec[p].attached
    PROVE  LET rec == [exec[p] EXCEPT !.attached = FALSE] IN
           /\ rec \in Activity /\ Fits(p, rec) /\ (FollowsV4(rec) => 4 \in versions)
           /\ ~rec.attached /\ rec.job = exec[p].job
<1> DEFINE rec == [exec[p] EXCEPT !.attached = FALSE]
<1>1. /\ p \in Actors /\ p \notin Clients /\ exec[p] \in Activity /\ Shape(exec[p])
      /\ DeliveryShape(exec[p]) /\ (FollowsV4(exec[p]) => 4 \in versions)
  BY ProcsAreNoClients, ActorIsTyped
<1>2. /\ rec \in Activity /\ rec.pc = exec[p].pc /\ rec.job = exec[p].job /\ ~rec.attached
      /\ rec.op = exec[p].op /\ rec.answer = exec[p].answer /\ rec.script = exec[p].script
      /\ rec.adds = exec[p].adds /\ rec.giving = exec[p].giving /\ rec.copy = exec[p].copy
  BY <1>1 DEF Activity
<1> HIDE DEF rec
<1>3. Stage(rec) = Stage(exec[p]) /\ Allowed(rec) = Allowed(exec[p])
      /\ (OpFits(rec) <=> OpFits(exec[p])) /\ Ending(rec) = Ending(exec[p])
  BY <1>2 DEF Stage, Allowed, OpFits, Ending
<1>4. Fits(p, rec) BY <1>1, <1>2, <1>3 DEF Fits, Shape, DeliveryShape
<1>5. FollowsV4(rec) => 4 \in versions BY <1>1, <1>2, <1>3 DEF FollowsV4
<1>6. QED BY <1>2, <1>4, <1>5 DEF rec

LEMMA JobTimeoutKeepsInv ==
    ASSUME LegacyInv, NEW p \in Procs, NEW q \in Procs, JobTimeout(p, q) PROVE LegacyInv'
<1> USE DEF JobTimeout, At
<1> DEFINE j == exec[p].job
           rec == [exec[p] EXCEPT !.attached = FALSE]
           hook == [Idle EXCEPT !.pc = "giveup", !.job = j]
<1>1. /\ exec[p].attached /\ j \in JobIds /\ exec[p].pc # "idle"
      /\ \A s \in Procs \ {p} : exec[s].attached => exec[s].job # j
  BY AttachedJob
<1>2. /\ jobs' \in [JobIds -> Job] /\ TriesAreLeft'
      /\ \A k \in JobIds : k # j => jobs'[k] = jobs[k]
  BY <1>1, FailureKeepsJobs
<1>3. faults' \in Faults /\ UNCHANGED <<app, rows>> BY CountsKeepsTypes
<1>4. /\ rec \in Activity /\ Fits(p, rec) /\ (FollowsV4(rec) => 4 \in versions)
      /\ ~rec.attached /\ rec.job = j
  BY <1>1, DetachedFits
<1>5. hook \in Activity /\ Fits(q, hook) /\ ~FollowsV4(hook) /\ ~hook.attached BY <1>1, HookFits
<1>6. \/ exec' = [exec EXCEPT ![p] = rec]
      \/ q # p /\ exec' = [exec EXCEPT ![p] = rec, ![q] = hook]
  <2>1. CASE Exhausts(j)
    <3>1. q # p /\ p \in Actors /\ q \in Actors BY <1>1, <2>1, ProcsAreNoClients
    <3>2. exec' = [exec EXCEPT ![p].attached = FALSE, ![q] = hook] BY <2>1
    <3>3. [exec EXCEPT ![p].attached = FALSE] = [exec EXCEPT ![p] = rec] OBVIOUS
    <3>4. QED BY <3>1, <3>2, <3>3
  <2>2. CASE ~Exhausts(j)
    <3>1. exec' = [exec EXCEPT ![p].attached = FALSE] BY <2>2
    <3>2. QED BY <3>1
  <2>3. QED BY <2>1, <2>2
<1> HIDE DEF rec, hook, j
<1>7. versions' = versions /\ RowsTypeOK' /\ run' \in Run /\ (RunFollowsV4' => 4 \in versions')
  <2>1. versions' = versions /\ RowsTypeOK' BY <1>3, TypesOfLegacyInv DEF RowsTypeOK, rows
  <2>2. QED BY <2>1, RunIsLeftAlone
<1>8. /\ exec \in [Actors -> Activity] /\ p \in Actors /\ q \in Actors
      /\ \A a \in Actors : Fits(a, exec[a]) /\ (FollowsV4(exec[a]) => 4 \in versions)
  BY TypesOfLegacyInv, ProcsAreNoClients
<1>9. exec' \in [Actors -> Activity] /\ \A a \in Actors : exec'[a] \in {exec[a], rec, hook}
  BY <1>4, <1>5, <1>6, <1>8
<1>10. \A a \in Actors : Fits(a, exec'[a]) /\ (FollowsV4(exec'[a]) => 4 \in versions)
  BY <1>4, <1>5, <1>6, <1>8
<1>11. \A s \in Procs : exec'[s].attached => s # p /\ exec'[s] = exec[s]
  BY <1>4, <1>5, <1>6, <1>8, ProcsAreNoClients
<1>12. DeliveriesAreActive' BY <1>1, <1>2, <1>11 DEF LegacyInv, DeliveriesAreActive, j
<1>13. LPTypeOK' /\ Shapes' /\ V4Known'
  BY <1>2, <1>7, <1>9, <1>10 DEF LPTypeOK, RowsTypeOK, Shapes, V4Known
<1>14. QED BY <1>2, <1>12, <1>13 DEF LegacyInv

LEMMA CallFailsKeepsInv == ASSUME LegacyInv, NEW p \in Procs, CallFails(p) PROVE LegacyInv'
<1> USE DEF CallFails, Working
<1>1. exec[p].pc # "idle" OBVIOUS
<1>2. RowsTypeOK' /\ versions' = versions BY CountsKeepsTypes, TypesOfLegacyInv DEF RowsTypeOK, rows
<1>3. run' \in Run /\ (RunFollowsV4' => 4 \in versions') BY <1>2, RunIsLeftAlone
<1>4. CASE exec[p].pc \in {"load", "claim", "release", "giveup"}
  <2>1. Go(p, Rest(p, "rejected")) /\ "rejected" \in RestPcs BY <1>4 DEF RestPcs
  <2>2. QED BY <1>1, <1>2, <1>3, <2>1, DeliveryRests
<1>5. CASE exec[p].pc \notin {"load", "claim", "release", "giveup"}
  <2>1. Go(p, Thrown(p, "retryable")) BY <1>5
  <2>2. QED BY <1>1, <1>2, <1>3, <2>1, BodyThrows
<1>6. QED BY <1>4, <1>5

LEMMA AnswerExpiresKeepsInv ==
    ASSUME LegacyInv, NEW op \in Operations, AnswerExpires(op) PROVE LegacyInv'
<1> USE DEF AnswerExpires
<1>1. RowsTypeOK /\ faults.expiries \in Nat /\ MaxExpiries \in Nat
  BY TypesOfLegacyInv, LegacyAssumption DEF RowsTypeOK, Faults
<1>2. answers' \in [Operations -> AllAnswers] /\ faults' \in Faults
  BY <1>1 DEF RowsTypeOK, Faults, AllAnswers
<1>3. LPTypeOK' BY <1>1, <1>2, TypesOfLegacyInv DEF LPTypeOK, RowsTypeOK
<1>4. Shapes' /\ TriesAreLeft' /\ DeliveriesAreActive' /\ V4Known'
  BY DEF LegacyInv, Shapes, TriesAreLeft, DeliveriesAreActive, V4Known, RunFollowsV4
<1>5. QED BY <1>3, <1>4 DEF LegacyInv

-----------------------------------------------------------------------------
(* The calls of the API.                                                    *)

LEMMA IdleClient ==
    ASSUME LegacyInv, NEW c \in Clients
    PROVE  /\ c \in Actors /\ c \notin Procs
           /\ exec[c].job = NoJob /\ exec[c].attached = FALSE /\ Stage(exec[c]) = "none"
  BY ProcsAreNoClients, ActorIsTyped, StageIsOfABody DEF ClientShape, Stage

LEMMA ClientStarts ==
    ASSUME LegacyInv, NEW c \in Clients, NEW script, script \in Seq(Ends \cup After("none")),
           EndsOnce(script), Go(c, Then(c, script, NoPayload)), UNCHANGED <<run, jobs, app, rows, faults>>
    PROVE  LegacyInv'
<1> DEFINE rec == Then(c, script, NoPayload)
<1>1. /\ c \in Actors /\ c \notin Procs
      /\ exec[c].job = NoJob /\ exec[c].attached = FALSE /\ exec[c].job \in JobIds \cup {NoJob}
  BY IdleClient
<1>2. /\ rec.pc = "script" /\ rec.job = NoJob /\ ~rec.attached /\ ~rec.giving
      /\ rec.op = NoOperation /\ rec.answer = "none" /\ rec.script = script
      /\ rec.copy = NoPayload /\ ~rec.copy.repair /\ rec.copy.pending = NoOperation
  BY <1>1, NoPayloadIsAPayload DEF Then, Rest, Idle
<1>3. Ends \cup After("none") \subseteq Instructions BY AfterIsInstructions DEF Ends, Instructions
<1>4. script \in Seq(Instructions) BY <1>3, LongerSequences
<1>5. rec \in Activity BY <1>1, <1>4, IdleFits, NoPayloadIsAPayload DEF Then, Rest, Activity, Pcs
<1>6. Go(c, rec) OBVIOUS
<1> HIDE DEF rec
<1>7. Stage(rec) = "none" /\ Allowed(rec) = Ends \cup After("none")
  BY <1>2, StageIsOfABody DEF Stage, Allowed
<1>8. Fits(c, rec) BY <1>1, <1>2, <1>7 DEF Fits, Shape, ClientShape, BodyPcs
<1>9. ~FollowsV4(rec) BY <1>2, <1>7 DEF FollowsV4, NoOperation, Repair
<1>10. RowsTypeOK' /\ versions' = versions BY RowsAreLeftAlone
<1>11. run' \in Run /\ (RunFollowsV4' => 4 \in versions') BY <1>10, RunIsLeftAlone
<1>12. QED BY <1>1, <1>2, <1>5, <1>6, <1>8, <1>9, <1>10, <1>11, ActorMoves

LEMMA ResumePausedKeepsInv == ASSUME LegacyInv, NEW c \in Clients, ResumePaused(c) PROVE LegacyInv'
<1> USE DEF ResumePaused
<1> DEFINE S == Ends \cup After("none")
           script(t) == << <<"move", t>>, <<"app", t>>, <<"end", "resolved">> >>
<1>1. PICK t \in {"RESEARCH_RUNNING", "EVIDENCE_MATCHING_RUNNING"} : Go(c, Then(c, script(t), NoPayload))
  OBVIOUS
<1>2. <<"move", t>> \in S /\ <<"app", t>> \in S /\ <<"move", t>> \notin Last /\ <<"app", t>> \notin Last
  BY FrontScripts DEF FrontStages
<1>3. <<"end", "resolved">> \in S /\ <<"end", "resolved">> \in Last BY DEF Ends, Last
<1> HIDE DEF S
<1>4. script(t) \in Seq(S) /\ EndsOnce(script(t)) BY <1>2, <1>3, ScriptOfThree
<1> DEFINE s == script(t)
<1>5. Go(c, Then(c, s, NoPayload)) /\ s \in Seq(S) /\ EndsOnce(s) BY <1>1, <1>4
<1> HIDE DEF s, script
<1>6. QED BY <1>5, ClientStarts DEF S

LEMMA RetryKeepsInv == ASSUME LegacyInv, NEW c \in Clients, Retry(c) PROVE LegacyInv'
<1> USE DEF Retry
<1>1. c \in Actors /\ c \notin Procs BY IdleClient
<1>2. run \in Run /\ (RunFollowsV4 => 4 \in versions) BY TypesOfLegacyInv
<1>3. run.attempt + 1 \in 1..MaxRunAttempts BY <1>2, LegacyAssumption DEF Run
<1>4. run' \in Run /\ run'.stage = run.stage /\ run'.payload = run.payload
  BY <1>2, <1>3 DEF Run, Statuses
<1>5. RowsTypeOK' /\ versions' = versions BY RowsAreLeftAlone
<1>6. RunFollowsV4' => 4 \in versions' BY <1>2, <1>4, <1>5 DEF RunFollowsV4
<1>7. CASE run.stage \in WorkStages
  <2> DEFINE adds == <<run.stage, run.attempt + 1, "retry">>
             script == << <<"end", "resolved">> >>
             rec == [Idle EXCEPT !.pc = "enqueue", !.adds = adds, !.script = script]
  <2>1. Go(c, rec) BY <1>7
  <2>2. adds \in JobIds BY <1>3, <1>7 DEF JobIds
  <2>3. script \in Seq(Ends) /\ EndsOnce(script) BY ScriptOfOne DEF Ends, Last
  <2> HIDE DEF script, adds
  <2>4. script \in Seq(Instructions) BY <2>3, LongerSequences DEF Ends, Instructions
  <2>5. rec \in Activity BY <2>2, <2>4, IdleFits DEF Activity, Pcs
  <2>6. /\ rec.pc = "enqueue" /\ rec.job = NoJob /\ ~rec.attached /\ ~rec.giving
        /\ rec.op = NoOperation /\ rec.answer = "none" /\ rec.script = script /\ rec.adds = adds
        /\ ~rec.copy.repair /\ rec.copy.pending = NoOperation
    BY NoPayloadIsAPayload DEF Idle
  <2> HIDE DEF rec
  <2>7. Stage(rec) = "none" /\ script \in Seq(Allowed(rec))
    BY <2>3, <2>6, StageIsOfABody, LongerSequences DEF Stage, Allowed
  <2>8. Fits(c, rec) BY <1>1, <2>2, <2>3, <2>6, <2>7 DEF Fits, Shape, ClientShape, BodyPcs
  <2>9. ~FollowsV4(rec) BY <2>6, <2>7 DEF FollowsV4, NoOperation, Repair
  <2>10. QED BY <1>1, <1>4, <1>5, <1>6, <2>1, <2>5, <2>6, <2>8, <2>9, ActorMoves
<1>8. CASE run.stage \notin WorkStages
  <2> DEFINE rec == [Idle EXCEPT !.pc = "done"]
  <2>1. Go(c, rec) BY <1>8
  <2>2. rec \in Activity /\ rec.pc = "done" /\ rec.job = NoJob /\ ~rec.attached /\ Resting(rec)
    BY IdleFits, NoPayloadIsAPayload DEF Activity, Pcs, Resting, BodyPcs, Idle
  <2> HIDE DEF rec
  <2>3. Fits(c, rec) BY <1>1, <2>2 DEF Fits, Shape, ClientShape, Resting, BodyPcs
  <2>4. QED BY <1>1, <1>4, <1>5, <1>6, <2>1, <2>2, <2>3, RestingFollowsNothing, ActorMoves
<1>9. QED BY <1>7, <1>8

-----------------------------------------------------------------------------
(* Every step keeps the invariant.                                          *)

LEMMA ScriptKeepsInv == ASSUME LegacyInv, NEW a \in Actors, Script(a) PROVE LegacyInv'
BY TransitionKeepsInv, EnqueueKeepsInv, WriteApplicationKeepsInv, RefundKeepsInv,
   EndScriptKeepsInv DEF Script

LEMMA StepKeepsInv == ASSUME LegacyInv, NEW p \in Procs, Step(p) PROVE LegacyInv'
BY LoadKeepsInv, ClaimStageKeepsInv, ReleaseKeepsInv, GiveUpKeepsInv, ResolveKeepsInv,
   RejectKeepsInv, ExtractKeepsInv, ExtractionThrowsKeepsInv, ReserveKeepsInv,
   PersistBackendKeepsInv, CallsKeepsInv, CallThrowsKeepsInv, CommitKeepsInv, JudgeKeepsInv,
   LookUpVersionKeepsInv, ParkKeepsInv, AppendVersionKeepsInv, RereadRunKeepsInv,
   NoteVersionKeepsInv, SetCurrentKeepsInv, BecomesReadyKeepsInv, ResumesKeepsInv, StartNextKeepsInv, RecordsKeepInv, CheckLocallyKeepsInv
DEF Step

LEMMA FaultKeepsInv == ASSUME LegacyInv, Fault PROVE LegacyInv'
BY JobTimeoutKeepsInv, WorkerCrashKeepsInv, CallFailsKeepsInv, AnswerExpiresKeepsInv DEF Fault

LEMMA NextKeepsInv == LegacyInv /\ [Next]_vars => LegacyInv'
<1> SUFFICES ASSUME LegacyInv, [Next]_vars PROVE LegacyInv'
  OBVIOUS
<1>1. CASE Next
  BY <1>1, StepKeepsInv, ScriptKeepsInv, DeliverKeepsInv, ResumePausedKeepsInv, RetryKeepsInv,
     FaultKeepsInv, ProcsAreNoClients DEF Next
<1>2. CASE UNCHANGED vars
  BY <1>2 DEF vars, LegacyInv, LPTypeOK, Shapes, TriesAreLeft, DeliveriesAreActive, V4Known,
     RunFollowsV4
<1>3. QED BY <1>1, <1>2

\* The rows, the queue and the activities stay within their types; no transition writes a status
\* that the type does not know.
THEOREM LegacyTypeCorrect == LPSpec => []LPTypeOK
<1>1. LegacyInv => LPTypeOK BY DEF LegacyInv
<1>2. QED BY <1>1, LegacyInvHoldsInitially, NextKeepsInv, PTL DEF LPSpec

-----------------------------------------------------------------------------
(* Steps that make no progress: every activity stays as it is, but for its  *)
(* leases and whether the queue waits for it, or comes to rest.             *)

LEMMA RestingIs ==
    ASSUME NEW rec, Resting(rec)
    PROVE  /\ rec.op = NoOperation /\ rec.op # Repair /\ \A n : rec.op # QaOf(n)
           /\ rec.answer = "none" /\ rec.script = <<>> /\ ~rec.copy.repair /\ ~rec.giving
           /\ rec.pc \notin BodyPcs /\ ~Ending(rec)
           /\ ~Judging(rec) /\ ~Auditing(rec)
           /\ \A x : LacksFrom(rec.script, x)
BY DEF Resting, NoOperation, Repair, QaOf, Ending, Judging, Auditing, LacksFrom

LEMMA AlikeIs ==
    ASSUME NEW rec, NEW old, Alike(rec, old)
    PROVE  /\ Stage(rec) = Stage(old) /\ Ending(rec) = Ending(old)
           /\ Judging(rec) = Judging(old) /\ Auditing(rec) = Auditing(old)
           /\ \A x : LacksFrom(rec.script, x) = LacksFrom(old.script, x)
           /\ \A S : Inside(rec, S) = Inside(old, S)
           /\ \A kept, paid, there : AnswerFits(rec, kept, paid, there) = AnswerFits(old, kept, paid, there)
           /\ Remakes(rec) = Remakes(old) /\ Rejudges(rec) = Rejudges(old)
<1> USE DEF Alike
<1>1. Stage(rec) = Stage(old) /\ Ending(rec) = Ending(old) BY DEF Stage, Ending
<1>2. Judging(rec) = Judging(old) /\ Auditing(rec) = Auditing(old) BY <1>1 DEF Judging, Auditing
<1>3. \A x : LacksFrom(rec.script, x) = LacksFrom(old.script, x) BY DEF LacksFrom
<1>4. \A S : Inside(rec, S) = Inside(old, S) BY DEF Inside
<1>5. \A kept, paid, there : AnswerFits(rec, kept, paid, there) = AnswerFits(old, kept, paid, there)
  BY DEF AnswerFits
<1>6. Remakes(rec) = Remakes(old) BY <1>1 DEF Remakes
<1>7. Rejudges(rec) = Rejudges(old) BY <1>1 DEF Rejudges, LacksFrom
<1>8. QED BY <1>1, <1>2, <1>3, <1>4, <1>5, <1>6, <1>7

LEMMA RestingKeepsAll ==
    ASSUME NEW rec, Resting(rec)
    PROVE  /\ \A kept, paid, there : AnswerFits(rec, kept, paid, there)
           /\ \A reviewed : Goes(rec, reviewed)
           /\ Remakes(rec) /\ Rejudges(rec)
BY RestingIs DEF AnswerFits, Goes, Remakes, Rejudges, BodyPcs, NoOperation, QaOf

LEMMA CalmKeepsAnswers == ASSUME AnswersFit, Calm PROVE AnswersFit'
<1>1. answers' = answers /\ ledger' = ledger /\ versions' = versions BY DEF Calm
<1>2. \A p \in Procs : AnswerFits(exec'[p], answers, ledger, versions)
  BY AlikeIs, RestingKeepsAll DEF Calm, ComesToRest, AnswersFit, Actors
<1>3. QED BY <1>1, <1>2 DEF AnswersFit

LEMMA CalmKeepsWithin ==
    ASSUME NEW S, Within(S), Calm PROVE Within(S)'
<1>1. run'.stage \in S BY DEF Calm, Within
<1>2. \A j \in JobIds : jobs'[j].state # "absent" => j[1] \in S BY DEF Calm, Within
<1>3. ASSUME NEW a \in Actors PROVE Inside(exec'[a], S)
  <2>1. Inside(exec[a], S) BY DEF Within
  <2>2. CASE Alike(exec'[a], exec[a]) BY <2>1, <2>2, AlikeIs
  <2>3. CASE ComesToRest(exec'[a], exec[a])
    <3>1. NoJob[1] = "none" BY DEF NoJob
    <3>2. exec'[a].adds = NoJob \/ exec'[a].adds = exec[a].adds BY <2>3 DEF ComesToRest
    <3>3. exec'[a].job = NoJob \/ exec'[a].job = exec[a].job
          \/ exec'[a].job[1] \in S
      BY <2>3 DEF ComesToRest, Within
    <3>4. exec'[a].script = <<>> BY <2>3 DEF ComesToRest, Resting
    <3>5. QED BY <2>1, <3>1, <3>2, <3>3, <3>4 DEF Inside
  <2>4. QED BY <2>2, <2>3 DEF Calm
<1>4. QED BY <1>1, <1>2, <1>3 DEF Within

LEMMA CalmKeepsLineage == ASSUME Lineage, Calm PROVE Lineage'
<1>1. app' = app /\ answers' = answers /\ versions' = versions /\ run'.stage = run.stage BY DEF Calm
<1>2. CASE FromResearch
  <2>1. Within(FirstStages)' BY <1>2, CalmKeepsWithin DEF FromResearch
  <2>2. ASSUME NEW p \in Procs PROVE Goes(exec'[p], answers[FirstAudit])
    <3>1. Goes(exec[p], answers[FirstAudit]) BY <1>2 DEF FromResearch
    <3>2. Alike(exec'[p], exec[p]) \/ Resting(exec'[p]) BY DEF Calm, ComesToRest, Actors
    <3>3. QED BY <3>1, <3>2, AlikeIs, RestingKeepsAll DEF Goes
  <2>3. \A p \in Procs : Auditing(exec'[p]) => Auditing(exec[p])
    BY AlikeIs, RestingIs DEF Calm, ComesToRest, Actors
  <2>4. FromResearch' BY <1>1, <1>2, <2>1, <2>2, <2>3 DEF FromResearch
  <2>5. QED BY <2>4 DEF Lineage
<1>3. CASE FromGeneration
  <2>1. Within(LaterStages)' BY <1>3, CalmKeepsWithin DEF FromGeneration
  <2>2. \A c \in Clients : exec'[c].script \in Seq(Ends)
    <3>1. <<>> \in Seq(Ends) OBVIOUS
    <3>2. QED BY <1>3, <3>1, RestingIs DEF Calm, ComesToRest, FromGeneration, Actors, Alike
  <2>3. FromGeneration' BY <1>1, <1>3, <2>1, <2>2 DEF FromGeneration
  <2>4. QED BY <2>3 DEF Lineage
<1>4. QED BY <1>2, <1>3 DEF Lineage

LEMMA CalmKeepsQa == ASSUME QaInv, Calm PROVE QaInv'
<1>1. /\ ledger' = ledger /\ answers' = answers /\ versions' = versions /\ run'.stage = run.stage
      /\ run'.payload.repair <=> run.payload.repair
  BY DEF Calm
<1>2. \A p \in Procs : Alike(exec'[p], exec[p]) \/ Resting(exec'[p])
  BY DEF Calm, ComesToRest, Actors
<1>3. \A p \in Procs :
         /\ exec'[p].copy.repair \/ exec'[p].op = Repair => exec[p].copy.repair \/ exec[p].op = Repair
         /\ exec'[p].op = QaOf(4) => exec[p].op = QaOf(4)
         /\ Remakes(exec[p]) => Remakes(exec'[p])
         /\ Rejudges(exec[p]) => Rejudges(exec'[p])
         /\ Judging(exec'[p]) => Judging(exec[p])
         /\ \A x : LacksFrom(exec[p].script, x) => LacksFrom(exec'[p].script, x)
  BY <1>2, AlikeIs, RestingIs, RestingKeepsAll DEF Alike
<1>4. RepairIsJustified'
  <2>1. Announced' => Announced BY <1>1, <1>3 DEF Announced
  <2>2. Forgotten => Forgotten' BY <1>1, <1>3 DEF Forgotten
  <2>3. Repairing => Repairing' BY <1>1, <1>3 DEF Repairing
  <2>4. NotRepaired => NotRepaired' BY <1>1, <1>3 DEF NotRepaired
  <2>5. QED BY <1>1, <2>1, <2>2, <2>3, <2>4 DEF QaInv, RepairIsJustified
<1>5. ReadyIsCleared'
  <2>1. Newest' = Newest BY <1>1 DEF Newest
  <2>2. QED BY <1>1, <1>3, <2>1 DEF QaInv, ReadyIsCleared
<1>6. QED BY <1>4, <1>5 DEF QaInv

LEMMA CalmKeepsWhole == ASSUME Whole, LegacyInv', Calm PROVE Whole'
BY CalmKeepsAnswers, CalmKeepsLineage, CalmKeepsQa DEF Whole

LEMMA RestIsCalm ==
    ASSUME LegacyInv, NEW a \in Actors, NEW rec, Go(a, rec), Resting(rec),
           rec.adds = NoJob \/ rec.adds = exec[a].adds,
           \/ rec.job = exec[a].job
           \/ rec.job \in JobIds /\ jobs[rec.job].state # "absent",
           \A j \in JobIds : jobs'[j].state # "absent" => jobs[j].state # "absent",
           run'.stage = run.stage, run'.payload.repair <=> run.payload.repair,
           run'.payload.pending = run.payload.pending,
           UNCHANGED <<app, ledger, answers, versions>>
    PROVE  Calm
<1>1. exec \in [Actors -> Activity] BY TypesOfLegacyInv
<1>2. \A b \in Actors : exec'[b] = IF b = a THEN rec ELSE exec[b] BY <1>1 DEF Go
<1>3. \A b \in Actors : Alike(exec'[b], exec[b]) \/ ComesToRest(exec'[b], exec[b])
  BY <1>2 DEF Alike, ComesToRest
<1>4. QED BY <1>3 DEF Calm

LEMMA PlainRestIsCalm ==
    ASSUME LegacyInv, NEW p \in Procs, exec[p].pc # "idle", NEW pc \in RestPcs, Go(p, Rest(p, pc)),
           UNCHANGED jobs, run'.stage = run.stage, run'.payload.repair <=> run.payload.repair,
           run'.payload.pending = run.payload.pending,
           UNCHANGED <<app, ledger, answers, versions>>
    PROVE  Calm
<1> DEFINE rec == Rest(p, pc)
<1>1. p \in Actors /\ Resting(rec) /\ rec.job = exec[p].job /\ rec.adds = NoJob
  BY ProcsAreNoClients, PlainRestFits, RestIs
<1>2. Go(p, rec) OBVIOUS
<1> HIDE DEF rec
<1>3. QED BY <1>1, <1>2, RestIsCalm

LEMMA ExtractGoesOn ==
    ASSUME LegacyInv, NEW p \in Procs, Extract(p), app' = app, Go(p, GoesOn(p)), ~Calm
    PROVE  Go(p, [exec[p] EXCEPT !.pc = "reserve"])
<1> USE DEF Extract, At
<1>1. exec[p].pc # "idle" /\ UNCHANGED <<run, jobs, app, ledger, answers, versions>> BY DEF rows
<1>2. CASE app = "RESEARCH_REVIEW_REQUIRED"
  <2>1. Go(p, Rest(p, "resolved")) /\ "resolved" \in RestPcs BY <1>2 DEF GoesOn, RestPcs
  <2>2. QED BY <1>1, <2>1, PlainRestIsCalm
<1>3. QED BY <1>2 DEF GoesOn

LEMMA ThrownIsCalm ==
    ASSUME LegacyInv, NEW a \in Actors, exec[a].pc # "idle",
           NEW error \in {"none", "retryable", "permanent"}, Go(a, Thrown(a, error)),
           UNCHANGED jobs, run'.stage = run.stage, run'.payload.repair <=> run.payload.repair,
           run'.payload.pending = run.payload.pending,
           UNCHANGED <<app, ledger, answers, versions>>
    PROVE  Calm
<1> DEFINE rec == Thrown(a, error)
<1>1. Resting(rec) /\ rec.job = exec[a].job BY ThrownFits
<1>2. rec.adds = NoJob BY RestIs DEF Thrown, Rest, Idle
<1>3. Go(a, rec) OBVIOUS
<1> HIDE DEF rec
<1>4. QED BY <1>1, <1>2, <1>3, RestIsCalm

LEMMA LoadIsCalm == ASSUME LegacyInv, NEW p \in Procs, Load(p) PROVE Calm
<1> USE DEF Load, At
<1>1. exec[p].pc = "load" /\ Shape(exec[p]) /\ exec[p] \in Activity /\ p \in Actors
  BY ProcsAreNoClients, ActorIsTyped
<1>2. Resting(exec[p]) BY <1>1 DEF Shape, Resting, BodyPcs
<1>3. PICK pc \in {"claim", "resolved"} : Go(p, [exec[p] EXCEPT !.pc = pc]) OBVIOUS
<1> DEFINE rec == [exec[p] EXCEPT !.pc = pc]
<1>4. Resting(rec) /\ rec.adds = exec[p].adds /\ rec.job = exec[p].job
  BY <1>1, <1>2 DEF Activity, Resting, BodyPcs
<1>5. Go(p, rec) BY <1>3
<1> HIDE DEF rec
<1>6. QED BY <1>1, <1>4, <1>5, RestIsCalm DEF rows

LEMMA ReleaseIsCalm == ASSUME LegacyInv, NEW p \in Procs, Release(p) PROVE Calm
<1> USE DEF Release, At
<1> DEFINE key == exec[p].job[1]
<1>1. exec[p].pc # "idle" /\ key \in WorkStages /\ run \in Run BY DeliveryHasAJob, TypesOfLegacyInv
<1>2. run'.stage = run.stage /\ (run'.payload.repair <=> run.payload.repair)
      /\ run'.payload.pending = run.payload.pending
  BY <1>1 DEF Run, Payload
<1>3. PICK pc \in RestPcs : Go(p, Rest(p, pc)) BY DEF RestPcs
<1>4. QED BY <1>1, <1>2, <1>3, PlainRestIsCalm DEF rows

LEMMA DeliverIsCalm == ASSUME LegacyInv, NEW p \in Procs, NEW j \in JobIds, Deliver(p, j) PROVE Calm
<1> USE DEF Deliver, At
<1> DEFINE rec == [Idle EXCEPT !.pc = "load", !.job = j, !.attached = TRUE]
<1>1. p \in Actors /\ jobs \in [JobIds -> Job] BY ProcsAreNoClients, TypesOfLegacyInv
<1>2. Resting(rec) /\ rec.adds = NoJob /\ rec.job = j
  BY IdleFits, NoPayloadIsAPayload DEF Resting, Idle, BodyPcs
<1>3. Go(p, rec) OBVIOUS
<1> HIDE DEF rec
<1>4. \A k \in JobIds : jobs'[k].state # "absent" => jobs[k].state # "absent" BY <1>1 DEF Job
<1>5. QED BY <1>1, <1>2, <1>3, <1>4, RestIsCalm DEF rows

LEMMA IdleRests == Resting(Idle) /\ Idle.adds = NoJob /\ Idle.job = NoJob
BY NoPayloadIsAPayload DEF Resting, Idle, BodyPcs

LEMMA GoingOnIsAlike == ASSUME NEW rec \in Activity, NEW P PROVE Alike(GoesOnWithout(rec, P), rec)
<1> DEFINE copy == Orphaned(rec.copy, P)
<1>1. (copy.repair <=> rec.copy.repair) /\ copy.pending = rec.copy.pending
  BY OrphanedIs DEF Activity
<1>2. GoesOnWithout(rec, P) = [rec EXCEPT !.copy = copy] BY DEF GoesOnWithout
<1> HIDE DEF copy
<1>3. QED BY <1>1, <1>2 DEF Alike, Activity

LEMMA EndIsCalm ==
    ASSUME LegacyInv, NEW P \in SUBSET Procs, NEW fresh, Resting(fresh), fresh.adds = NoJob,
           \/ fresh.job = NoJob
           \/ fresh.job \in JobIds /\ jobs[fresh.job].state # "absent",
           run' = [run EXCEPT !.payload = Orphaned(@, P)],
           exec' = [a \in Actors |-> IF a \in P THEN fresh ELSE [exec[a] EXCEPT !.copy = Orphaned(@, P)]],
           \A j \in JobIds : jobs'[j].state # "absent" => jobs[j].state # "absent",
           UNCHANGED <<app, rows>>
    PROVE  Calm
<1>1. run \in Run /\ \A a \in Actors : exec[a] \in Activity BY TypesOfLegacyInv
<1>2. exec' = [a \in Actors |-> IF a \in P THEN fresh ELSE GoesOnWithout(exec[a], P)]
  BY DEF GoesOnWithout
<1>3. \A a \in Actors : Alike(exec'[a], exec[a]) \/ ComesToRest(exec'[a], exec[a])
  BY <1>1, <1>2, GoingOnIsAlike DEF ComesToRest
<1>4. run'.stage = run.stage /\ (run'.payload.repair <=> run.payload.repair)
      /\ run'.payload.pending = run.payload.pending
  <2> DEFINE payload == Orphaned(run.payload, P)
  <2>1. (payload.repair <=> run.payload.repair) /\ payload.pending = run.payload.pending
    BY <1>1, OrphanedIs DEF Run
  <2>2. run' = [run EXCEPT !.payload = payload] OBVIOUS
  <2> HIDE DEF payload
  <2>3. QED BY <1>1, <2>1, <2>2 DEF Run
<1>5. QED BY <1>3, <1>4 DEF Calm, rows

LEMMA ResolveIsCalm == ASSUME LegacyInv, NEW p \in Procs, Resolve(p) PROVE Calm
<1> USE DEF Resolve, At
<1>1. jobs \in [JobIds -> Job] BY TypesOfLegacyInv
<1>2. \A j \in JobIds : jobs'[j].state # "absent" => jobs[j].state # "absent"
  BY <1>1, AttachedJob DEF Job
<1>3. QED BY <1>2, EndIsCalm, IdleRests DEF End

LEMMA FailedJobIsThere ==
    ASSUME LegacyInv, NEW p \in Procs, exec[p].attached, jobs' = AfterFailure(exec[p].job)
    PROVE  \A j \in JobIds : jobs'[j].state # "absent" => jobs[j].state # "absent"
BY FailureKeepsJobs, AttachedJob

LEMMA RejectIsCalm == ASSUME LegacyInv, NEW p \in Procs, Reject(p) PROVE Calm
<1> USE DEF Reject, At
<1> DEFINE j == exec[p].job
<1>1. \A k \in JobIds : jobs'[k].state # "absent" => jobs[k].state # "absent" BY FailedJobIsThere
<1>2. CASE exec[p].attached /\ Exhausts(j)
  <2> DEFINE fresh == [Idle EXCEPT !.pc = "giveup", !.job = j]
  <2>1. j \in JobIds /\ jobs[j].state # "absent" BY <1>2, AttachedJob
  <2>2. Resting(fresh) /\ fresh.adds = NoJob /\ fresh.job = j BY <2>1, HookFits DEF Idle
  <2>3. /\ run' = [run EXCEPT !.payload = Orphaned(@, {p})]
        /\ exec' = [a \in Actors |-> IF a \in {p} THEN fresh
                                     ELSE [exec[a] EXCEPT !.copy = Orphaned(@, {p})]]
    BY <1>2
  <2> HIDE DEF fresh
  <2>4. QED BY <1>1, <2>1, <2>2, <2>3, EndIsCalm
<1>3. CASE ~(exec[p].attached /\ Exhausts(j))
  <2>1. End({p}) BY <1>3
  <2>2. QED BY <1>1, <2>1, EndIsCalm, IdleRests DEF End
<1>4. QED BY <1>2, <1>3

LEMMA WorkerCrashIsCalm == ASSUME LegacyInv, NEW P \in SUBSET Procs, WorkerCrash(P) PROVE Calm
<1> USE DEF WorkerCrash
<1>1. jobs \in [JobIds -> Job] BY TypesOfLegacyInv
<1>2. \A j \in JobIds : jobs'[j].state # "absent" => jobs[j].state # "absent"
  BY <1>1, AttachedJob DEF Job
<1>3. QED BY <1>2, EndIsCalm, IdleRests DEF End

LEMMA JobTimeoutIsCalm ==
    ASSUME LegacyInv, NEW p \in Procs, NEW q \in Procs, JobTimeout(p, q) PROVE Calm
<1> USE DEF JobTimeout, At
<1> DEFINE j == exec[p].job
           rec == [exec[p] EXCEPT !.attached = FALSE]
           hook == [Idle EXCEPT !.pc = "giveup", !.job = j]
<1>1. /\ exec[p].attached /\ j \in JobIds /\ exec[p].pc # "idle" /\ jobs[j].state # "absent"
      /\ exec \in [Actors -> Activity] /\ p \in Actors /\ q \in Actors
  BY AttachedJob, TypesOfLegacyInv, ProcsAreNoClients
<1>2. \A k \in JobIds : jobs'[k].state # "absent" => jobs[k].state # "absent" BY FailedJobIsThere
<1>3. Alike(rec, exec[p]) BY <1>1 DEF Alike, Activity
<1>4. Resting(hook) /\ hook.adds = NoJob /\ hook.job = j BY <1>1, HookFits DEF Idle
<1>5. \A a \in Actors : exec'[a] \in {exec[a], hook} \/ (a = p /\ exec'[a] = rec)
  <2>1. CASE Exhausts(j)
    <3>1. exec' = [exec EXCEPT ![p].attached = FALSE, ![q] = hook] BY <2>1
    <3>2. QED BY <1>1, <3>1
  <2>2. CASE ~Exhausts(j)
    <3>1. exec' = [exec EXCEPT ![p].attached = FALSE] BY <2>2
    <3>2. QED BY <1>1, <3>1
  <2>3. QED BY <2>1, <2>2
<1> HIDE DEF rec, hook, j
<1>6. \A a \in Actors : Alike(exec'[a], exec[a]) \/ ComesToRest(exec'[a], exec[a])
  BY <1>1, <1>3, <1>4, <1>5 DEF ComesToRest, Alike
<1>7. QED BY <1>2, <1>6 DEF Calm, rows

LEMMA CallFailsIsCalm == ASSUME LegacyInv, NEW p \in Procs, CallFails(p) PROVE Calm
<1> USE DEF CallFails, Working, At
<1>1. p \in Actors /\ exec[p].pc # "idle" BY ProcsAreNoClients
<1>2. CASE exec[p].pc \in {"load", "claim", "release", "giveup"}
  <2>1. Go(p, Rest(p, "rejected")) /\ "rejected" \in RestPcs BY <1>2 DEF RestPcs
  <2>2. QED BY <1>1, <2>1, PlainRestIsCalm DEF rows
<1>3. CASE exec[p].pc \notin {"load", "claim", "release", "giveup"}
  <2>1. Go(p, Thrown(p, "retryable")) BY <1>3
  <2>2. QED BY <1>1, <2>1, ThrownIsCalm DEF rows
<1>4. QED BY <1>2, <1>3

LEMMA ThrowsAreCalm ==
    ASSUME LegacyInv, NEW p \in Procs, CallThrows(p) \/ ExtractionThrows(p) PROVE Calm
<1> USE DEF CallThrows, ExtractionThrows, At
<1>1. p \in Actors /\ exec[p].pc # "idle" BY ProcsAreNoClients
<1>2. PICK error \in {"retryable", "permanent"} : Go(p, Thrown(p, error)) OBVIOUS
<1>3. QED BY <1>1, <1>2, ThrownIsCalm DEF rows

LEMMA EndScriptIsCalm == ASSUME LegacyInv, NEW a \in Actors, EndScript(a) PROVE Calm
<1> USE DEF EndScript, At
<1>1. exec[a].pc # "idle" OBVIOUS
<1>2. CASE a \in Clients
  <2> DEFINE rec == Rest(a, "done")
  <2>1. Resting(rec) /\ rec.job = exec[a].job /\ rec.adds = NoJob BY <1>2, DoneFits, RestIs
  <2>2. Go(a, rec) BY <1>2
  <2> HIDE DEF rec
  <2>3. QED BY <2>1, <2>2, RestIsCalm DEF rows
<1>3. CASE a \notin Clients
  <2>1. a \in Procs BY <1>3 DEF Actors
  <2>2. CASE Head(exec[a].script)[2] = "permanent"
    <3>1. Go(a, Thrown(a, "permanent")) BY <1>3, <2>2
    <3>2. QED BY <1>1, <3>1, ThrownIsCalm DEF rows
  <2>3. CASE Head(exec[a].script)[2] # "permanent"
    <3>1. Go(a, Rest(a, "resolved")) /\ "resolved" \in RestPcs BY <1>3, <2>3 DEF RestPcs
    <3>2. QED BY <1>1, <2>1, <3>1, PlainRestIsCalm DEF rows
  <2>4. QED BY <2>2, <2>3
<1>4. QED BY <1>2, <1>3

LEMMA StepsAre ==
    ASSUME LegacyInv, [Next]_vars
    PROVE  \/ Calm
           \/ \E a \in Actors : Speaks(a)
           \/ \E p \in Procs : Works(p) \/ Finishes(p)
           \/ \E c \in Clients : ResumePaused(c) \/ Retry(c)
           \/ \E op \in Operations : AnswerExpires(op)
<1>1. CASE UNCHANGED vars BY <1>1 DEF vars, Calm, Alike
<1>2. ASSUME NEW a \in Actors, Script(a) PROVE Calm \/ Speaks(a)
  BY <1>2, EndScriptIsCalm DEF Script, Speaks
<1>3. ASSUME NEW p \in Procs, Step(p) PROVE Calm \/ Works(p) \/ Finishes(p)
  <2>1. CASE Load(p) \/ Release(p) \/ Resolve(p) \/ Reject(p) \/ CallThrows(p) \/ ExtractionThrows(p)
    BY <2>1, LoadIsCalm, ReleaseIsCalm, ResolveIsCalm, RejectIsCalm, ThrowsAreCalm
  <2>2. QED BY <1>3, <2>1 DEF Step, Works, Finishes
<1>4. ASSUME NEW p \in Procs, NEW j \in JobIds, Deliver(p, j) PROVE Calm BY <1>4, DeliverIsCalm
<1>5. CASE Fault BY <1>5, JobTimeoutIsCalm, WorkerCrashIsCalm, CallFailsIsCalm DEF Fault
<1>6. QED BY <1>1, <1>2, <1>3, <1>4, <1>5, ProcsAreNoClients DEF Next

-----------------------------------------------------------------------------
(* Steps of one actor that make progress.                                   *)

LEMMA AnswersMove ==
    ASSUME LegacyInv, AnswersFit, NEW a \in Actors, NEW rec, Go(a, rec),
           a \in Procs => AnswerFits(rec, answers', ledger', versions'),
           \A op \in Operations :
              /\ answers'[op] \in Answers(op) \cup {"none"}
              /\ answers[op] # "none" => answers'[op] = answers[op]
              /\ ledger[op] = "committed" => ledger'[op] = "committed",
           versions \subseteq versions'
    PROVE  AnswersFit'
<1>1. exec' = [exec EXCEPT ![a] = rec] /\ exec \in [Actors -> Activity] BY TypesOfLegacyInv DEF Go
<1>2. ASSUME NEW p \in Procs PROVE AnswerFits(exec'[p], answers', ledger', versions')
  <2>1. CASE p = a BY <1>1, <2>1
  <2>2. CASE p # a
    <3>1. exec'[p] = exec[p] /\ exec[p] \in Activity /\ p \in Actors
      BY <1>1, <2>2, ProcsAreNoClients
    <3>2. AnswerFits(exec[p], answers, ledger, versions) BY DEF AnswersFit
    <3>3. exec[p].answer # "none" => exec[p].op \in Operations
      BY <3>1, <3>2 DEF AnswerFits, Activity
    <3>4. exec[p].answer # "none" => answers'[exec[p].op] = exec[p].answer
      BY <3>2, <3>3 DEF AnswerFits
    <3>5. exec[p].pc = "judge" => ledger'[exec[p].op] = "committed" BY <3>2, <3>3 DEF AnswerFits
    <3>6. QED BY <3>1, <3>2, <3>4, <3>5 DEF AnswerFits
  <2>3. QED BY <2>1, <2>2
<1>3. QED BY <1>2 DEF AnswersFit

\* Where the rows of the calls do not change.
LEMMA AnswersStay ==
    ASSUME LegacyInv, AnswersFit, NEW a \in Actors, NEW rec, Go(a, rec),
           a \in Procs => AnswerFits(rec, answers, ledger, versions),
           UNCHANGED <<ledger, answers, versions>>
    PROVE  AnswersFit'
BY AnswersMove DEF AnswersFit

LEMMA NoneIsNoStage == "none" \notin WorkStages
BY DEF WorkStages, QueuedStages, GeneratingStages, RunningStages, AuditStages

\* The queue stays, or gets the job the actor was to add.
LEMMA WithinMoves ==
    ASSUME LegacyInv, NEW S, Within(S), NEW a \in Actors, NEW rec, Go(a, rec), Inside(rec, S),
           run'.stage \in S,
           MayAdd(a)
    PROVE  Within(S)'
<1>1. exec' = [exec EXCEPT ![a] = rec] /\ exec \in [Actors -> Activity] BY TypesOfLegacyInv DEF Go
<1>2. ASSUME NEW j \in JobIds, jobs'[j].state # "absent" PROVE j[1] \in S
  <2>1. CASE UNCHANGED jobs BY <1>2, <2>1 DEF Within
  <2>2. CASE exec[a].adds \in JobIds /\ jobs' = [jobs EXCEPT ![exec[a].adds].state = "waiting"]
    <3>1. jobs \in [JobIds -> Job] BY TypesOfLegacyInv
    <3>2. CASE j = exec[a].adds BY <2>2, <3>2, StageIsOfABody, NoneIsNoStage DEF Within, Inside
    <3>3. CASE j # exec[a].adds BY <1>2, <2>2, <3>1, <3>3 DEF Within
    <3>4. QED BY <3>2, <3>3
  <2>3. QED BY <2>1, <2>2
<1>3. QED BY <1>1, <1>2 DEF Within

LEMMA ResearchMoves ==
    ASSUME LegacyInv, FromResearch, NEW a \in Actors, NEW rec, Go(a, rec), Inside(rec, FirstStages),
           run'.stage \in FirstStages,
           MayAdd(a),
           4 \notin versions',
           a \in Procs => Goes(rec, answers'[FirstAudit]),
           answers[FirstAudit] # "none" => answers'[FirstAudit] = answers[FirstAudit],
           answers'[FirstAudit] # answers[FirstAudit] => a \in Procs /\ Auditing(exec[a]),
           run'.stage = "HR_AUDIT_1_REVIEW" =>
              \/ answers'[FirstAudit] = "done"
              \/ run.stage = "HR_AUDIT_1_REVIEW" /\ (a \in Procs /\ Auditing(rec) => Auditing(exec[a]))
    PROVE  FromResearch'
<1>1. exec' = [exec EXCEPT ![a] = rec] /\ exec \in [Actors -> Activity] BY TypesOfLegacyInv DEF Go
<1>2. Within(FirstStages)' BY WithinMoves DEF FromResearch
<1>3. ASSUME NEW p \in Procs PROVE Goes(exec'[p], answers'[FirstAudit])
  <2>1. exec'[p] = IF p = a THEN rec ELSE exec[p] BY <1>1, ProcsAreNoClients
  <2>2. Goes(exec[p], answers[FirstAudit]) BY DEF FromResearch
  <2>3. Goes(exec[p], answers'[FirstAudit]) BY <2>2 DEF Goes
  <2>4. QED BY <2>1, <2>3
<1>4. run'.stage = "HR_AUDIT_1_REVIEW" =>
          \/ answers'[FirstAudit] = "done"
          \/ answers'[FirstAudit] = "none" /\ \A p \in Procs : ~Auditing(exec'[p])
  <2> SUFFICES ASSUME run'.stage = "HR_AUDIT_1_REVIEW", answers'[FirstAudit] # "done"
               PROVE  answers'[FirstAudit] = "none" /\ \A p \in Procs : ~Auditing(exec'[p])
    OBVIOUS
  <2>1. run.stage = "HR_AUDIT_1_REVIEW" /\ (a \in Procs /\ Auditing(rec) => Auditing(exec[a]))
    OBVIOUS
  <2>2. answers[FirstAudit] = "none" /\ \A p \in Procs : ~Auditing(exec[p]) BY <2>1 DEF FromResearch
  <2>3. QED BY <1>1, <2>1, <2>2, ProcsAreNoClients
<1>5. QED BY <1>2, <1>3, <1>4 DEF FromResearch

LEMMA GenerationMoves ==
    ASSUME LegacyInv, FromGeneration, NEW a \in Actors, NEW rec, Go(a, rec), Inside(rec, LaterStages),
           run'.stage \in LaterStages,
           MayAdd(a),
           app' \in LaterStages,
           a \in Clients => rec.script \in Seq(Ends)
    PROVE  FromGeneration'
<1>1. exec' = [exec EXCEPT ![a] = rec] /\ exec \in [Actors -> Activity] BY TypesOfLegacyInv DEF Go
<1>2. Within(LaterStages)' BY WithinMoves DEF FromGeneration
<1>3. \A c \in Clients : exec'[c].script \in Seq(Ends) BY <1>1, ProcsAreNoClients DEF FromGeneration
<1>4. QED BY <1>2, <1>3 DEF FromGeneration

\* The body stays where it is, with nothing to write yet.
LEMMA LineageOfABody ==
    ASSUME LegacyInv, Lineage, NEW p \in Procs, NEW rec, Go(p, rec),
           rec.job = exec[p].job, rec.adds = exec[p].adds, rec.script = <<>>,
           Auditing(rec) => Auditing(exec[p]),
           run'.stage = run.stage, UNCHANGED <<jobs, app, answers>>,
           4 \notin versions => 4 \notin versions'
    PROVE  Lineage'
<1>1. p \in Actors /\ p \notin Clients BY ProcsAreNoClients
<1>2. CASE FromResearch
  <2>1. Inside(rec, FirstStages) /\ run'.stage \in FirstStages
    BY <1>1, <1>2 DEF FromResearch, Within, Inside
  <2>2. Goes(rec, answers'[FirstAudit]) BY DEF Goes, LacksFrom
  <2>3. run'.stage = "HR_AUDIT_1_REVIEW" => run.stage = "HR_AUDIT_1_REVIEW" OBVIOUS
  <2>4. 4 \notin versions' BY <1>2 DEF FromResearch
  <2>5. FromResearch' BY <1>1, <1>2, <2>1, <2>2, <2>3, <2>4, ResearchMoves
  <2>6. QED BY <2>5 DEF Lineage
<1>3. CASE FromGeneration
  <2>1. Inside(rec, LaterStages) /\ run'.stage \in LaterStages /\ app' \in LaterStages
    BY <1>1, <1>3 DEF FromGeneration, Within, Inside
  <2>2. FromGeneration' BY <1>1, <1>3, <2>1, GenerationMoves
  <2>3. QED BY <2>2 DEF Lineage
<1>4. QED BY <1>2, <1>3 DEF Lineage

-----------------------------------------------------------------------------
(* Under which conditions a step of one actor keeps Final QA's part.        *)

LEMMA QaMoves ==
    ASSUME LegacyInv, QaInv, NEW a \in Actors, NEW rec, Go(a, rec),
           RepairVersion \in versions' <=> RepairVersion \in versions,
           \A n \in {4, RepairVersion} :
              \/ answers'[QaOf(n)] = answers[QaOf(n)]
              \/ a \in Procs /\ Judging(exec[a]) /\ exec[a].op = QaOf(n) /\ answers[QaOf(n)] = "none",
           \A op \in Operations : ledger[op] = "committed" => ledger'[op] = "committed",
           \/ run'.payload.repair \/ (a \in Procs /\ (rec.copy.repair \/ rec.op = Repair)) => Announced
           \/ answers'[QaOf(4)] = "repairable" /\ ledger'[QaOf(4)] = "committed",
           a \in Procs =>
              /\ rec.op = QaOf(4) => exec[a].op = QaOf(4) \/ RepairVersion \notin versions
              /\ LacksFrom(rec.script, <<"put", "FINAL_READY">>) \/ Cleared(answers', ledger', Newest),
           Repairing =>
              /\ run'.payload.repair /\ run'.stage \notin QaSide
              /\ a \in Procs => Remakes(rec),
           NotRepaired =>
              \/ answers'[QaOf(4)] = "repairable"
              \/ /\ run'.payload.repair /\ run'.stage \in QaSide \cup {"FAILED"}
                 /\ a \in Procs => Rejudges(rec),
           run'.stage = "FINAL_READY" =>
              \/ Cleared(answers', ledger', Newest)
              \/ run.stage = "FINAL_READY" /\ (a \in Procs /\ Judging(rec) => Judging(exec[a]))
    PROVE  QaInv'
<1>1. exec' = [exec EXCEPT ![a] = rec] /\ exec \in [Actors -> Activity] BY TypesOfLegacyInv DEF Go
<1>2. \A p \in Procs : exec'[p] = IF p = a THEN rec ELSE exec[p] BY <1>1, ProcsAreNoClients
<1>3. QaOf(4) \in Operations /\ QaOf(Newest) \in Operations /\ Newest' = Newest
      /\ Newest \in {4, RepairVersion} /\ QaOf(4) # Repair
  BY DEF QaOf, Operations, Newest, Repair
<1>4. RepairIsJustified'
  <2> SUFFICES ASSUME Announced'
               PROVE  /\ ledger'[QaOf(4)] = "committed"
                      /\ answers'[QaOf(4)] = "repairable" \/ Forgotten' \/ Repairing' \/ NotRepaired'
    BY DEF RepairIsJustified
  <2>1. CASE answers'[QaOf(4)] = "repairable" /\ ledger'[QaOf(4)] = "committed" BY <2>1
  <2>2. CASE ~(answers'[QaOf(4)] = "repairable" /\ ledger'[QaOf(4)] = "committed")
    <3>1. Announced BY <1>2, <2>2 DEF Announced
    <3>2. ledger'[QaOf(4)] = "committed" BY <1>3, <3>1 DEF QaInv, RepairIsJustified
    <3>3. answers[QaOf(4)] = "repairable" => answers'[QaOf(4)] = "repairable" OBVIOUS
    <3>4. Forgotten => Forgotten' BY <1>2 DEF Forgotten
    <3>5. Repairing => Repairing'
      <4> SUFFICES ASSUME Repairing PROVE Repairing'
        OBVIOUS
      <4>1. answers'[QaOf(4)] = "none" BY <1>3 DEF Repairing, Remakes, Judging, AuditStages
      <4>2. QED BY <1>2, <4>1 DEF Repairing
    <3>6. NotRepaired => answers'[QaOf(4)] = "repairable" \/ NotRepaired' BY <1>2 DEF NotRepaired
    <3>7. QED BY <3>1, <3>2, <3>3, <3>4, <3>5, <3>6 DEF QaInv, RepairIsJustified
  <2>3. QED BY <2>1, <2>2
<1>5. ReadyIsCleared'
  <2>1. \/ answers'[QaOf(Newest)] = answers[QaOf(Newest)]
        \/ /\ a \in Procs /\ Judging(exec[a]) /\ exec[a].op = QaOf(Newest)
           /\ answers[QaOf(Newest)] = "none"
    BY <1>3
  <2>2. ASSUME NEW p \in Procs
        PROVE  LacksFrom(exec'[p].script, <<"put", "FINAL_READY">>) \/ Cleared(answers', ledger', Newest)
    <3>1. CASE p = a BY <1>2, <3>1
    <3>2. CASE p # a
      <4>1. exec'[p] = exec[p] BY <1>2, <3>2
      <4>2. \/ LacksFrom(exec[p].script, <<"put", "FINAL_READY">>)
            \/ answers[QaOf(Newest)] = "passed" /\ ledger[QaOf(Newest)] = "committed"
        BY DEF QaInv, ReadyIsCleared
      <4>3. QED BY <1>3, <2>1, <4>1, <4>2 DEF Cleared
    <3>3. QED BY <3>1, <3>2
  <2>3. run'.stage = "FINAL_READY" =>
          /\ ledger'[QaOf(Newest)] = "committed"
          /\ \/ answers'[QaOf(Newest)] = "passed"
             \/ answers'[QaOf(Newest)] = "none" /\ \A p \in Procs : ~Judging(exec'[p])
    <3> SUFFICES ASSUME run.stage = "FINAL_READY", a \in Procs /\ Judging(rec) => Judging(exec[a])
                 PROVE  /\ ledger'[QaOf(Newest)] = "committed"
                        /\ \/ answers'[QaOf(Newest)] = "passed"
                           \/ answers'[QaOf(Newest)] = "none" /\ \A p \in Procs : ~Judging(exec'[p])
      BY DEF Cleared
    <3>1. /\ ledger[QaOf(Newest)] = "committed"
          /\ \/ answers[QaOf(Newest)] = "passed"
             \/ answers[QaOf(Newest)] = "none" /\ \A p \in Procs : ~Judging(exec[p])
      BY DEF QaInv, ReadyIsCleared
    <3>2. QED BY <1>2, <1>3, <2>1, <3>1
  <2>4. QED BY <1>3, <2>2, <2>3 DEF ReadyIsCleared, Cleared
<1>6. QED BY <1>4, <1>5 DEF QaInv

\* A run that started at research has nothing to do with it.
LEMMA ResearchHasNoQa == LegacyInv /\ FromResearch => QaInv
<1> SUFFICES ASSUME LegacyInv, FromResearch PROVE QaInv
  OBVIOUS
<1>1. 4 \notin versions /\ run.stage \in FirstStages BY DEF FromResearch, Within
<1>2. ~RunFollowsV4 /\ \A a \in Actors : ~FollowsV4(exec[a]) BY <1>1, TypesOfLegacyInv
<1>3. ~Announced BY <1>2, ProcsAreNoClients DEF Announced, RunFollowsV4, FollowsV4
<1>4. run.stage # "FINAL_READY" BY <1>1 DEF FirstStages, FrontStages
<1>5. ASSUME NEW p \in Procs PROVE LacksFrom(exec[p].script, <<"put", "FINAL_READY">>)
  <2>1. /\ p \in Actors /\ exec[p] \in Activity /\ Shape(exec[p]) /\ ~FollowsV4(exec[p])
    BY <1>2, ProcsAreNoClients, ActorIsTyped
  <2>2. exec[p].script \in Seq(Allowed(exec[p])) /\ Allowed(exec[p]) \subseteq Instructions
    BY <2>1, AllowedIsInstructions DEF Shape
  <2>3. CASE exec[p].script = <<>> BY <2>3 DEF LacksFrom
  <2>4. CASE exec[p].script # <<>>
    <3>1. <<"put", "FINAL_READY">> \notin Allowed(exec[p])
      <4>1. <<"put", "FINAL_READY">> \notin Ends /\ <<"put", "FINAL_READY">> \notin Givings
        BY DEF Ends, Givings
      <4>2. CASE exec[p].giving BY <4>1, <4>2 DEF Allowed
      <4>3. CASE ~exec[p].giving
        <5>1. Ending(exec[p]) BY <2>4, <4>3 DEF Ending
        <5>2. Stage(exec[p]) \in (BodyStages \cup {"none"}) \ {"FINAL_QA_RUNNING", "V4_GENERATING"}
          BY <2>1, <5>1, AllowedIsInstructions DEF FollowsV4
        <5>3. <<"put", "FINAL_READY">> \notin After(Stage(exec[p]))
          BY <5>2, AfterIsInstructions DEF QaSide
        <5>4. QED BY <4>1, <4>3, <5>3 DEF Allowed
      <4>4. QED BY <4>2, <4>3
    <3>2. Allowed(exec[p]) \subseteq Instructions \ {<<"put", "FINAL_READY">>} BY <2>2, <3>1
    <3>3. QED BY <2>2, <3>2, LongerSequences DEF LacksFrom
  <2>5. QED BY <2>3, <2>4
<1>6. QED BY <1>3, <1>4, <1>5 DEF QaInv, RepairIsJustified, ReadyIsCleared

LEMMA ResearchHasNoQaNext == LegacyInv' /\ FromResearch' => QaInv'
BY ResearchHasNoQa, PTL

-----------------------------------------------------------------------------
(* Each step keeps the whole.                                               *)

LEMMA StartsAt ==
    Init => \E stage \in Starts :
        /\ run.stage = stage /\ run.payload = NoPayload /\ ~run.payload.repair /\ app = stage
        /\ \A j \in JobIds : jobs[j].state # "absent" => j[1] = stage
        /\ versions = IF stage = "RESEARCH_QUEUED" THEN {} ELSE {n \in 0..4 : n < VersionOf[stage]}
<1> HAVE Init
<1>1. PICK stage \in Starts, tries \in Tries :
         /\ run = [stage |-> stage, status |-> DerivedStatus(stage), attempt |-> 1,
                   payload |-> NoPayload]
         /\ jobs = [j \in JobIds |->
                      [state |-> IF j = <<stage, 1, "stage">> THEN "waiting" ELSE "absent",
                       left |-> tries]]
         /\ app = stage
         /\ versions = IF stage = "RESEARCH_QUEUED" THEN {} ELSE {n \in 0..4 : n < VersionOf[stage]}
  BY DEF Init
<1>2. run.stage = stage /\ run.payload = NoPayload /\ ~run.payload.repair
  BY <1>1, NoPayloadIsAPayload
<1>3. \A j \in JobIds : jobs[j].state # "absent" => j[1] = stage BY <1>1
<1>4. WITNESS stage \in Starts
<1>5. QED BY <1>1, <1>2, <1>3

LEMMA WholeHoldsInitially == Init => Whole
<1> SUFFICES ASSUME Init PROVE Whole
  OBVIOUS
<1>1. PICK stage \in Starts :
         /\ run.stage = stage /\ ~run.payload.repair /\ app = stage
         /\ \A j \in JobIds : jobs[j].state # "absent" => j[1] = stage
         /\ versions = IF stage = "RESEARCH_QUEUED" THEN {} ELSE {n \in 0..4 : n < VersionOf[stage]}
  BY StartsAt
<1>2. stage \in {"RESEARCH_QUEUED"} \cup GeneratingStages BY LegacyAssumption
<1>3. /\ \A a \in Actors : exec[a] = Idle
      /\ \A op \in Operations : answers[op] = "none"
  BY DEF Init
<1>4. Resting(Idle) /\ NoJob[1] = "none" /\ Idle.script = <<>> /\ Idle.adds = NoJob /\ Idle.job = NoJob
  BY IdleRests DEF NoJob, Resting
<1>5. LegacyInv BY LegacyInvHoldsInitially
<1>6. AnswersFit BY <1>3, <1>4, RestingKeepsAll, ProcsAreNoClients DEF AnswersFit
<1>7. \A S : (\A a \in Actors : Inside(exec[a], S)) BY <1>3, <1>4 DEF Inside
<1>8. Lineage
  <2>1. CASE stage = "RESEARCH_QUEUED"
    <3>1. stage \in FirstStages /\ stage # "HR_AUDIT_1_REVIEW" /\ versions = {}
      BY <1>1, <2>1 DEF FirstStages, FrontStages
    <3>2. \A p \in Procs : Goes(exec[p], answers[FirstAudit])
      BY <1>3, <1>4, RestingKeepsAll, ProcsAreNoClients
    <3>3. FromResearch BY <1>1, <1>7, <3>1, <3>2 DEF FromResearch, Within
    <3>4. QED BY <3>3 DEF Lineage
  <2>2. CASE stage \in GeneratingStages
    <3>1. stage \in LaterStages BY <2>2 DEF LaterStages, GeneratingStages, FrontStages, Stages
    <3>2. <<>> \in Seq(Ends) OBVIOUS
    <3>3. \A c \in Clients : exec[c].script \in Seq(Ends) BY <1>3, <1>4, <3>2, ProcsAreNoClients
    <3>4. FromGeneration BY <1>1, <1>7, <3>1, <3>3 DEF FromGeneration, Within
    <3>5. QED BY <3>4 DEF Lineage
  <2>3. QED BY <1>2, <2>1, <2>2
<1>9. QaInv
  <2>1. \A p \in Procs : ~exec[p].copy.repair /\ exec[p].op # Repair
                         /\ LacksFrom(exec[p].script, <<"put", "FINAL_READY">>)
    BY <1>3, <1>4, RestingIs, ProcsAreNoClients
  <2>2. RepairVersion \notin versions BY <1>1 DEF RepairVersion
  <2>3. run.stage # "FINAL_READY" BY <1>1, <1>2 DEF GeneratingStages
  <2>4. QED BY <1>1, <2>1, <2>2, <2>3 DEF QaInv, RepairIsJustified, Announced, ReadyIsCleared
<1>10. QED BY <1>5, <1>6, <1>8, <1>9 DEF Whole

LEMMA BodyKeepsWhole ==
    ASSUME Whole, LegacyInv', NEW p \in Procs, exec[p].pc \in BodyPcs, NEW pc \in BodyPcs,
           Go(p, [exec[p] EXCEPT !.pc = pc]), BodyLeaves(p),
           pc \in {"record", "findings", "judge"} => exec[p].answer # "none",
           pc = "commit" /\ exec[p].op[1] # "generate" => exec[p].answer # "none",
           pc = "judge" => ledger'[exec[p].op] = "committed",
           Repairing /\ exec[p].op = Repair
             => pc \in {"look", "reserve", "backend", "call", "park", "append"}
    PROVE  Whole'
<1> DEFINE rec == [exec[p] EXCEPT !.pc = pc]
<1>1. /\ p \in Actors /\ exec[p] \in Activity /\ exec[p].script = <<>> /\ ~exec[p].giving
      /\ LegacyInv /\ AnswersFit /\ Lineage /\ QaInv
  BY InBody DEF Whole
<1>2. /\ rec.pc = pc /\ rec.job = exec[p].job /\ rec.adds = exec[p].adds /\ rec.op = exec[p].op
      /\ rec.answer = exec[p].answer /\ rec.script = <<>> /\ ~rec.giving /\ rec.copy = exec[p].copy
  BY <1>1 DEF Activity
<1>3. Go(p, rec) OBVIOUS
<1> HIDE DEF rec
<1>4. Stage(rec) = Stage(exec[p]) /\ Judging(rec) = Judging(exec[p]) /\ Auditing(rec) = Auditing(exec[p])
  BY <1>2 DEF Stage, Judging, Auditing
<1>5. AnswerFits(rec, answers', ledger', versions')
  <2>1. AnswerFits(exec[p], answers, ledger, versions) BY <1>1 DEF AnswersFit
  <2>2. QED BY <1>2, <2>1 DEF AnswerFits, BodyLeaves
<1>6. AnswersFit' BY <1>1, <1>3, <1>5, AnswersMove DEF BodyLeaves, AnswersFit
<1>7. Lineage' BY <1>1, <1>2, <1>3, <1>4, LineageOfABody DEF BodyLeaves
<1>8. LacksFrom(rec.script, <<"put", "FINAL_READY">>) BY <1>2 DEF LacksFrom
<1>9. run'.payload.repair \/ rec.copy.repair \/ rec.op = Repair => Announced
  BY <1>2 DEF BodyLeaves, Announced
<1>10. Repairing => run'.payload.repair /\ run'.stage \notin QaSide /\ Remakes(rec)
  <2> SUFFICES ASSUME Repairing
               PROVE  run'.payload.repair /\ run'.stage \notin QaSide /\ Remakes(rec)
    OBVIOUS
  <2>1. Remakes(exec[p]) /\ run.payload.repair /\ run.stage \notin QaSide BY DEF Repairing
  <2>2. exec[p].copy.repair BY <2>1 DEF Remakes
  <2>3. Remakes(rec) BY <1>2, <1>4, <2>1, <2>2 DEF Remakes, Ending
  <2>4. QED BY <2>1, <2>2, <2>3 DEF BodyLeaves
<1>11. NotRepaired => /\ run'.payload.repair /\ run'.stage \in QaSide \cup {"FAILED"}
                      /\ Rejudges(rec)
  <2> SUFFICES ASSUME NotRepaired
               PROVE  /\ run'.payload.repair /\ run'.stage \in QaSide \cup {"FAILED"}
                      /\ Rejudges(rec)
    OBVIOUS
  <2>1. Rejudges(exec[p]) /\ run.payload.repair /\ run.stage \in QaSide \cup {"FAILED"}
    BY DEF NotRepaired
  <2>2. exec[p].copy.repair /\ Stage(exec[p]) = "FINAL_QA_RUNNING" BY <2>1 DEF Rejudges
  <2>3. Rejudges(rec) BY <1>2, <1>4, <2>2 DEF Rejudges, Ending
  <2>4. QED BY <2>1, <2>2, <2>3 DEF BodyLeaves
<1>12. QaInv' BY <1>1, <1>2, <1>3, <1>4, <1>8, <1>9, <1>10, <1>11, QaMoves DEF BodyLeaves
<1>13. QED BY <1>6, <1>7, <1>12 DEF Whole

LEMMA WholeIs ==
    ASSUME Whole
    PROVE  /\ LegacyInv /\ AnswersFit /\ Lineage /\ QaInv
           /\ \A p \in Procs : AnswerFits(exec[p], answers, ledger, versions)
BY DEF Whole, AnswersFit

\* A body that makes the repair is not past its append before the version is there.
LEMMA RemakingBody ==
    ASSUME LegacyInv, Repairing, NEW p \in Procs, exec[p].pc \in BodyPcs, exec[p].op = Repair
    PROVE  exec[p].pc \in {"look", "reserve", "backend", "call", "park", "append"}
<1>1. Remakes(exec[p]) BY DEF Repairing
<1>2. exec[p].op \in OpsOf(Stage(exec[p])) /\ Stage(exec[p]) \in BodyStages
  BY InBody DEF OpFits, NoOperation, Repair
<1>3. Stage(exec[p]) \notin AuditStages
  BY <1>2, OpsOfStages DEF AuditStages, GeneratingStages, Repair
<1>4. QED BY <1>1, <1>3 DEF Remakes

LEMMA ReserveKeepsWhole == ASSUME Whole, LegacyInv', NEW p \in Procs, Reserve(p) PROVE Whole'
<1> USE DEF Reserve, At
<1>1. LegacyInv /\ exec[p].pc \in BodyPcs /\ "backend" \in BodyPcs BY WholeIs DEF BodyPcs
<1>2. exec[p].op \in Operations /\ ledger \in [Operations -> {"absent", "reserved", "committed", "released"}]
  BY <1>1, BodyHasAnOperation, TypesOfLegacyInv DEF RowsTypeOK
<1>3. BodyLeaves(p) BY <1>2 DEF BodyLeaves
<1>4. QED BY <1>1, <1>3, BodyKeepsWhole

LEMMA PersistBackendKeepsWhole ==
    ASSUME Whole, LegacyInv', NEW p \in Procs, PersistBackend(p) PROVE Whole'
<1> USE DEF PersistBackend, At
<1>1. LegacyInv /\ exec[p].pc \in BodyPcs /\ {"append", "call"} \subseteq BodyPcs
  BY WholeIs DEF BodyPcs
<1>2. run \in Run /\ exec[p].copy \in Payload BY <1>1, TypesOfLegacyInv, InBody
<1>3. BodyLeaves(p)
  <2>1. run'.stage = run.stage BY <1>2 DEF Run
  <2>2. \/ run'.payload.repair <=> run.payload.repair
        \/ run'.payload.repair <=> exec[p].copy.repair
    BY <1>2, PayloadFields DEF Run
  <2>3. QED BY <2>1, <2>2 DEF BodyLeaves, rows
<1>4. PICK pc \in {"append", "call"} : Go(p, [exec[p] EXCEPT !.pc = pc]) OBVIOUS
<1>5. QED BY <1>1, <1>3, <1>4, BodyKeepsWhole

LEMMA LookUpVersionKeepsWhole ==
    ASSUME Whole, LegacyInv', NEW p \in Procs, LookUpVersion(p) PROVE Whole'
<1> USE DEF LookUpVersion, At
<1>1. LegacyInv /\ exec[p].pc \in BodyPcs /\ {"point", "reserve"} \subseteq BodyPcs
  BY WholeIs DEF BodyPcs
<1>2. BodyLeaves(p) BY DEF BodyLeaves, rows
<1> DEFINE pc == IF Number(p) \in versions THEN "point" ELSE "reserve"
<1>3. pc \in {"point", "reserve"} /\ Go(p, [exec[p] EXCEPT !.pc = pc]) OBVIOUS
<1>4. Repairing /\ exec[p].op = Repair => pc = "reserve" BY DEF Repairing, Repair, Number
<1> HIDE DEF pc
<1>5. QED BY <1>1, <1>2, <1>3, <1>4, BodyKeepsWhole

LEMMA ParkKeepsWhole == ASSUME Whole, LegacyInv', NEW p \in Procs, Park(p) PROVE Whole'
<1> USE DEF Park, At
<1>1. LegacyInv /\ exec[p].pc \in BodyPcs /\ "append" \in BodyPcs BY WholeIs DEF BodyPcs
<1>2. run \in Run /\ exec[p].copy \in Payload BY <1>1, TypesOfLegacyInv, InBody
<1>3. run'.stage = run.stage /\ (run'.payload.repair <=> exec[p].copy.repair)
  <2> DEFINE payload == [exec[p].copy EXCEPT !.pending = exec[p].op]
  <2>1. payload.repair = exec[p].copy.repair BY <1>2 DEF Payload
  <2>2. run' = [run EXCEPT !.payload = payload] OBVIOUS
  <2> HIDE DEF payload
  <2>3. QED BY <1>2, <2>1, <2>2 DEF Run
<1>4. BodyLeaves(p) BY <1>3 DEF BodyLeaves, rows
<1>5. QED BY <1>1, <1>4, BodyKeepsWhole

LEMMA NoteVersionKeepsWhole ==
    ASSUME Whole, LegacyInv', NEW p \in Procs, NoteVersion(p) PROVE Whole'
<1> USE DEF NoteVersion, At
<1>1. LegacyInv /\ exec[p].pc \in BodyPcs /\ "point" \in BodyPcs /\ run \in Run
  BY WholeIs, TypesOfLegacyInv DEF BodyPcs
<1>2. ~(Repairing /\ exec[p].op = Repair) BY <1>1, RemakingBody
<1>3. run'.stage = run.stage /\ run'.payload = exec[p].copy BY <1>1 DEF Run
<1>4. BodyLeaves(p) BY <1>3 DEF BodyLeaves, rows
<1>5. QED BY <1>1, <1>2, <1>4, BodyKeepsWhole

LEMMA SetCurrentKeepsWhole == ASSUME Whole, LegacyInv', NEW p \in Procs, SetCurrent(p) PROVE Whole'
<1> USE DEF SetCurrent, At
<1>1. LegacyInv /\ exec[p].pc \in BodyPcs /\ "commit" \in BodyPcs BY WholeIs DEF BodyPcs
<1>2. exec[p].op[1] = "generate"
  <2>1. Stage(exec[p]) \in GeneratingStages /\ Stage(exec[p]) \in BodyStages
    BY <1>1, InBody DEF PcsOf
  <2>2. exec[p].op \in OpsOf(Stage(exec[p])) BY <1>1, BodyHasAnOperation
  <2>3. QED BY <2>1, <2>2, OpsOfStages
<1>3. ~(Repairing /\ exec[p].op = Repair) BY <1>1, RemakingBody
<1>4. BodyLeaves(p) BY DEF BodyLeaves
<1>5. QED BY <1>1, <1>2, <1>3, <1>4, BodyKeepsWhole

LEMMA RecordsKeepWhole ==
    ASSUME Whole, LegacyInv', NEW p \in Procs, RecordAudit(p) \/ RecordFindings(p) PROVE Whole'
<1> USE DEF RecordAudit, RecordFindings, At
<1>1. /\ LegacyInv /\ exec[p].pc \in BodyPcs /\ {"findings", "commit"} \subseteq BodyPcs
      /\ exec[p].pc \in {"record", "findings"}
  BY WholeIs DEF BodyPcs
<1>2. exec[p].answer # "none" BY <1>1, WholeIs DEF AnswerFits
<1>3. ~(Repairing /\ exec[p].op = Repair) BY <1>1, RemakingBody
<1>4. BodyLeaves(p) BY DEF BodyLeaves
<1>5. PICK pc \in {"findings", "commit"} : Go(p, [exec[p] EXCEPT !.pc = pc]) OBVIOUS
<1>6. QED BY <1>1, <1>2, <1>3, <1>4, <1>5, BodyKeepsWhole

LEMMA CommitKeepsWhole == ASSUME Whole, LegacyInv', NEW p \in Procs, Commit(p) PROVE Whole'
<1> USE DEF Commit, At
<1>1. /\ LegacyInv /\ exec[p].pc \in BodyPcs /\ {"ready", "judge"} \subseteq BodyPcs
      /\ exec[p].pc = "commit" /\ p \in Actors
  BY WholeIs, InBody DEF BodyPcs
<1>2. exec[p].op \in Operations /\ ledger \in [Operations -> {"absent", "reserved", "committed", "released"}]
  BY <1>1, BodyHasAnOperation, TypesOfLegacyInv DEF RowsTypeOK
<1>3. CASE ledger[exec[p].op] = "released"
  <2>1. Calm BY <1>1, <1>3, ThrownIsCalm
  <2>2. QED BY <2>1, CalmKeepsWhole
<1>4. CASE ledger[exec[p].op] # "released"
  <2> DEFINE pc == IF exec[p].op[1] = "generate" THEN "ready" ELSE "judge"
  <2>1. pc \in {"ready", "judge"} /\ Go(p, [exec[p] EXCEPT !.pc = pc])
        /\ (pc = "judge" => exec[p].op[1] # "generate")
    BY <1>4
  <2>2. exec[p].op[1] # "generate" => exec[p].answer # "none" BY <1>1, WholeIs DEF AnswerFits
  <2>3. ~(Repairing /\ exec[p].op = Repair) BY <1>1, RemakingBody
  <2>4. BodyLeaves(p) BY <1>2, <1>4 DEF BodyLeaves
  <2>5. ledger'[exec[p].op] = "committed" BY <1>2, <1>4
  <2> HIDE DEF pc
  <2>6. QED BY <1>1, <2>1, <2>2, <2>3, <2>4, <2>5, BodyKeepsWhole
<1>5. QED BY <1>3, <1>4

-----------------------------------------------------------------------------
(* The ends of the bodies.                                                  *)

LEMMA StagesOfLineage ==
    ASSUME LegacyInv, NEW p \in Procs, exec[p].pc # "idle"
    PROVE  /\ FromResearch => Stage(exec[p]) \in FirstStages
           /\ FromGeneration => Stage(exec[p]) \in LaterStages
           /\ FromGeneration => Stage(exec[p]) \notin {"RESEARCH_RUNNING", "EVIDENCE_MATCHING_RUNNING"}
<1>1. p \in Actors /\ exec[p].job[1] \in WorkStages /\ "none" \notin WorkStages
  BY ProcsAreNoClients, DeliveryHasAJob
  DEF WorkStages, QueuedStages, GeneratingStages, RunningStages, AuditStages
<1>2. FromResearch => Stage(exec[p]) \in FirstStages
  BY <1>1 DEF FromResearch, Within, Inside, Stage, RunningCounterpart, FirstStages, FrontStages
<1>3. FromGeneration => Stage(exec[p]) \in LaterStages
  BY <1>1 DEF FromGeneration, Within, Inside, Stage, RunningCounterpart, LaterStages, FrontStages
<1>4. QED BY <1>2, <1>3 DEF LaterStages, FrontStages

LEMMA EndsKeepWhole ==
    ASSUME Whole, LegacyInv', NEW p \in Procs, NEW rec, Go(p, rec),
           rec.pc \in {"script", "next"}, rec.job = exec[p].job, rec.adds \in {NoJob, exec[p].adds},
           rec.op = NoOperation, rec.answer = "none", rec.pc = "next" => ~Auditing(rec) /\ ~Judging(rec),
           run'.stage = run.stage, UNCHANGED <<jobs, ledger, answers, versions>>,
           FromResearch => Goes(rec, answers[FirstAudit]),
           FromGeneration => app' \in LaterStages /\ QaAllows(rec)
    PROVE  Whole'
<1>1. p \in Actors /\ p \notin Clients /\ LegacyInv /\ AnswersFit /\ Lineage /\ QaInv
      /\ NoJob[1] = "none"
  BY WholeIs, ProcsAreNoClients DEF NoJob
<1>2. rec.op # Repair /\ (\A n : rec.op # QaOf(n)) /\ ~Auditing(rec) /\ ~Judging(rec)
  BY DEF NoOperation, Repair, QaOf, Auditing, Judging, BodyPcs
<1>3. AnswerFits(rec, answers, ledger, versions) BY <1>2 DEF AnswerFits
<1>4. AnswersFit' BY <1>1, <1>3, AnswersStay
<1>5. CASE FromResearch
  <2>1. Inside(rec, FirstStages) /\ run'.stage \in FirstStages /\ 4 \notin versions'
    BY <1>1, <1>5 DEF FromResearch, Within, Inside
  <2>2. FromResearch' BY <1>1, <1>2, <1>5, <2>1, ResearchMoves
  <2>3. QED BY <1>4, <2>2, ResearchHasNoQaNext DEF Whole, Lineage
<1>6. CASE FromGeneration
  <2>1. Inside(rec, LaterStages) /\ run'.stage \in LaterStages
    BY <1>1, <1>6 DEF FromGeneration, Within, Inside
  <2>2. FromGeneration' BY <1>1, <1>6, <2>1, GenerationMoves
  <2>3. QaAllows(rec) /\ (Repairing => run.stage \notin QaSide)
        /\ (NotRepaired => run.stage \in QaSide \cup {"FAILED"})
    BY <1>6 DEF Repairing, NotRepaired
  <2>4. QaInv' BY <1>1, <1>2, <2>3, QaMoves DEF QaAllows
  <2>5. QED BY <1>4, <2>2, <2>4 DEF Whole, Lineage
<1>7. QED BY <1>1, <1>5, <1>6 DEF Lineage

\* A script as an end: what it has to be without, in each of its instructions.
LEMMA LacksTwo ==
    ASSUME NEW x, NEW a \in Instructions, NEW b \in Instructions, a # x, b # x
    PROVE  LacksFrom(<<a, b>>, x)
BY DEF LacksFrom

LEMMA LacksThree ==
    ASSUME NEW x, NEW a \in Instructions, NEW b \in Instructions, NEW c \in Instructions,
           a # x, b # x, c # x
    PROVE  LacksFrom(<<a, b, c>>, x)
BY DEF LacksFrom

LEMMA LacksFour ==
    ASSUME NEW x, NEW a \in Instructions, NEW b \in Instructions, NEW c \in Instructions,
           NEW d \in Instructions, a # x, b # x, c # x, d # x
    PROVE  LacksFrom(<<a, b, c, d>>, x)
BY DEF LacksFrom

LEMMA LacksFive ==
    ASSUME NEW x, NEW a \in Instructions, NEW b \in Instructions, NEW c \in Instructions,
           NEW d \in Instructions, NEW e \in Instructions, a # x, b # x, c # x, d # x, e # x
    PROVE  LacksFrom(<<a, b, c, d, e>>, x)
BY DEF LacksFrom

LEMMA ThenIs ==
    ASSUME NEW p, NEW script, NEW copy
    PROVE  LET rec == Then(p, script, copy) IN
           /\ rec.pc = "script" /\ rec.job = exec[p].job /\ rec.adds = NoJob
           /\ rec.op = NoOperation /\ rec.answer = "none" /\ ~rec.giving
           /\ rec.script = script /\ rec.copy = copy /\ Stage(rec) = Stage(exec[p])
BY DEF Then, Rest, Idle, Stage

LEMMA ThenKeepsWhole ==
    ASSUME Whole, LegacyInv', NEW p \in Procs, NEW script, NEW copy, Go(p, Then(p, script, copy)),
           run'.stage = run.stage, UNCHANGED <<jobs, ledger, answers, versions>>,
           FromResearch =>
              /\ LacksFrom(script, <<"move", "V1_GENERATING">>) \/ answers[FirstAudit] = "mismatched"
              /\ LacksFrom(script, <<"move", "HR_AUDIT_1_REVIEW">>) \/ answers[FirstAudit] = "done",
           FromGeneration =>
              /\ app' \in LaterStages
              /\ \/ run'.payload.repair \/ copy.repair => Announced
                 \/ answers[QaOf(4)] = "repairable" /\ ledger[QaOf(4)] = "committed"
              /\ LacksFrom(script, <<"put", "FINAL_READY">>) \/ Cleared(answers, ledger, Newest)
              /\ Repairing => run'.payload.repair /\ Stage(exec[p]) \in AuditStages
              /\ NotRepaired =>
                    \/ answers[QaOf(4)] = "repairable"
                    \/ /\ run'.payload.repair /\ copy.repair /\ Stage(exec[p]) = "FINAL_QA_RUNNING"
                       /\ LacksFrom(script, <<"put", "V4_GENERATING">>)
    PROVE  Whole'
<1> DEFINE rec == Then(p, script, copy)
<1>1. /\ rec.pc = "script" /\ rec.job = exec[p].job /\ rec.adds = NoJob
      /\ rec.op = NoOperation /\ rec.answer = "none" /\ ~rec.giving
      /\ rec.script = script /\ rec.copy = copy /\ Stage(rec) = Stage(exec[p])
  BY ThenIs
<1>2. Go(p, rec) OBVIOUS
<1> HIDE DEF rec
<1>3. rec.pc \notin BodyPcs BY <1>1 DEF BodyPcs
<1>4. FromResearch => Goes(rec, answers[FirstAudit]) BY <1>1 DEF Goes
<1>5. Stage(exec[p]) \in AuditStages => Remakes(rec) BY <1>1, <1>3 DEF Remakes
<1>6. copy.repair /\ Stage(exec[p]) = "FINAL_QA_RUNNING" /\ LacksFrom(script, <<"put", "V4_GENERATING">>)
      => Rejudges(rec)
  BY <1>1, <1>3 DEF Rejudges
<1>7. FromGeneration => QaAllows(rec) BY <1>1, <1>5, <1>6 DEF QaAllows
<1>8. QED BY <1>1, <1>2, <1>4, <1>7, EndsKeepWhole

LEMMA GenerationIsPast ==
    ASSUME LegacyInv, NEW p \in Procs, Stage(exec[p]) \in GeneratingStages,
           exec[p].pc \in Finalizing \/ Ending(exec[p])
    PROVE  ~Repairing /\ ~NotRepaired
BY DEF Repairing, NotRepaired, Remakes, Rejudges, BodyPcs, Ending, AuditStages, GeneratingStages

LEMMA GeneratingSteps ==
    ASSUME LegacyInv, NEW p \in Procs, exec[p].pc \in Finalizing \cup {"park", "append"}, exec[p].pc # "commit"
    PROVE  Generating(exec[p]) /\ exec[p].pc \in BodyPcs
<1>1. exec[p].pc \in BodyPcs BY DEF BodyPcs
<1>2. exec[p].pc \in PcsOf(Stage(exec[p])) BY <1>1, InBody
<1>3. QED BY <1>1, <1>2 DEF PcsOf, Generating

LEMMA BecomesReadyIs ==
    ASSUME LegacyInv, NEW p \in Procs, BecomesReady(p)
    PROVE  /\ exec[p].pc = "ready" /\ exec[p].pc \in BodyPcs /\ exec[p].pc # "idle"
           /\ Generating(exec[p]) /\ Stage(exec[p]) # "FINAL_QA_RUNNING"
           /\ UNCHANGED <<run, jobs, app, ledger, answers, versions>>
           /\ \E copy : GoesOnWith(p, copy)
<1> USE DEF BecomesReady, At
<1>1. /\ exec[p].pc = "ready" /\ exec[p].pc \in BodyPcs /\ exec[p].pc # "idle"
      /\ StageAt(p) = Stage(exec[p]) /\ exec[p] \in Activity /\ run \in Run /\ exec[p].script = <<>>
      /\ Generating(exec[p]) /\ Stage(exec[p]) # "FINAL_QA_RUNNING"
      /\ UNCHANGED <<run, jobs, app, ledger, answers, versions>>
  BY InBody, GeneratingSteps, TypesOfLegacyInv DEF BodyPcs, rows, Generating, GeneratingStages
<1> DEFINE cleared == [run.payload EXCEPT !.pending = NoOperation]
<1>2. (cleared.repair <=> run.payload.repair) /\ cleared.pending = NoOperation
  BY <1>1, PayloadFields DEF Run, Payload
<1> HIDE DEF cleared
<1>3. CASE run.stage = StageAt(p)
  <2> DEFINE ready == ReadyOf[VersionOf[StageAt(p)]]
             a == <<"put", ready>>
             z == <<"next", "stage">>
             script == <<a, z>>
  <2>1. ready \in Stages /\ ready # "FINAL_READY"
    BY <1>1, StagesOfTables, StagesAreStages DEF Generating
  <2>2. a \in Instructions /\ z \in Instructions BY <2>1 DEF Instructions
  <2>3. \A s : /\ a # <<"move", s>> /\ z # <<"move", s>> /\ z # <<"put", s>>
               /\ a # <<"put", "FINAL_READY">>
    BY <2>1
  <2>4. Go(p, Then(p, script, cleared)) BY <1>3 DEF cleared
  <2> HIDE DEF a, z
  <2>5. NoMoves(script) /\ LacksFrom(script, <<"put", "FINAL_READY">>)
    BY <2>2, <2>3, LacksTwo DEF NoMoves
  <2> HIDE DEF script, BecomesReady
  <2>6. QED BY <1>1, <1>2, <2>4, <2>5 DEF GoesOnWith
<1>4. CASE run.stage # StageAt(p)
  <2> DEFINE rec == [exec[p] EXCEPT !.pc = "next", !.copy = cleared]
  <2>1. Go(p, rec) BY <1>4 DEF cleared
  <2>2. /\ rec.pc = "next" /\ rec.job = exec[p].job /\ rec.adds = exec[p].adds /\ rec.op = exec[p].op
        /\ rec.answer = exec[p].answer /\ rec.script = <<>> /\ rec.copy = cleared
    BY <1>1 DEF Activity
  <2> HIDE DEF rec, BecomesReady
  <2>3. Stage(rec) = Stage(exec[p]) BY <2>2 DEF Stage
  <2>4. QED BY <1>1, <1>2, <2>1, <2>2, <2>3 DEF GoesOnWith
<1>5. QED BY <1>3, <1>4

\* A finalization goes on with a copy of the run's payload.
LEMMA RereadingKeepsWhole ==
    ASSUME Whole, LegacyInv', NEW p \in Procs, Generating(exec[p]), exec[p].pc \in Finalizing,
           UNCHANGED <<run, jobs, app, ledger, answers, versions>>, NEW rec, Go(p, rec),
           rec.pc \in {"note", "next"}, rec.copy.repair => run.payload.repair,
           rec.job = exec[p].job, rec.adds = exec[p].adds, rec.op = exec[p].op,
           rec.answer = exec[p].answer, rec.script = <<>>, Stage(rec) = Stage(exec[p])
    PROVE  Whole'
<1>1. /\ LegacyInv /\ AnswersFit /\ Lineage /\ QaInv /\ p \in Actors
      /\ AnswerFits(exec[p], answers, ledger, versions)
  BY WholeIs, ProcsAreNoClients
<1>2. ~Repairing /\ ~NotRepaired BY <1>1, GenerationIsPast DEF Generating
<1>3. ~Auditing(rec) /\ ~Judging(rec) BY DEF Auditing, Judging, Generating, GeneratingStages
<1>4. AnswerFits(rec, answers, ledger, versions) BY <1>1 DEF AnswerFits
<1>5. AnswersFit' BY <1>1, <1>4, AnswersStay
<1>6. Lineage' BY <1>1, <1>3, LineageOfABody
<1>7. run'.payload.repair \/ rec.copy.repair \/ rec.op = Repair => Announced BY DEF Announced
<1>8. LacksFrom(rec.script, <<"put", "FINAL_READY">>) BY DEF LacksFrom
<1>9. QaInv' BY <1>1, <1>2, <1>3, <1>7, <1>8, QaMoves
<1>10. QED BY <1>5, <1>6, <1>9 DEF Whole

LEMMA RereadRunKeepsWhole == ASSUME Whole, LegacyInv', NEW p \in Procs, RereadRun(p) PROVE Whole'
<1> USE DEF RereadRun, At
<1>1. LegacyInv /\ exec[p].pc = "reread" BY WholeIs
<1>2. exec[p] \in Activity /\ exec[p].script = <<>> /\ Generating(exec[p])
  BY <1>1, GeneratingSteps, InBody
<1> DEFINE rec == [exec[p] EXCEPT !.pc = "note", !.copy = run.payload]
<1>3. Go(p, rec) OBVIOUS
<1>4. /\ rec.pc = "note" /\ rec.copy = run.payload /\ rec.job = exec[p].job
      /\ rec.adds = exec[p].adds /\ rec.op = exec[p].op /\ rec.answer = exec[p].answer
      /\ rec.script = <<>>
  BY <1>2 DEF Activity
<1> HIDE DEF rec
<1>5. Stage(rec) = Stage(exec[p]) BY <1>4 DEF Stage
<1>6. QED BY <1>1, <1>2, <1>3, <1>4, <1>5, RereadingKeepsWhole DEF rows

LEMMA BecomesReadyKeepsWhole ==
    ASSUME Whole, LegacyInv', NEW p \in Procs, BecomesReady(p) PROVE Whole'
<1>1. /\ LegacyInv /\ AnswersFit /\ Lineage /\ QaInv /\ p \in Actors /\ exec[p].pc = "ready"
      /\ Stage(exec[p]) \in GeneratingStages /\ UNCHANGED <<run, jobs, app, ledger, answers, versions>>
  BY WholeIs, BecomesReadyIs, ProcsAreNoClients DEF Generating
<1>2. PICK copy : GoesOnWith(p, copy) BY <1>1, BecomesReadyIs
<1>3. ~Repairing /\ ~NotRepaired BY <1>1, GenerationIsPast
<1>4. run'.payload.repair \/ copy.repair => Announced BY <1>1, <1>2 DEF Announced, GoesOnWith
<1>5. ASSUME NEW script, Go(p, Then(p, script, copy)), NoMoves(script),
             LacksFrom(script, <<"put", "FINAL_READY">>)
      PROVE  Whole'
  <2>1. FromGeneration => app' \in LaterStages BY <1>1 DEF FromGeneration
  <2>2. QED BY <1>1, <1>3, <1>4, <1>5, <2>1, ThenKeepsWhole DEF NoMoves
<1>6. ASSUME NEW rec, Go(p, rec), rec.pc = "next", rec.copy = copy, rec.job = exec[p].job,
             rec.adds = exec[p].adds, rec.op = exec[p].op, rec.answer = exec[p].answer,
             rec.script = <<>>, Stage(rec) = Stage(exec[p])
      PROVE  Whole'
  BY <1>1, <1>2, <1>6, RereadingKeepsWhole DEF GoesOnWith, Generating
<1>7. QED BY <1>2, <1>5, <1>6 DEF GoesOnWith

LEMMA ResumesKeepsWhole == ASSUME Whole, LegacyInv', NEW p \in Procs, Resumes(p) PROVE Whole'
<1> USE DEF Resumes, At
<1>1. /\ LegacyInv /\ p \in Actors /\ exec[p].pc = "script" /\ exec[p] \in Activity
      /\ exec[p].script # <<>> /\ exec[p].script \in Seq(Allowed(exec[p]))
      /\ Head(exec[p].script) \in Allowed(exec[p])
  BY WholeIs, ProcsAreNoClients, InScript
<1>2. /\ exec[p].op = NoOperation /\ exec[p].answer = "none"
  BY <1>1, ActorIsTyped DEF Shape, BodyPcs
<1>3. ~exec[p].giving /\ Stage(exec[p]) \in GeneratingStages
  <2>1. Head(exec[p].script)[1] = "next" OBVIOUS
  <2>2. Head(exec[p].script) \notin Ends \cup Givings BY <2>1 DEF Ends, Givings
  <2>3. ~exec[p].giving /\ Head(exec[p].script) \in After(Stage(exec[p])) BY <1>1, <2>2 DEF Allowed
  <2>4. Stage(exec[p]) \in BodyStages \cup {"none"} BY <1>1, AllowedIsInstructions
  <2>5. QED BY <2>1, <2>3, <2>4, AfterIsInstructions
<1>4. ~Repairing /\ ~NotRepaired BY <1>1, <1>3, GenerationIsPast DEF Ending
<1> DEFINE rec == [exec[p] EXCEPT !.pc = "next", !.script = <<>>]
<1>5. Go(p, rec) OBVIOUS
<1>6. /\ rec.pc = "next" /\ rec.job = exec[p].job /\ rec.adds = exec[p].adds /\ rec.op = NoOperation
      /\ rec.answer = "none" /\ rec.script = <<>> /\ rec.copy = exec[p].copy
  BY <1>1, <1>2 DEF Activity
<1> HIDE DEF rec
<1>7. Stage(rec) = Stage(exec[p]) BY <1>6 DEF Stage
<1>8. ~Auditing(rec) /\ ~Judging(rec) BY <1>3, <1>7 DEF Auditing, Judging, GeneratingStages
<1>9. \A x : LacksFrom(rec.script, x) BY <1>6 DEF LacksFrom
<1>10. QaAllows(rec) BY <1>4, <1>6, <1>9 DEF QaAllows, Announced
<1>11. Goes(rec, answers[FirstAudit]) BY <1>9 DEF Goes
<1>12. FromGeneration => app' \in LaterStages BY DEF FromGeneration
<1>13. QED BY <1>5, <1>6, <1>8, <1>10, <1>11, <1>12, EndsKeepWhole DEF rows

LEMMA StartNextIs ==
    ASSUME LegacyInv, NEW p \in Procs, StartNext(p)
    PROVE  /\ exec[p].pc = "next" /\ exec[p].pc \in BodyPcs /\ exec[p].pc # "idle"
           /\ Generating(exec[p]) /\ Stage(exec[p]) # "FINAL_QA_RUNNING"
           /\ run'.stage = run.stage /\ run'.payload \in {run.payload, exec[p].copy}
           /\ UNCHANGED <<jobs, app, ledger, answers, versions>>
           /\ \E script, copy :
                 /\ Go(p, Then(p, script, copy)) /\ NoMoves(script)
                 /\ LacksFrom(script, <<"put", "FINAL_READY">>)
                 /\ copy.pending = NoOperation
                 /\ copy.repair => run.payload.repair \/ exec[p].copy.repair
<1> USE DEF StartNext, At
<1>1. /\ exec[p].pc = "next" /\ exec[p].pc \in BodyPcs /\ exec[p].pc # "idle"
      /\ StageAt(p) = Stage(exec[p]) /\ run \in Run
      /\ Generating(exec[p]) /\ Stage(exec[p]) # "FINAL_QA_RUNNING"
      /\ UNCHANGED <<jobs, app, ledger, answers, versions>>
  BY InBody, GeneratingSteps, TypesOfLegacyInv DEF BodyPcs, rows, Generating, GeneratingStages
<1> DEFINE n == VersionOf[StageAt(p)]
           z == <<"end", "resolved">>
<1>2. ReadyOf[n] \in Stages /\ NextOf[n] \in Stages /\ NextOf[n] # "FINAL_READY"
  BY <1>1, StagesOfTables, StagesAreStages DEF AuditStages, Generating
<1>3. z \in Instructions /\ \A s : z # <<"move", s>> /\ z # <<"put", s>> BY DEF Instructions
<1> HIDE DEF z
<1>4. CASE run.stage = ReadyOf[n]
  <2> DEFINE a == <<"put", NextOf[n]>>
             b == <<"app", NextOf[n]>>
             copy == Merged(p)
             script == <<a, b, z>>
  <2>1. a \in Instructions /\ b \in Instructions BY <1>2 DEF Instructions
  <2>2. /\ \A s : a # <<"move", s>> /\ b # <<"move", s>>
        /\ a # <<"put", "FINAL_READY">> /\ b # <<"put", "FINAL_READY">>
    BY <1>2
  <2>3. Go(p, Then(p, script, copy)) /\ run' = run BY <1>4 DEF z
  <2>4. copy.pending = NoOperation /\ (copy.repair => run.payload.repair \/ exec[p].copy.repair)
    BY DEF Merged
  <2> HIDE DEF a, b, copy
  <2>5. NoMoves(script) /\ LacksFrom(script, <<"put", "FINAL_READY">>)
    BY <1>3, <2>1, <2>2, LacksThree DEF NoMoves
  <2> HIDE DEF script
  <2>6. QED BY <1>1, <2>3, <2>4, <2>5
<1>5. CASE run.stage # ReadyOf[n]
  <2> DEFINE b == <<"app", IF run.stage = NextOf[n] THEN NextOf[n] ELSE ReadyOf[n]>>
             script == <<b, z>>
  <2>1. b \in Instructions /\ \A s : b # <<"move", s>> /\ b # <<"put", s>> BY <1>2 DEF Instructions
  <2>2. Go(p, Then(p, script, NoPayload)) BY <1>5 DEF z
  <2> HIDE DEF b
  <2>3. run'.stage = run.stage /\ run'.payload \in {run.payload, exec[p].copy} BY <1>1, <1>5 DEF Run
  <2>4. NoMoves(script) /\ LacksFrom(script, <<"put", "FINAL_READY">>)
    BY <1>3, <2>1, LacksTwo DEF NoMoves
  <2> HIDE DEF script, StartNext
  <2>5. QED BY <1>1, <2>2, <2>3, <2>4, NoPayloadIsAPayload
<1>6. QED BY <1>4, <1>5

LEMMA StartNextKeepsWhole == ASSUME Whole, LegacyInv', NEW p \in Procs, StartNext(p) PROVE Whole'
<1>1. /\ LegacyInv /\ exec[p].pc = "next" /\ Stage(exec[p]) \in GeneratingStages
      /\ run'.stage = run.stage /\ run'.payload \in {run.payload, exec[p].copy}
      /\ UNCHANGED <<jobs, app, ledger, answers, versions>>
  BY WholeIs, StartNextIs DEF Generating
<1>2. PICK script, copy : /\ Go(p, Then(p, script, copy)) /\ NoMoves(script)
                          /\ LacksFrom(script, <<"put", "FINAL_READY">>)
                          /\ copy.repair => run.payload.repair \/ exec[p].copy.repair
  BY <1>1, StartNextIs
<1>3. ~Repairing /\ ~NotRepaired BY <1>1, GenerationIsPast
<1>4. run'.payload.repair \/ copy.repair => Announced BY <1>1, <1>2 DEF Announced
<1>5. FromGeneration => app' \in LaterStages BY <1>1 DEF FromGeneration
<1>6. QED BY <1>1, <1>2, <1>3, <1>4, <1>5, ThenKeepsWhole DEF NoMoves

LEMMA ExtractKeepsWhole == ASSUME Whole, LegacyInv', NEW p \in Procs, Extract(p) PROVE Whole'
<1> USE DEF Extract, At
<1>1. /\ LegacyInv /\ exec[p].pc = "extract" /\ exec[p].pc \in BodyPcs /\ exec[p].pc # "idle"
      /\ p \in Actors
  BY WholeIs, InBody DEF BodyPcs
<1>2. Stage(exec[p]) = "RESEARCH_RUNNING" BY <1>1, InBody DEF PcsOf
<1>3. ~FromGeneration BY <1>1, <1>2, StagesOfLineage
<1>4. CASE app' = app /\ Go(p, GoesOn(p))
  <2>1. CASE Calm BY <2>1, CalmKeepsWhole
  <2>2. CASE ~Calm
    <3>1. Go(p, [exec[p] EXCEPT !.pc = "reserve"]) /\ "reserve" \in BodyPcs
      BY <1>1, <1>4, <2>2, ExtractGoesOn DEF BodyPcs
    <3>2. BodyLeaves(p) BY <1>4 DEF BodyLeaves
    <3>3. QED BY <1>1, <3>1, <3>2, BodyKeepsWhole
  <2>3. QED BY <2>1, <2>2
<1>5. CASE Go(p, Pauses(p))
  <2> DEFINE a == <<"pause", "RESEARCH_REVIEW_REQUIRED">>
             z == <<"end", "resolved">>
  <2>1. a \in Instructions /\ z \in Instructions BY DEF Instructions, Stages, ReviewStages
  <2>2. \A s : a # <<"move", s>> /\ z # <<"move", s>> OBVIOUS
  <2>3. Go(p, Then(p, <<a, z>>, NoPayload)) BY <1>5 DEF Pauses
  <2> HIDE DEF a, z
  <2>4. LacksFrom(<<a, z>>, <<"move", "V1_GENERATING">>)
        /\ LacksFrom(<<a, z>>, <<"move", "HR_AUDIT_1_REVIEW">>)
    BY <2>1, <2>2, LacksTwo
  <2>5. QED BY <1>3, <2>3, <2>4, ThenKeepsWhole
<1>6. QED BY <1>4, <1>5

LEMMA FailedQaLacks ==
    \A s \in {"FINAL_READY", "V4_GENERATING"} : LacksFrom(FailedQa, <<"put", s>>)
<1>1. /\ <<"put", "FINAL_QA_FAILED">> \in Instructions /\ <<"app", "FINAL_QA_FAILED">> \in Instructions
      /\ <<"end", "permanent">> \in Instructions
  BY DEF Instructions, Stages, TerminalStages
<1>2. QED BY <1>1, LacksThree DEF FailedQa

\* A body of Final QA: its run is one that was started at a version.
LEMMA JudgingIs ==
    ASSUME LegacyInv, NEW p \in Procs, exec[p].pc \in BodyPcs, Stage(exec[p]) = "FINAL_QA_RUNNING"
    PROVE  /\ 4 \in versions /\ ~FromResearch
           /\ Repairing => FALSE
           /\ NotRepaired => exec[p].copy.repair /\ run.payload.repair
           /\ FromGeneration => app \in LaterStages
<1>1. ~FromResearch /\ 4 \in versions BY InBody, StagesOfLineage DEF FirstStages, FrontStages
<1>2. ~Repairing
  <2>1. exec[p].op \in {QaOf(4), QaOf(RepairVersion), NoOperation}
    BY InBody DEF OpFits, OpsOf, GeneratingStages, AuditStages
  <2>2. exec[p].op # Repair BY <2>1 DEF QaOf, Repair, NoOperation
  <2>3. QED BY <2>2 DEF Repairing, Remakes, AuditStages
<1>3. QED BY <1>1, <1>2 DEF NotRepaired, Rejudges, FromGeneration

LEMMA FailsQaKeepsWhole ==
    ASSUME Whole, LegacyInv', NEW p \in Procs, exec[p].pc \in BodyPcs,
           Stage(exec[p]) = "FINAL_QA_RUNNING", Go(p, Then(p, FailedQa, exec[p].copy)),
           UNCHANGED <<run, jobs, app, rows>>
    PROVE  Whole'
<1>1. LegacyInv /\ (run.payload.repair \/ exec[p].copy.repair => Announced) BY WholeIs DEF Announced
<1> DEFINE copy == exec[p].copy
<1>2. Go(p, Then(p, FailedQa, copy)) /\ (run'.payload.repair \/ copy.repair => Announced) BY <1>1
<1>3. /\ ~FromResearch /\ ~Repairing /\ (FromGeneration => app' \in LaterStages)
      /\ NotRepaired => copy.repair /\ run'.payload.repair
  BY <1>1, JudgingIs
<1> HIDE DEF copy
<1>4. QED BY <1>2, <1>3, FailedQaLacks, ThenKeepsWhole DEF rows

LEMMA CheckLocallyKeepsWhole ==
    ASSUME Whole, LegacyInv', NEW p \in Procs, CheckLocally(p) PROVE Whole'
<1> USE DEF CheckLocally, At
<1>1. /\ LegacyInv /\ AnswersFit /\ Lineage /\ QaInv
      /\ exec[p].pc = "look" /\ exec[p].pc \in BodyPcs /\ exec[p].op = NoOperation
      /\ exec[p] \in Activity /\ exec[p].script = <<>> /\ p \in Actors
      /\ versions \subseteq 0..RepairVersion
  BY WholeIs, InBody, TypesOfLegacyInv DEF BodyPcs, RowsTypeOK
<1>2. Stage(exec[p]) = "FINAL_QA_RUNNING" BY <1>1, InBody, OpsOfStages DEF OpFits
<1>3. CASE Go(p, [exec[p] EXCEPT !.pc = "reserve",
                                 !.op = OperationAt("FINAL_QA_RUNNING", FALSE, Latest)])
  <2> DEFINE op == OperationAt("FINAL_QA_RUNNING", FALSE, Latest)
             rec == [exec[p] EXCEPT !.pc = "reserve", !.op = op]
  <2>1. 4 \in versions /\ Latest = (IF RepairVersion \in versions THEN RepairVersion ELSE 4)
    BY <1>1, <1>2, JudgingIs, LatestIsOfQa
  <2>2. op = QaOf(Latest) BY DEF OperationAt, QaOf, GeneratingStages, AuditStages
  <2> HIDE DEF op
  <2>3. /\ op = QaOf(RepairVersion) => RepairVersion \in versions
        /\ op = QaOf(4) => RepairVersion \notin versions
        /\ op # Repair
    <3>1. \A n : QaOf(Latest) = QaOf(n) => Latest = n BY DEF QaOf
    <3>2. QaOf(Latest) # Repair BY DEF QaOf, Repair
    <3>3. RepairVersion # 4 BY DEF RepairVersion
    <3>4. QED BY <2>1, <2>2, <3>1, <3>2, <3>3
  <2>4. /\ rec.pc = "reserve" /\ rec.job = exec[p].job /\ rec.adds = exec[p].adds
        /\ rec.op = op /\ rec.answer = exec[p].answer /\ rec.script = <<>>
        /\ rec.copy = exec[p].copy
    BY <1>1 DEF Activity
  <2>5. Go(p, rec) BY <1>3 DEF op
  <2> HIDE DEF rec
  <2>6. Stage(rec) = Stage(exec[p]) BY <2>4 DEF Stage
  <2>7. ~Auditing(rec) /\ Judging(exec[p]) BY <1>1, <1>2, <2>6 DEF Auditing, Judging
  <2>8. exec[p].answer = "none" BY <1>1, WholeIs DEF AnswerFits
  <2>9. AnswerFits(rec, answers, ledger, versions) BY <2>3, <2>4, <2>8 DEF AnswerFits
  <2>10. AnswersFit' BY <1>1, <2>5, <2>9, AnswersStay DEF rows
  <2>11. Lineage' BY <1>1, <2>4, <2>5, <2>7, LineageOfABody DEF rows
  <2>12. run.payload.repair \/ rec.copy.repair \/ rec.op = Repair => Announced
    BY <2>3, <2>4 DEF Announced
  <2>13. LacksFrom(rec.script, <<"put", "FINAL_READY">>) BY <2>4 DEF LacksFrom
  <2>14. NotRepaired => run.payload.repair /\ run.stage \in QaSide \cup {"FAILED"} /\ Rejudges(rec)
    BY <1>1, <1>2, <2>4, <2>6, JudgingIs DEF NotRepaired, Rejudges, Ending
  <2>15. QaInv'
    BY <1>1, <1>2, <2>3, <2>4, <2>5, <2>7, <2>12, <2>13, <2>14, JudgingIs, QaMoves DEF rows
  <2>16. QED BY <2>10, <2>11, <2>15 DEF Whole
<1>4. CASE Go(p, Then(p, FailedQa, exec[p].copy)) BY <1>1, <1>2, <1>4, FailsQaKeepsWhole
<1>5. QED BY <1>3, <1>4

LEMMA GiveUpKeepsWhole == ASSUME Whole, LegacyInv', NEW p \in Procs, GiveUp(p) PROVE Whole'
<1> USE DEF GiveUp, At
<1>1. /\ LegacyInv /\ exec[p].pc # "idle" /\ p \in Actors
      /\ run.payload.repair => Announced
  BY WholeIs, ProcsAreNoClients DEF Announced
<1>2. CASE run.stage = "FAILED" \/ run.status = "failed"
  <2>1. Go(p, Rest(p, "resolved")) /\ "resolved" \in RestPcs BY <1>2 DEF RestPcs
  <2>2. Calm BY <1>1, <2>1, PlainRestIsCalm DEF rows
  <2>3. QED BY <2>2, CalmKeepsWhole
<1>3. CASE ~(run.stage = "FAILED" \/ run.status = "failed")
  <2> DEFINE a == <<"refund", "run">>
             b == <<"put", "FAILED">>
             c == <<"app", "FAILED">>
             z == <<"end", "resolved">>
             script == <<a, b, c, z>>
             rec == [Then(p, script, run.payload) EXCEPT !.giving = TRUE]
  <2>1. a \in Instructions /\ b \in Instructions /\ c \in Instructions /\ z \in Instructions
    BY DEF Instructions, Stages, TerminalStages
  <2>2. \A s : /\ a # <<"move", s>> /\ b # <<"move", s>> /\ c # <<"move", s>> /\ z # <<"move", s>>
               /\ a # <<"put", "FINAL_READY">> /\ b # <<"put", "FINAL_READY">>
               /\ c # <<"put", "FINAL_READY">> /\ z # <<"put", "FINAL_READY">>
    OBVIOUS
  <2>3. Go(p, rec) BY <1>3
  <2> HIDE DEF a, b, c, z
  <2>4. /\ LacksFrom(script, <<"put", "FINAL_READY">>) /\ LacksFrom(script, <<"move", "V1_GENERATING">>)
        /\ LacksFrom(script, <<"move", "HR_AUDIT_1_REVIEW">>)
    BY <2>1, <2>2, LacksFour
  <2> HIDE DEF script
  <2>5. /\ rec.pc = "script" /\ rec.job = exec[p].job /\ rec.adds = NoJob
        /\ rec.op = NoOperation /\ rec.answer = "none" /\ rec.giving
        /\ rec.script = script /\ rec.copy = run.payload
    BY DEF Then, Rest, Idle
  <2> HIDE DEF rec
  <2>6. rec.pc \notin BodyPcs /\ ~Ending(rec) /\ rec.pc # "next" BY <2>5 DEF BodyPcs, Ending
  <2>7. QaAllows(rec)
    BY <1>1, <2>4, <2>5, <2>6 DEF QaAllows, Repairing, NotRepaired, Remakes, Rejudges
  <2>8. Goes(rec, answers[FirstAudit]) BY <2>4, <2>5 DEF Goes
  <2>9. FromGeneration => app' \in LaterStages BY DEF FromGeneration
  <2>10. rec.pc \in {"script", "next"} BY <2>5
  <2>11. QED BY <2>3, <2>5, <2>6, <2>7, <2>8, <2>9, <2>10, EndsKeepWhole DEF rows
<1>4. QED BY <1>2, <1>3

LEMMA ClaimStageIs ==
    ASSUME LegacyInv, NEW p \in Procs, ClaimStage(p)
    PROVE  /\ p \in Actors /\ p \notin Clients /\ exec[p].pc = "claim" /\ exec[p].pc # "idle"
           /\ Stage(exec[p]) \in BodyStages
           /\ Calm \/ \E rec : Claims(p, rec)
<1> USE DEF ClaimStage, At
<1> DEFINE key == exec[p].job[1]
           stage == Stage(exec[p])
<1>1. /\ p \in Actors /\ p \notin Clients /\ exec[p].pc = "claim" /\ exec[p].pc # "idle"
      /\ exec[p] \in Activity /\ exec[p].job \in JobIds /\ Shape(exec[p]) /\ stage \in BodyStages
      /\ StageAt(p) = stage /\ stage = RunningCounterpart(key) /\ run \in Run /\ run.payload \in Payload
  BY ProcsAreNoClients, ActorIsTyped, DeliveryHasAJob, TypesOfLegacyInv DEF Stage, Run
<1>2. Resting(exec[p]) BY <1>1 DEF Shape, Resting, BodyPcs
<1>3. UNCHANGED <<jobs, app, ledger, answers, versions>> BY DEF rows
<1>4. CASE /\ StageMatchesJobClaim(run.stage, key)
           /\ run' = [run EXCEPT !.stage = RunningCounterpart(key), !.status = "running",
                                 !.payload.claims[key] = p]
           /\ Go(p, [exec[p] EXCEPT
                       !.pc = FirstStep(StageAt(p)), !.copy = run'.payload,
                       !.op = IF StageAt(p) = "FINAL_QA_RUNNING" THEN NoOperation
                              ELSE OperationAt(StageAt(p), run.payload.repair, 4)])
  <2> DEFINE pc == FirstStep(stage)
             op == IF stage = "FINAL_QA_RUNNING" THEN NoOperation
                   ELSE OperationAt(stage, run.payload.repair, 4)
             rec == [exec[p] EXCEPT !.pc = pc, !.copy = run'.payload, !.op = op]
  <2>1. /\ run'.stage = stage /\ run'.payload.repair = run.payload.repair
        /\ run'.payload.pending = run.payload.pending
    BY <1>1, <1>4 DEF Run, Payload
  <2>2. \/ run.stage = stage
        \/ run.stage = "RESEARCH_QUEUED" /\ stage = "RESEARCH_RUNNING"
    BY <1>1, <1>4 DEF StageMatchesJobClaim, RunningCounterpart
  <2>3. Go(p, rec) BY <1>1, <1>4
  <2>4. pc \in {"extract", "look", "reserve"} /\ (stage \in GeneratingStages => pc = "look")
    BY DEF FirstStep, GeneratingStages
  <2> HIDE DEF pc
  <2>5. /\ rec.pc = pc /\ rec.job = exec[p].job /\ rec.op = op /\ rec.adds = exec[p].adds
        /\ rec.script = <<>> /\ ~rec.giving /\ rec.copy = run'.payload /\ rec.answer = "none"
    BY <1>1, <1>2 DEF Activity, Resting
  <2>6. Claims(p, rec) BY <1>3, <2>1, <2>2, <2>3, <2>4, <2>5 DEF Claims
  <2>7. QED BY <1>1, <2>6
<1>5. CASE Go(p, Rest(p, "resolved")) /\ UNCHANGED run
  <2>1. "resolved" \in RestPcs BY DEF RestPcs
  <2>2. QED BY <1>1, <1>3, <1>5, <2>1, PlainRestIsCalm
<1>6. QED BY <1>4, <1>5

LEMMA ClaimedBodyIs ==
    ASSUME LegacyInv, NEW p \in Procs, Stage(exec[p]) \in BodyStages, NEW rec, Claims(p, rec)
    PROVE  /\ Stage(rec) = Stage(exec[p]) /\ rec.pc \in BodyPcs /\ ~Ending(rec)
           /\ Stage(rec) # "FINAL_QA_RUNNING" => rec.op \in OpsOf(Stage(rec))
           /\ rec.op = Repair => run.payload.repair /\ Stage(rec) \in GeneratingStages
           /\ \A n : rec.op # QaOf(n)
           /\ \A x : LacksFrom(rec.script, x)
<1> USE DEF Claims
<1>1. Stage(rec) = Stage(exec[p]) /\ rec.pc \in BodyPcs /\ ~Ending(rec) /\ \A x : LacksFrom(rec.script, x)
  BY DEF Stage, BodyPcs, Ending, LacksFrom
<1>2. CASE Stage(rec) = "FINAL_QA_RUNNING" BY <1>1, <1>2 DEF NoOperation, Repair, QaOf
<1>3. CASE Stage(rec) # "FINAL_QA_RUNNING"
  <2>1. run.payload.repair \in BOOLEAN BY TypesOfLegacyInv, PayloadFields DEF Run
  <2>2. rec.op \in OpsOf(Stage(rec)) /\ (rec.op = Repair => run.payload.repair)
    BY <1>1, <1>3, <2>1, OperationOfAStage
  <2>3. rec.op[1] # "qa" BY <1>1, <1>3, <2>2 DEF OpsOf, Repair, BodyStages
  <2>4. rec.op[1] = "generate" <=> Stage(rec) \in GeneratingStages BY <1>1, <2>2, OpsOfStages
  <2>5. QED BY <1>1, <2>2, <2>3, <2>4 DEF QaOf, Repair
<1>4. QED BY <1>2, <1>3

LEMMA ClaimStageKeepsWhole ==
    ASSUME Whole, LegacyInv', NEW p \in Procs, ClaimStage(p) PROVE Whole'
<1> DEFINE stage == Stage(exec[p])
<1>1. /\ LegacyInv /\ AnswersFit /\ Lineage /\ QaInv /\ p \in Actors /\ p \notin Clients
      /\ exec[p].pc = "claim" /\ exec[p].pc # "idle" /\ stage \in BodyStages
  BY WholeIs, ClaimStageIs
<1>2. CASE ~Calm
  <2>1. PICK rec : Claims(p, rec) BY <1>1, <1>2, ClaimStageIs
  <2>2. /\ Go(p, rec) /\ rec.job = exec[p].job /\ rec.adds = exec[p].adds /\ rec.copy = run'.payload
        /\ rec.script = <<>> /\ ~rec.giving /\ rec.answer = "none"
        /\ rec.pc \in {"extract", "look", "reserve"} /\ (stage \in GeneratingStages => rec.pc = "look")
        /\ run'.stage = stage /\ run'.payload.repair = run.payload.repair
        /\ run.stage = stage \/ (run.stage = "RESEARCH_QUEUED" /\ stage = "RESEARCH_RUNNING")
        /\ UNCHANGED <<jobs, app, ledger, answers, versions>>
    BY <2>1 DEF Claims
  <2>3. stage # "FINAL_READY" /\ stage # "HR_AUDIT_1_REVIEW"
    BY <1>1 DEF BodyStages, GeneratingStages, AuditStages
  <2>4. /\ Stage(rec) = stage /\ rec.pc \in BodyPcs /\ ~Ending(rec)
        /\ rec.op = Repair => run.payload.repair
        /\ \A n : rec.op # QaOf(n)
        /\ \A x : LacksFrom(rec.script, x)
    BY <1>1, <2>1, ClaimedBodyIs
  <2>5. stage \in GeneratingStages /\ run.payload.repair => rec.op = Repair
    <3> SUFFICES ASSUME stage \in GeneratingStages, run.payload.repair PROVE rec.op = Repair
      OBVIOUS
    <3>1. /\ stage \notin AuditStages
          /\ stage \notin {"RESEARCH_RUNNING", "EVIDENCE_MATCHING_RUNNING", "FINAL_QA_RUNNING"}
      BY DEF AuditStages, GeneratingStages
    <3>2. QED BY <2>1, <3>1 DEF Claims, OperationAt, Repair
  <2>6. AnswerFits(rec, answers, ledger, versions) BY <2>2, <2>4 DEF AnswerFits
  <2>7. AnswersFit' BY <1>1, <2>2, <2>6, AnswersStay
  <2>8. CASE FromResearch
    <3>1. Inside(rec, FirstStages) /\ run'.stage \in FirstStages
      BY <1>1, <2>2, <2>8, StagesOfLineage DEF FromResearch, Within, Inside
    <3>2. Goes(rec, answers[FirstAudit]) /\ 4 \notin versions BY <2>4, <2>8 DEF Goes, FromResearch
    <3>3. FromResearch' BY <1>1, <2>2, <2>3, <2>8, <3>1, <3>2, ResearchMoves
    <3>4. QED BY <2>7, <3>3, ResearchHasNoQaNext DEF Whole, Lineage
  <2>9. CASE FromGeneration
    <3>1. /\ Inside(rec, LaterStages) /\ run'.stage \in LaterStages /\ run.stage \in LaterStages
          /\ app \in LaterStages
      BY <1>1, <2>2, <2>9, StagesOfLineage DEF FromGeneration, Within, Inside
    <3>2. FromGeneration' BY <1>1, <2>2, <2>9, <3>1, GenerationMoves
    <3>3. run.stage = stage /\ stage \notin {"RESEARCH_RUNNING", "EVIDENCE_MATCHING_RUNNING"}
      BY <2>2, <3>1 DEF LaterStages, FrontStages
    <3>4. run'.payload.repair \/ rec.copy.repair \/ rec.op = Repair => Announced
      BY <2>2, <2>4 DEF Announced
    <3>5. Repairing => run'.payload.repair /\ run'.stage \notin QaSide /\ Remakes(rec)
      <4> SUFFICES ASSUME Repairing
                   PROVE  run'.payload.repair /\ run'.stage \notin QaSide /\ Remakes(rec)
        OBVIOUS
      <4>1. run.payload.repair /\ run.stage \notin QaSide BY DEF Repairing
      <4>2. stage \in AuditStages \cup GeneratingStages BY <1>1, <3>3, <4>1 DEF BodyStages, QaSide
      <4>3. Remakes(rec) BY <2>2, <2>4, <2>5, <4>1, <4>2 DEF Remakes
      <4>4. QED BY <2>2, <3>3, <4>1, <4>3
    <3>6. NotRepaired => /\ run'.payload.repair /\ run'.stage \in QaSide \cup {"FAILED"}
                         /\ Rejudges(rec)
      <4> SUFFICES ASSUME NotRepaired
                   PROVE  /\ run'.payload.repair /\ run'.stage \in QaSide \cup {"FAILED"}
                          /\ Rejudges(rec)
        OBVIOUS
      <4>1. run.payload.repair /\ run.stage \in QaSide \cup {"FAILED"} BY DEF NotRepaired
      <4>2. stage = "FINAL_QA_RUNNING"
        BY <1>1, <3>3, <4>1 DEF BodyStages, QaSide, GeneratingStages, AuditStages
      <4>3. Rejudges(rec) BY <2>2, <2>4, <4>1, <4>2 DEF Rejudges
      <4>4. QED BY <2>2, <3>3, <4>1, <4>3
    <3>7. QaInv' BY <1>1, <2>2, <2>3, <2>4, <3>4, <3>5, <3>6, QaMoves
    <3>8. QED BY <2>7, <3>2, <3>7 DEF Whole, Lineage
  <2>10. QED BY <1>1, <2>8, <2>9 DEF Lineage
<1>3. QED BY <1>2, CalmKeepsWhole

LEMMA JudgementIs ==
    ASSUME Whole, NEW p \in Procs, exec[p].pc = "judge"
    PROVE  /\ exec[p].pc \in BodyPcs /\ exec[p].op \in OpsOf(Stage(exec[p]))
           /\ exec[p].op \in Operations /\ Stage(exec[p]) \in BodyStages
           /\ exec[p].answer # "none" /\ exec[p].answer \in Answers(exec[p].op)
           /\ answers[exec[p].op] = exec[p].answer
           /\ ledger[exec[p].op] = "committed"
<1>1. LegacyInv /\ AnswersFit /\ exec[p].pc \in BodyPcs /\ p \in Actors
  BY WholeIs, ProcsAreNoClients DEF BodyPcs
<1>2. exec[p].op \in OpsOf(Stage(exec[p])) /\ exec[p].op \in Operations /\ Stage(exec[p]) \in BodyStages
  BY <1>1, BodyHasAnOperation, InBody
<1>3. AnswerFits(exec[p], answers, ledger, versions) BY WholeIs
<1>4. QED BY <1>1, <1>2, <1>3 DEF AnswerFits, AnswersFit

\* What was passed is the newest version: V4 while there is no repair, else the repair.
LEMMA PassedIsCleared ==
    ASSUME Whole, NEW p \in Procs, exec[p].pc = "judge", Stage(exec[p]) = "FINAL_QA_RUNNING",
           exec[p].answer = "passed"
    PROVE  Cleared(answers, ledger, Newest)
<1>1. exec[p].op \in {QaOf(4), QaOf(RepairVersion)}
  BY JudgementIs DEF OpsOf, GeneratingStages, AuditStages
<1>2. CASE exec[p].op = QaOf(RepairVersion)
  <2>1. RepairVersion \in versions BY <1>2, WholeIs DEF AnswerFits
  <2>2. QED BY <1>2, <2>1, JudgementIs DEF Cleared, Newest
<1>3. CASE exec[p].op = QaOf(4)
  <2>1. answers[QaOf(4)] = "passed" BY <1>3, JudgementIs
  <2>2. RepairVersion \notin versions
    <3> SUFFICES ASSUME RepairVersion \in versions PROVE FALSE
      OBVIOUS
    <3>1. Announced BY DEF Announced
    <3>2. ~Forgotten /\ ~Repairing /\ ~NotRepaired BY <1>3 DEF Forgotten, Repairing, NotRepaired
    <3>3. QED BY <2>1, <3>1, <3>2, WholeIs DEF QaInv, RepairIsJustified
  <2>3. QED BY <1>3, <2>2, JudgementIs DEF Cleared, Newest
<1>4. QED BY <1>1, <1>2, <1>3

LEMMA QaScriptsLack ==
    /\ LacksFrom(ReadyScript, <<"put", "V4_GENERATING">>)
    /\ LacksFrom(<< <<"put", "V4_GENERATING">>, <<"app", "V4_GENERATING">>, <<"end", "resolved">> >>,
                 <<"put", "FINAL_READY">>)
<1>1. /\ \A t \in {"FINAL_READY", "V4_GENERATING"} :
            <<"put", t>> \in Instructions /\ <<"app", t>> \in Instructions
      /\ <<"end", "resolved">> \in Instructions /\ <<"render", "documents">> \in Instructions
  BY StagesAreStages DEF Instructions
<1>2. LacksFrom(ReadyScript, <<"put", "V4_GENERATING">>) BY <1>1, LacksFour DEF ReadyScript
<1>3. QED BY <1>1, <1>2, LacksThree

LEMMA JudgeQaKeepsWhole ==
    ASSUME Whole, LegacyInv', NEW p \in Procs, exec[p].pc = "judge",
           Stage(exec[p]) = "FINAL_QA_RUNNING", JudgeQa(p), UNCHANGED <<jobs, app, rows, faults>>
    PROVE  Whole'
<1> USE DEF JudgeQa
<1>1. /\ LegacyInv /\ p \in Actors /\ exec[p].pc \in BodyPcs /\ exec[p].pc # "idle"
      /\ run \in Run /\ exec[p].copy \in Payload
      /\ run.payload.repair \/ exec[p].copy.repair => Announced
  BY WholeIs, InBody, TypesOfLegacyInv DEF BodyPcs, Announced
<1>2. /\ ~FromResearch /\ ~Repairing /\ (FromGeneration => app' \in LaterStages)
      /\ NotRepaired => exec[p].copy.repair /\ run.payload.repair
  BY <1>1, JudgingIs
<1> DEFINE copy == exec[p].copy
           script == << <<"put", "V4_GENERATING">>, <<"app", "V4_GENERATING">>,
                        <<"end", "resolved">> >>
<1>3. CASE /\ exec[p].answer = "passed" /\ UNCHANGED run
           /\ Go(p, Then(p, ReadyScript, copy))
  <2>1. Cleared(answers, ledger, Newest) BY <1>3, PassedIsCleared
  <2>2. LacksFrom(ReadyScript, <<"put", "V4_GENERATING">>) BY QaScriptsLack
  <2>3. run'.payload.repair \/ copy.repair => Announced BY <1>1, <1>3
  <2>4. NotRepaired => copy.repair /\ run'.payload.repair BY <1>2, <1>3
  <2> HIDE DEF copy
  <2>5. QED BY <1>2, <1>3, <2>1, <2>2, <2>3, <2>4, ThenKeepsWhole DEF rows
<1>4. CASE Go(p, Then(p, FailedQa, exec[p].copy)) /\ UNCHANGED run BY <1>1, <1>4, FailsQaKeepsWhole
<1>5. CASE Go(p, Thrown(p, "permanent")) /\ UNCHANGED run
  <2>1. Calm BY <1>1, <1>5, ThrownIsCalm DEF rows
  <2>2. QED BY <2>1, CalmKeepsWhole
<1>6. CASE exec[p].answer = "repairable" /\ ~exec[p].copy.repair /\ StartRepair(p)
  <2> DEFINE payload == [exec[p].copy EXCEPT !.claims = NoClaims, !.repair = TRUE]
  <2>1. run' = [run EXCEPT !.payload = payload] /\ Go(p, Then(p, script, payload))
    BY <1>6 DEF StartRepair
  <2>2. LacksFrom(script, <<"put", "FINAL_READY">>) BY QaScriptsLack
  <2>3. \/ Announced
        \/ answers[QaOf(4)] = "repairable" /\ ledger[QaOf(4)] = "committed"
    <3>1. exec[p].op \in {QaOf(4), QaOf(RepairVersion)}
      BY JudgementIs DEF OpsOf, GeneratingStages, AuditStages
    <3>2. CASE exec[p].op = QaOf(RepairVersion) BY <3>2, WholeIs DEF AnswerFits, Announced
    <3>3. CASE exec[p].op = QaOf(4) BY <1>6, <3>3, JudgementIs
    <3>4. QED BY <3>1, <3>2, <3>3
  <2>4. ~NotRepaired BY <1>2, <1>6
  <2> HIDE DEF script, payload
  <2>5. run'.stage = run.stage BY <1>1, <2>1 DEF Run
  <2>6. QED BY <1>2, <2>1, <2>2, <2>3, <2>4, <2>5, ThenKeepsWhole DEF rows
<1>7. QED BY <1>3, <1>4, <1>5, <1>6

LEMMA FrontScriptsLack ==
    ASSUME NEW answer, NEW s, s \notin FrontStages \cup {"V0_GENERATING"}
    PROVE  LacksFrom(ResearchScript(answer), <<"move", s>>) /\ LacksFrom(MatchScript, <<"move", s>>)
<1> DEFINE z == <<"end", "resolved">>
<1>1. z \in Instructions /\ z # <<"move", s>> /\ s \notin {"V0_GENERATING", "RESEARCH_COMPLETED",
        "EVIDENCE_MATCHING_RUNNING", "EVIDENCE_MATCHING_COMPLETED"}
  BY DEF Instructions, FrontStages
<1>2. /\ <<"pause", "RESEARCH_COMPLETED">> \in Instructions
      /\ <<"app", "RESEARCH_COMPLETED">> \in Instructions
      /\ <<"move", "RESEARCH_COMPLETED">> \in Instructions
      /\ <<"app", "EVIDENCE_MATCHING_RUNNING">> \in Instructions
      /\ <<"move", "EVIDENCE_MATCHING_RUNNING">> \in Instructions
      /\ <<"move", "EVIDENCE_MATCHING_COMPLETED">> \in Instructions
      /\ <<"app", "V0_GENERATING">> \in Instructions
      /\ <<"move", "V0_GENERATING">> \in Instructions
  BY DEF Instructions, Stages, RunningStages, GeneratingStages
<1> HIDE DEF z
<1>3. MatchScript = << <<"move", "EVIDENCE_MATCHING_COMPLETED">>, <<"app", "V0_GENERATING">>,
                       <<"move", "V0_GENERATING">>, z >>
  BY DEF MatchScript, z
<1>4. LacksFrom(MatchScript, <<"move", s>>) BY <1>1, <1>2, <1>3, LacksFour
<1>5. CASE answer = "questions"
  <2>1. ResearchScript(answer) = << <<"pause", "RESEARCH_COMPLETED">>, <<"app", "RESEARCH_COMPLETED">>, z >>
    BY <1>5 DEF ResearchScript, z
  <2>2. QED BY <1>1, <1>2, <1>4, <2>1, LacksThree
<1>6. CASE answer # "questions"
  <2>1. ResearchScript(answer)
          = << <<"move", "RESEARCH_COMPLETED">>, <<"app", "RESEARCH_COMPLETED">>,
               <<"app", "EVIDENCE_MATCHING_RUNNING">>, <<"move", "EVIDENCE_MATCHING_RUNNING">>, z >>
    BY <1>6 DEF ResearchScript, z
  <2>2. QED BY <1>1, <1>2, <1>4, <2>1, LacksFive
<1>7. QED BY <1>5, <1>6

\* An audit sends the run to the review of its stage or to the generation that comes next.
LEMMA AuditScriptLacks ==
    ASSUME NEW stage \in AuditStages, NEW answer
    PROVE  LET target == IF answer = "done" THEN ReviewOf[stage] ELSE ProducerOf[stage] IN
           /\ LacksFrom(AuditScript(stage, answer), <<"put", "FINAL_READY">>)
           /\ \A s : s # target => LacksFrom(AuditScript(stage, answer), <<"move", s>>)
<1> DEFINE target == IF answer = "done" THEN ReviewOf[stage] ELSE ProducerOf[stage]
           z == <<"end", "resolved">>
<1>1. AuditScript(stage, answer) = << <<"move", target>>, <<"app", target>>, z >> BY DEF AuditScript
<1>2. target \in Stages BY StagesOfTables, StagesAreStages
<1>3. <<"move", target>> \in Instructions /\ <<"app", target>> \in Instructions /\ z \in Instructions
  BY <1>2 DEF Instructions
<1>4. \A s : z # <<"move", s>> /\ z # <<"put", s>> OBVIOUS
<1> HIDE DEF target, z
<1>5. \A x : x # <<"move", target>> /\ x # <<"app", target>> /\ x # z
              => LacksFrom(AuditScript(stage, answer), x)
  BY <1>1, <1>3, LacksThree
<1>6. QED BY <1>4, <1>5 DEF target

LEMMA JudgeKeepsWhole == ASSUME Whole, LegacyInv', NEW p \in Procs, Judge(p) PROVE Whole'
<1> USE DEF Judge, At
<1>1. /\ LegacyInv /\ exec[p].pc = "judge" /\ exec[p].pc \in BodyPcs /\ exec[p].pc # "idle"
      /\ StageAt(p) = Stage(exec[p]) /\ exec[p].op \in OpsOf(Stage(exec[p]))
      /\ exec[p].answer # "none" /\ exec[p].answer \in Answers(exec[p].op)
      /\ answers[exec[p].op] = exec[p].answer
  BY WholeIs, JudgementIs, InBody
<1>2. /\ FromResearch => Stage(exec[p]) \in FirstStages
      /\ FromGeneration => Stage(exec[p]) \notin {"RESEARCH_RUNNING", "EVIDENCE_MATCHING_RUNNING"}
  BY <1>1, StagesOfLineage
<1>3. \A s \in {"V1_GENERATING", "HR_AUDIT_1_REVIEW"} : s \notin FrontStages \cup {"V0_GENERATING"}
  BY DEF FrontStages
<1>4. CASE Stage(exec[p]) = "RESEARCH_RUNNING" /\ UNCHANGED run
           /\ Go(p, Then(p, ResearchScript(exec[p].answer), NoPayload))
  <2> DEFINE script == ResearchScript(exec[p].answer)
  <2>1. \A s \in {"V1_GENERATING", "HR_AUDIT_1_REVIEW"} : LacksFrom(script, <<"move", s>>)
    BY <1>3, FrontScriptsLack
  <2> HIDE DEF script
  <2>2. QED BY <1>2, <1>4, <2>1, ThenKeepsWhole DEF rows, script
<1>5. CASE Stage(exec[p]) = "EVIDENCE_MATCHING_RUNNING" /\ UNCHANGED run
           /\ Go(p, Then(p, MatchScript, NoPayload))
  <2>1. \A s \in {"V1_GENERATING", "HR_AUDIT_1_REVIEW"} : LacksFrom(MatchScript, <<"move", s>>)
    BY <1>3, FrontScriptsLack
  <2>2. QED BY <1>2, <1>5, <2>1, ThenKeepsWhole DEF rows
<1>6. CASE Stage(exec[p]) \in AuditStages /\ UNCHANGED run
           /\ Go(p, Then(p, AuditScript(Stage(exec[p]), exec[p].answer), NoPayload))
  <2> DEFINE stage == Stage(exec[p])
             target == IF exec[p].answer = "done" THEN ReviewOf[stage] ELSE ProducerOf[stage]
             script == AuditScript(stage, exec[p].answer)
  <2>1. /\ LacksFrom(script, <<"put", "FINAL_READY">>)
        /\ \A s : s # target => LacksFrom(script, <<"move", s>>)
    BY <1>6, AuditScriptLacks
  <2>2. FromResearch => /\ target # "V1_GENERATING" \/ answers[FirstAudit] = "mismatched"
                        /\ target # "HR_AUDIT_1_REVIEW" \/ answers[FirstAudit] = "done"
    <3> SUFFICES ASSUME FromResearch
                 PROVE  /\ target # "V1_GENERATING" \/ answers[FirstAudit] = "mismatched"
                        /\ target # "HR_AUDIT_1_REVIEW" \/ answers[FirstAudit] = "done"
      OBVIOUS
    <3>1. stage = "HR_AUDIT_1_RUNNING" BY <1>2, <1>6 DEF AuditStages, FirstStages, FrontStages
    <3>2. exec[p].op = FirstAudit
      BY <1>1, <3>1, AuditTables DEF OpsOf, FirstAudit, AuditStages, GeneratingStages
    <3>3. Answers(FirstAudit) = {"done", "mismatched"} BY DEF Answers, FirstAudit
    <3>4. QED BY <1>1, <3>1, <3>2, <3>3, AuditTables
  <2> HIDE DEF target, script
  <2>3. FromResearch =>
           /\ LacksFrom(script, <<"move", "V1_GENERATING">>) \/ answers[FirstAudit] = "mismatched"
           /\ LacksFrom(script, <<"move", "HR_AUDIT_1_REVIEW">>) \/ answers[FirstAudit] = "done"
    BY <2>1, <2>2
  <2>4. ~NotRepaired /\ (Repairing => run.payload.repair)
    BY <1>1, <1>6 DEF NotRepaired, Rejudges, AuditStages, Repairing
  <2>5. run.payload.repair \/ NoPayload.repair => Announced BY NoPayloadIsAPayload DEF Announced
  <2>6. FromGeneration => app' \in LaterStages BY DEF FromGeneration
  <2>7. Go(p, Then(p, script, NoPayload)) /\ UNCHANGED run BY <1>6 DEF script
  <2>8. QED BY <1>6, <2>1, <2>3, <2>4, <2>5, <2>6, <2>7, ThenKeepsWhole DEF rows
<1>7. CASE Stage(exec[p]) = "FINAL_QA_RUNNING" /\ JudgeQa(p) BY <1>1, <1>7, JudgeQaKeepsWhole
<1>8. QED BY <1>1, <1>4, <1>5, <1>6, <1>7

-----------------------------------------------------------------------------
(* The call of the Python service, and the new version.                     *)

LEMMA CalledKeepsWhole ==
    ASSUME Whole, LegacyInv', NEW p \in Procs, exec[p].pc = "call", NEW rec, Go(p, rec),
           rec.job = exec[p].job, rec.adds \in {NoJob, exec[p].adds}, rec.script = <<>>,
           AnswerFits(rec, answers', ledger, versions),
           \/ Resting(rec)
           \/ /\ rec.op = exec[p].op /\ rec.copy = exec[p].copy /\ ~rec.giving
              /\ rec.pc \in BodyPcs /\ (rec.op = Repair => rec.pc = "park"),
           \A op \in Operations :
              /\ answers'[op] \in Answers(op) \cup {"none"}
              /\ answers'[op] # answers[op] => op = exec[p].op /\ answers[op] = "none",
           UNCHANGED <<run, jobs, app, ledger, versions>>
    PROVE  Whole'
<1>1. /\ p \in Actors /\ p \notin Clients /\ LegacyInv /\ AnswersFit /\ Lineage /\ QaInv
      /\ exec[p].pc \in BodyPcs /\ exec[p].op \in OpsOf(Stage(exec[p]))
      /\ Stage(exec[p]) \in BodyStages /\ NoJob[1] = "none"
  BY WholeIs, ProcsAreNoClients, BodyHasAnOperation, InBody DEF BodyPcs, NoJob
<1>2. Stage(rec) = Stage(exec[p]) /\ (Judging(rec) => Judging(exec[p])) /\ (Auditing(rec) => Auditing(exec[p]))
  BY <1>1 DEF Stage, Judging, Auditing
<1>3. AnswersFit' BY <1>1, AnswersMove
<1>4. FirstAudit \in Operations /\ QaOf(4) \in Operations /\ QaOf(RepairVersion) \in Operations
      /\ QaOf(4) # Repair
  BY DEF FirstAudit, QaOf, Operations, Repair
<1>5. exec[p].op = FirstAudit => Auditing(exec[p])
  <2> SUFFICES ASSUME exec[p].op = FirstAudit PROVE Stage(exec[p]) = "HR_AUDIT_1_RUNNING"
    BY <1>1 DEF Auditing
  <2>1. Stage(exec[p]) \in AuditStages BY <1>1, OpsOfStages DEF FirstAudit
  <2>2. exec[p].op = <<"audit", Reviewed[Stage(exec[p])]>>
    BY <1>1, <2>1 DEF OpsOf, AuditStages, GeneratingStages
  <2>3. Reviewed[Stage(exec[p])] = 0 BY <2>2 DEF FirstAudit
  <2>4. QED BY <2>1, <2>3, AuditTables DEF AuditStages
<1>6. \A n : exec[p].op = QaOf(n) => Judging(exec[p])
  <2> SUFFICES ASSUME NEW n, exec[p].op = QaOf(n) PROVE Stage(exec[p]) = "FINAL_QA_RUNNING"
    BY <1>1 DEF Judging
  <2>1. Stage(exec[p]) \notin AuditStages \cup GeneratingStages BY <1>1, OpsOfStages DEF QaOf
  <2>2. QED BY <1>1, <2>1 DEF OpsOf, QaOf, BodyStages
<1>7. Lineage'
  <2>1. CASE FromResearch
    <3>1. Inside(rec, FirstStages) /\ run'.stage \in FirstStages /\ 4 \notin versions'
      BY <1>1, <2>1 DEF FromResearch, Within, Inside
    <3>2. Goes(rec, answers'[FirstAudit]) BY DEF Goes, LacksFrom
    <3>3. FromResearch' BY <1>1, <1>2, <1>4, <1>5, <2>1, <3>1, <3>2, ResearchMoves
    <3>4. QED BY <3>3 DEF Lineage
  <2>2. CASE FromGeneration
    <3>1. Inside(rec, LaterStages) /\ run'.stage \in LaterStages /\ app' \in LaterStages
      BY <1>1, <2>2 DEF FromGeneration, Within, Inside
    <3>2. FromGeneration' BY <1>1, <2>2, <3>1, GenerationMoves
    <3>3. QED BY <3>2 DEF Lineage
  <2>3. QED BY <1>1, <2>1, <2>2 DEF Lineage
<1>8. /\ rec.copy.repair \/ rec.op = Repair => exec[p].copy.repair \/ exec[p].op = Repair
      /\ rec.op = QaOf(4) => exec[p].op = QaOf(4)
  BY RestingIs
<1>9. run'.payload.repair \/ rec.copy.repair \/ rec.op = Repair => Announced BY <1>8 DEF Announced
<1>10. LacksFrom(rec.script, <<"put", "FINAL_READY">>) BY DEF LacksFrom
<1>11. Repairing => run'.payload.repair /\ run'.stage \notin QaSide /\ Remakes(rec)
  <2> SUFFICES ASSUME Repairing PROVE Remakes(rec)
    BY DEF Repairing
  <2>1. CASE Resting(rec) BY <2>1, RestingKeepsAll
  <2>2. CASE ~Resting(rec)
    <3>1. Remakes(exec[p]) BY DEF Repairing
    <3>2. QED BY <1>1, <1>2, <2>2, <3>1 DEF Remakes, Ending
  <2>3. QED BY <2>1, <2>2
<1>12. NotRepaired => run'.payload.repair /\ run'.stage \in QaSide \cup {"FAILED"} /\ Rejudges(rec)
  <2> SUFFICES ASSUME NotRepaired PROVE Rejudges(rec)
    BY DEF NotRepaired
  <2>1. CASE Resting(rec) BY <2>1, RestingKeepsAll
  <2>2. CASE ~Resting(rec)
    <3>1. Rejudges(exec[p]) BY DEF NotRepaired
    <3>2. QED BY <1>1, <1>2, <2>2, <3>1 DEF Rejudges, Ending
  <2>3. QED BY <2>1, <2>2
<1>13. \A n \in {4, RepairVersion} :
         \/ answers'[QaOf(n)] = answers[QaOf(n)]
         \/ /\ p \in Procs /\ Judging(exec[p]) /\ exec[p].op = QaOf(n)
            /\ answers[QaOf(n)] = "none"
  BY <1>4, <1>6
<1>14. QaInv' BY <1>1, <1>2, <1>8, <1>9, <1>10, <1>11, <1>12, <1>13, QaMoves
<1>15. QED BY <1>3, <1>7, <1>14 DEF Whole

LEMMA CallsKeepsWhole == ASSUME Whole, LegacyInv', NEW p \in Procs, Calls(p) PROVE Whole'
<1> USE DEF Calls, At
<1>1. /\ LegacyInv /\ AnswersFit /\ exec[p].pc = "call" /\ exec[p].pc \in BodyPcs
      /\ exec[p].pc # "idle" /\ p \in Actors
      /\ exec[p].op \in OpsOf(Stage(exec[p])) /\ exec[p].op \in Operations
      /\ AnswerFits(exec[p], answers, ledger, versions)
  BY WholeIs, BodyHasAnOperation, InBody DEF BodyPcs
<1>2. exec[p] \in Activity /\ exec[p].script = <<>> /\ ~exec[p].giving BY <1>1, InBody
<1>3. answers \in [Operations -> AllAnswers] /\ \A op \in Operations : answers[op] \in Answers(op) \cup {"none"}
  BY <1>1, TypesOfLegacyInv DEF RowsTypeOK, AnswersFit
<1>4. \A op : "none" \notin Answers(op) BY DEF Answers
<1>5. /\ \A op \in Operations :
            /\ answers'[op] \in Answers(op) \cup {"none"}
            /\ answers'[op] # answers[op] => op = exec[p].op /\ answers[op] = "none"
      /\ answers'[exec[p].op] # "none"
  <2>1. CASE answers[exec[p].op] = "none"
    <3>1. PICK answer \in Answers(exec[p].op) : answers' = [answers EXCEPT ![exec[p].op] = answer]
      BY <2>1
    <3>2. QED BY <1>1, <1>3, <1>4, <2>1, <3>1
  <2>2. CASE answers[exec[p].op] # "none" BY <1>1, <1>3, <2>2
  <2>3. QED BY <2>1, <2>2
<1>6. CASE Go(p, Receives(p))
  <2> DEFINE rec == Receives(p)
  <2>1. AfterCall(p) \in {"park", "record", "commit"}
        /\ (exec[p].op[1] = "generate" <=> AfterCall(p) = "park")
    BY DEF AfterCall
  <2>2. /\ rec.pc = AfterCall(p) /\ rec.job = exec[p].job /\ rec.adds = exec[p].adds
        /\ rec.answer = answers'[exec[p].op]
        /\ rec.script = <<>> /\ ~rec.giving /\ rec.op = exec[p].op /\ rec.copy = exec[p].copy
    BY <1>2 DEF Receives, Activity
  <2>3. Go(p, rec) BY <1>6
  <2> HIDE DEF rec
  <2>4. rec.pc \in BodyPcs /\ (rec.op = Repair => rec.pc = "park") BY <2>1, <2>2 DEF BodyPcs, Repair
  <2>5. exec[p].op # NoOperation BY <1>1, OpsOfStages, InBody
  <2>6. AnswerFits(rec, answers', ledger, versions) BY <1>1, <1>5, <2>1, <2>2, <2>5 DEF AnswerFits
  <2>7. QED BY <1>1, <1>5, <2>2, <2>3, <2>4, <2>6, CalledKeepsWhole
<1>7. CASE Go(p, Thrown(p, "retryable"))
  <2> DEFINE rec == Thrown(p, "retryable")
  <2>1. Resting(rec) /\ rec.job = exec[p].job BY <1>1, ThrownFits
  <2>2. rec.adds = NoJob BY RestIs DEF Thrown, Rest, Idle
  <2>3. Go(p, rec) BY <1>7
  <2> HIDE DEF rec
  <2>4. AnswerFits(rec, answers', ledger, versions) /\ rec.script = <<>>
    BY <2>1, RestingKeepsAll DEF Resting
  <2>5. QED BY <1>1, <1>5, <2>1, <2>2, <2>3, <2>4, CalledKeepsWhole
<1>8. QED BY <1>6, <1>7

\* The repair itself: V4's judgement stays the reason, or is out of everybody's reach.
LEMMA RepairKeepsQa ==
    ASSUME LegacyInv, QaInv, NEW p \in Procs, exec[p].pc \in BodyPcs, exec[p].op = Repair,
           Stage(exec[p]) \in GeneratingStages, RepairVersion \notin versions,
           NEW rec, Go(p, rec), rec.op = Repair, rec.script = <<>>,
           versions' = versions \cup {RepairVersion}, UNCHANGED <<run, ledger, answers>>
    PROVE  QaInv'
<1>1. exec' = [exec EXCEPT ![p] = rec] /\ \A q \in Procs : exec'[q] = IF q = p THEN rec ELSE exec[q]
  BY TypesOfLegacyInv, ProcsAreNoClients DEF Go
<1>2. ~NotRepaired /\ ~Forgotten BY DEF NotRepaired, Rejudges, Forgotten, GeneratingStages
<1>3. ledger[QaOf(4)] = "committed" /\ (answers[QaOf(4)] = "repairable" \/ Repairing)
  BY <1>2 DEF QaInv, RepairIsJustified, Announced
<1>4. Repairing => Forgotten'
  <2> SUFFICES ASSUME Repairing PROVE Forgotten'
    OBVIOUS
  <2>1. ASSUME NEW q \in Procs PROVE exec[q].op # QaOf(4)
    <3>1. Remakes(exec[q]) /\ Shape(exec[q]) BY ProcsAreNoClients, ActorIsTyped DEF Repairing
    <3>2. CASE exec[q].pc \in BodyPcs
      <4>1. CASE exec[q].op = Repair BY <4>1 DEF Repair, QaOf
      <4>2. CASE Stage(exec[q]) \in AuditStages
        <5>1. exec[q].op \in OpsOf(Stage(exec[q])) \/ exec[q].op = NoOperation
          BY <3>2, InBody DEF OpFits
        <5>2. QED BY <4>2, <5>1 DEF OpsOf, AuditStages, GeneratingStages, QaOf, NoOperation
      <4>3. QED BY <3>1, <3>2, <4>1, <4>2 DEF Remakes
    <3>3. CASE exec[q].pc \notin BodyPcs BY <3>1, <3>3 DEF Shape, NoOperation, QaOf
    <3>4. QED BY <3>2, <3>3
  <2>2. Repair # QaOf(4) BY DEF Repair, QaOf
  <2>3. QED BY <1>1, <2>1, <2>2 DEF Repairing, Forgotten
<1>5. RepairIsJustified' BY <1>3, <1>4 DEF RepairIsJustified
<1>6. Newest = 4 /\ answers[QaOf(4)] # "passed" BY <1>3 DEF Newest, Repairing
<1>7. \A q \in Procs : LacksFrom(exec[q].script, <<"put", "FINAL_READY">>)
  BY <1>6 DEF QaInv, ReadyIsCleared
<1>8. run.stage # "FINAL_READY"
  <2> SUFFICES ASSUME run.stage = "FINAL_READY" PROVE FALSE
    OBVIOUS
  <2>1. answers[QaOf(4)] = "none" BY <1>6 DEF QaInv, ReadyIsCleared
  <2>2. QED BY <1>3, <2>1 DEF Repairing, QaSide
<1>9. LacksFrom(rec.script, <<"put", "FINAL_READY">>) BY DEF LacksFrom
<1>10. ReadyIsCleared' BY <1>1, <1>7, <1>8, <1>9 DEF ReadyIsCleared
<1>11. QED BY <1>5, <1>10 DEF QaInv

LEMMA AppendVersionKeepsWhole ==
    ASSUME Whole, LegacyInv', NEW p \in Procs, AppendVersion(p) PROVE Whole'
<1> USE DEF AppendVersion, At
<1> DEFINE pc == IF Number(p) = RepairVersion THEN "reread" ELSE "point"
           rec == [exec[p] EXCEPT !.pc = pc]
<1>1. /\ LegacyInv /\ AnswersFit /\ Lineage /\ QaInv /\ exec[p].pc = "append"
      /\ exec[p].pc \in BodyPcs /\ exec[p].pc # "idle" /\ p \in Actors /\ p \notin Clients
      /\ exec[p].op \in OpsOf(Stage(exec[p])) /\ Stage(exec[p]) \in BodyStages
      /\ AnswerFits(exec[p], answers, ledger, versions)
      /\ exec[p] \in Activity /\ exec[p].script = <<>> /\ ~exec[p].giving
  BY WholeIs, BodyHasAnOperation, InBody, ProcsAreNoClients DEF BodyPcs
<1>2. Stage(exec[p]) \in GeneratingStages BY <1>1, InBody DEF PcsOf
<1>3. /\ (Number(p) = RepairVersion <=> exec[p].op = Repair)
      /\ (Number(p) = 4 => Stage(exec[p]) = "V4_GENERATING")
      /\ \A n : exec[p].op # QaOf(n)
  <2>1. exec[p].op[1] = "generate" /\ (Number(p) = RepairVersion => exec[p].op = Repair)
        /\ (Number(p) = 4 => Stage(exec[p]) = "V4_GENERATING")
    BY <1>1, <1>2, OpsOfStages DEF Number
  <2>2. \A n : QaOf(n)[1] = "qa" BY DEF QaOf
  <2>3. Repair[2] = RepairVersion BY DEF Repair
  <2>4. QED BY <2>1, <2>2, <2>3 DEF Number
<1>4. /\ rec.pc \in {"reread", "point"} /\ rec.job = exec[p].job /\ rec.adds = exec[p].adds
      /\ rec.answer = exec[p].answer /\ rec.script = <<>> /\ ~rec.giving /\ rec.op = exec[p].op
      /\ rec.copy = exec[p].copy
  BY <1>1 DEF Activity
<1>5. Go(p, rec) OBVIOUS
<1> HIDE DEF rec
<1>6. ~Auditing(rec) /\ ~Judging(rec) BY <1>2, <1>4 DEF Auditing, Judging, Stage, GeneratingStages
<1>7. AnswerFits(rec, answers', ledger', versions') BY <1>1, <1>3, <1>4 DEF AnswerFits
<1>8. AnswersFit' BY <1>1, <1>5, <1>7, AnswersMove DEF AnswersFit
<1>9. CASE FromResearch
  <2>1. 4 \notin versions /\ Stage(exec[p]) # "V4_GENERATING"
    BY <1>1, <1>9, StagesOfLineage DEF FromResearch, FirstStages, FrontStages
  <2>2. 4 \notin versions' BY <1>3, <2>1
  <2>3. Inside(rec, FirstStages) /\ run'.stage \in FirstStages
    BY <1>1, <1>4, <1>9 DEF FromResearch, Within, Inside
  <2>4. Goes(rec, answers'[FirstAudit]) BY <1>4 DEF Goes, LacksFrom
  <2>5. FromResearch' BY <1>1, <1>5, <1>6, <1>9, <2>2, <2>3, <2>4, ResearchMoves
  <2>6. QED BY <1>8, <2>5, ResearchHasNoQaNext DEF Whole, Lineage
<1>10. CASE FromGeneration
  <2>1. Inside(rec, LaterStages) /\ run'.stage \in LaterStages /\ app' \in LaterStages
    BY <1>1, <1>4, <1>10 DEF FromGeneration, Within, Inside
  <2>2. FromGeneration' BY <1>1, <1>5, <1>10, <2>1, GenerationMoves
  <2>3. CASE exec[p].op = Repair /\ RepairVersion \notin versions
    <3>1. versions' = versions \cup {RepairVersion} BY <1>3, <2>3
    <3>2. QaInv' BY <1>1, <1>2, <1>4, <1>5, <2>3, <3>1, RepairKeepsQa
    <3>3. QED BY <1>8, <2>2, <3>2 DEF Whole, Lineage
  <2>4. CASE ~(exec[p].op = Repair /\ RepairVersion \notin versions)
    <3>1. RepairVersion \in versions' <=> RepairVersion \in versions BY <1>3, <2>4
    <3>2. ~Repairing /\ ~NotRepaired
      BY <1>1, <1>2, <2>4
      DEF Repairing, Remakes, NotRepaired, Rejudges, AuditStages, GeneratingStages
    <3>3. run'.payload.repair \/ rec.copy.repair \/ rec.op = Repair => Announced
      BY <1>4 DEF Announced
    <3>4. LacksFrom(rec.script, <<"put", "FINAL_READY">>) BY <1>4 DEF LacksFrom
    <3>5. QaInv' BY <1>1, <1>3, <1>4, <1>5, <1>6, <3>1, <3>2, <3>3, <3>4, QaMoves
    <3>6. QED BY <1>8, <2>2, <3>5 DEF Whole, Lineage
  <2>5. QED BY <2>3, <2>4
<1>11. QED BY <1>1, <1>9, <1>10 DEF Lineage

-----------------------------------------------------------------------------
(* The scripts.                                                             *)

LEMMA HeadIsThere ==
    ASSUME NEW x, NEW script, LacksFrom(script, x), script # <<>>
    PROVE  Head(script) # x
BY DEF LacksFrom

LEMMA TailIsThere ==
    ASSUME NEW S, NEW script \in Seq(S), script # <<>>
    PROVE  Tail(script) \in Seq(S) /\ Head(script) \in S
OBVIOUS

LEMMA SpeakingOnIs ==
    ASSUME LegacyInv, NEW a \in Actors, exec[a].pc \in {"script", "enqueue"},
           NEW rec, SpeaksOn(rec, exec[a])
    PROVE  /\ \A x : LacksFrom(exec[a].script, x) => LacksFrom(rec.script, x)
           /\ \A reviewed : Goes(exec[a], reviewed) => Goes(rec, reviewed)
           /\ Remakes(exec[a]) => Remakes(rec)
           /\ Rejudges(exec[a]) => Rejudges(rec)
           /\ exec[a].script \in Seq(Ends) => rec.script \in Seq(Ends)
           /\ \A kept, paid, there : AnswerFits(rec, kept, paid, there)
           /\ ~Auditing(rec) /\ ~Judging(rec)
           /\ rec.op # Repair /\ \A n : rec.op # QaOf(n)
<1> USE DEF SpeaksOn
<1>1. /\ exec[a].script # <<>> /\ exec[a].op = NoOperation /\ exec[a].answer = "none"
      /\ exec[a].pc \notin BodyPcs /\ rec.pc \notin BodyPcs /\ Stage(rec) = Stage(exec[a])
  BY InScript DEF BodyPcs, Stage
<1>2. \A x : LacksFrom(exec[a].script, x) => LacksFrom(rec.script, x)
  <2> SUFFICES ASSUME NEW x, LacksFrom(exec[a].script, x) PROVE LacksFrom(rec.script, x)
    OBVIOUS
  <2> DEFINE S == Instructions \ {x}
  <2>1. exec[a].script \in Seq(S) BY DEF LacksFrom
  <2> HIDE DEF S
  <2>2. rec.script \in Seq(S) BY <1>1, <2>1, TailIsThere
  <2>3. QED BY <2>2 DEF LacksFrom, S
<1>3. \A reviewed : Goes(exec[a], reviewed) => Goes(rec, reviewed) BY <1>2 DEF Goes
<1>4. Ending(rec) => Ending(exec[a]) BY <1>1 DEF Ending
<1>5. Remakes(exec[a]) => Remakes(rec) BY <1>1, <1>4 DEF Remakes
<1>6. Rejudges(exec[a]) => Rejudges(rec) BY <1>1, <1>2, <1>4 DEF Rejudges
<1>7. exec[a].script \in Seq(Ends) => rec.script \in Seq(Ends) BY <1>1, TailIsThere
<1>8. rec.op # Repair /\ \A n : rec.op # QaOf(n) BY <1>1 DEF NoOperation, Repair, QaOf
<1>9. \A kept, paid, there : AnswerFits(rec, kept, paid, there)
  <2>1. rec.answer = "none" /\ rec.pc \notin {"record", "findings", "judge", "commit"}
    BY <1>1 DEF BodyPcs
  <2> HIDE DEF SpeaksOn
  <2>2. QED BY <1>8, <2>1 DEF AnswerFits
<1>10. ~Auditing(rec) /\ ~Judging(rec) BY <1>1 DEF Auditing, Judging
<1>11. QED BY <1>2, <1>3, <1>5, <1>6, <1>7, <1>8, <1>9, <1>10

\* An instruction that leaves the run where it is.
LEMMA SpeakingKeepsWhole ==
    ASSUME Whole, LegacyInv', NEW a \in Actors, exec[a].pc \in {"script", "enqueue"},
           NEW rec, Go(a, rec), SpeaksOn(rec, exec[a]), rec.adds \in {NoJob, exec[a].adds},
           MayAdd(a),
           \A op \in Operations : ledger[op] = "committed" => ledger'[op] = "committed",
           UNCHANGED <<run, answers, versions>>,
           FromGeneration => app' \in LaterStages
    PROVE  Whole'
<1>1. /\ LegacyInv /\ AnswersFit /\ Lineage /\ QaInv /\ NoJob[1] = "none"
      /\ rec.job = exec[a].job /\ rec.copy = exec[a].copy
  BY WholeIs DEF NoJob, SpeaksOn
<1>2. /\ \A x : LacksFrom(exec[a].script, x) => LacksFrom(rec.script, x)
      /\ \A reviewed : Goes(exec[a], reviewed) => Goes(rec, reviewed)
      /\ Remakes(exec[a]) => Remakes(rec)
      /\ Rejudges(exec[a]) => Rejudges(rec)
      /\ exec[a].script \in Seq(Ends) => rec.script \in Seq(Ends)
      /\ \A kept, paid, there : AnswerFits(rec, kept, paid, there)
      /\ ~Auditing(rec) /\ ~Judging(rec)
      /\ rec.op # Repair /\ \A n : rec.op # QaOf(n)
  BY <1>1, SpeakingOnIs
<1>3. AnswersFit' BY <1>1, <1>2, AnswersMove DEF AnswersFit
<1>4. CASE FromResearch
  <2>1. Inside(rec, FirstStages) /\ run'.stage \in FirstStages /\ 4 \notin versions'
    BY <1>1, <1>4 DEF FromResearch, Within, Inside
  <2>2. a \in Procs => Goes(rec, answers'[FirstAudit]) BY <1>2, <1>4 DEF FromResearch
  <2>3. FromResearch' BY <1>1, <1>2, <1>4, <2>1, <2>2, ResearchMoves
  <2>4. QED BY <1>3, <2>3, ResearchHasNoQaNext DEF Whole, Lineage
<1>5. CASE FromGeneration
  <2>1. Inside(rec, LaterStages) /\ run'.stage \in LaterStages /\ app' \in LaterStages
    BY <1>1, <1>5 DEF FromGeneration, Within, Inside
  <2>2. a \in Clients => rec.script \in Seq(Ends) BY <1>2, <1>5 DEF FromGeneration
  <2>3. FromGeneration' BY <1>1, <1>5, <2>1, <2>2, GenerationMoves
  <2>4. run'.payload.repair \/ (a \in Procs /\ (rec.copy.repair \/ rec.op = Repair)) => Announced
    BY <1>1, <1>2 DEF Announced
  <2>5. a \in Procs => LacksFrom(rec.script, <<"put", "FINAL_READY">>) \/ Cleared(answers, ledger, Newest)
    BY <1>1, <1>2 DEF QaInv, ReadyIsCleared, Cleared
  <2>6. QaOf(Newest) \in Operations BY DEF Newest, QaOf, Operations
  <2>7. a \in Procs => LacksFrom(rec.script, <<"put", "FINAL_READY">>) \/ Cleared(answers', ledger', Newest)
    BY <2>5, <2>6 DEF Cleared
  <2>8. Repairing => /\ run'.payload.repair /\ run'.stage \notin QaSide
                     /\ a \in Procs => Remakes(rec)
    BY <1>2 DEF Repairing
  <2>9. NotRepaired => /\ run'.payload.repair /\ run'.stage \in QaSide \cup {"FAILED"}
                       /\ a \in Procs => Rejudges(rec)
    BY <1>2 DEF NotRepaired
  <2>10. QaInv' BY <1>1, <1>2, <2>4, <2>7, <2>8, <2>9, QaMoves
  <2>11. QED BY <1>3, <2>3, <2>10 DEF Whole, Lineage
<1>6. QED BY <1>1, <1>4, <1>5 DEF Lineage

LEMMA EnqueueKeepsWhole == ASSUME Whole, LegacyInv', NEW a \in Actors, Enqueue(a) PROVE Whole'
<1> USE DEF Enqueue, At
<1> DEFINE rec == [exec[a] EXCEPT !.pc = "script", !.adds = NoJob]
<1>1. LegacyInv /\ exec[a].pc = "enqueue" /\ exec[a] \in Activity /\ exec[a].adds \in JobIds
  BY WholeIs, InScript
<1>2. Go(a, rec) /\ SpeaksOn(rec, exec[a]) /\ rec.adds = NoJob BY <1>1 DEF SpeaksOn, Activity
<1> HIDE DEF rec
<1>3. FromGeneration => app' \in LaterStages BY DEF FromGeneration
<1>4. MayAdd(a) BY <1>1
<1>5. QED BY <1>1, <1>2, <1>3, <1>4, SpeakingKeepsWhole DEF rows

LEMMA RefundKeepsWhole ==
    ASSUME Whole, LegacyInv', NEW a \in Actors, Refund(a) \/ EnqueueDocuments(a) PROVE Whole'
<1> USE DEF Refund, EnqueueDocuments, rows, At
<1> DEFINE rec == [exec[a] EXCEPT !.script = Tail(@)]
<1>1. LegacyInv /\ exec[a].pc = "script" /\ exec[a] \in Activity BY WholeIs, InScript
<1>2. Go(a, rec) /\ SpeaksOn(rec, exec[a]) /\ rec.adds = exec[a].adds BY <1>1 DEF SpeaksOn, Activity
<1> HIDE DEF rec
<1>3. FromGeneration => app' \in LaterStages BY DEF FromGeneration
<1>4. \A op \in Operations : ledger[op] = "committed" => ledger'[op] = "committed" OBVIOUS
<1>5. QED BY <1>1, <1>2, <1>3, <1>4, SpeakingKeepsWhole

-----------------------------------------------------------------------------
(* Transitions: where the scripts can take a run.                           *)

LEMMA TransitionIs ==
    ASSUME LegacyInv, NEW a \in Actors, Transition(a)
    PROVE  /\ exec[a].pc = "script" /\ exec[a].pc # "idle" /\ (a \in Procs => a \notin Clients)
           /\ Head(exec[a].script)[1] \in {"move", "pause", "put"}
           /\ \/ Calm
              \/ /\ CanTransition(run.stage, Head(exec[a].script)[2]) /\ ledger' = ledger
                 /\ run'.payload = IF Head(exec[a].script)[1] = "put" THEN exec[a].copy ELSE run.payload
                 /\ \E rec : Moves(a, rec, Head(exec[a].script)[2])
<1> USE DEF Transition, At
<1> DEFINE kind == Head(exec[a].script)[1]
           stage == Head(exec[a].script)[2]
<1>1. /\ exec[a].pc = "script" /\ exec[a].pc # "idle" /\ exec[a] \in Activity /\ run \in Run
      /\ kind \in {"move", "pause", "put"} /\ (a \in Procs => a \notin Clients)
  BY InScript, TypesOfLegacyInv, ProcsAreNoClients
<1>2. CASE run.status # "cancelled" /\ CanTransition(run.stage, stage)
  <2> DEFINE payload == IF kind = "put" THEN exec[a].copy ELSE run.payload
             status == StatusAfter(kind, stage)
             pc == IF stage \in WorkStages THEN "enqueue" ELSE "script"
             adds == IF stage \in WorkStages THEN <<stage, run.attempt, "stage">> ELSE NoJob
             rec == [exec[a] EXCEPT !.script = Tail(@), !.pc = pc, !.adds = adds]
  <2>1. run' = [run EXCEPT !.stage = stage, !.status = status, !.payload = payload] /\ Go(a, rec)
    BY <1>2
  <2>2. pc \in {"script", "enqueue"} /\ adds[1] \in {stage, "none"} BY DEF NoJob
  <2> HIDE DEF pc, adds, status
  <2>3. run'.stage = stage /\ run'.payload = payload BY <1>1, <2>1 DEF Run
  <2>4. SpeaksOn(rec, exec[a]) /\ rec.adds[1] \in {stage, "none"}
    BY <1>1, <2>2 DEF SpeaksOn, Activity
  <2>5. UNCHANGED <<jobs, app, ledger, answers, versions>> BY <1>2 DEF rows
  <2>6. Moves(a, rec, stage) BY <2>1, <2>3, <2>4, <2>5 DEF Moves
  <2> HIDE DEF Transition, rec
  <2>7. QED BY <1>1, <1>2, <2>3, <2>5, <2>6
<1>3. CASE ~(run.status # "cancelled" /\ CanTransition(run.stage, stage))
  <2>1. Go(a, Thrown(a, "permanent")) /\ UNCHANGED <<run, jobs, app, ledger, answers, versions>>
    BY <1>3 DEF rows
  <2>2. QED BY <1>1, <2>1, ThrownIsCalm
<1>4. QED BY <1>2, <1>3

\* The next instruction is one of its handler's or of its body's.
LEMMA NextInstruction ==
    ASSUME LegacyInv, NEW a \in Actors, exec[a].pc = "script",
           Head(exec[a].script)[1] \in {"move", "pause", "put", "app"}
    PROVE  LET x == Head(exec[a].script) IN
           /\ exec[a].giving => x \in {<<"put", "FAILED">>, <<"app", "FAILED">>}
           /\ ~exec[a].giving => Ending(exec[a]) /\ x \in After(Stage(exec[a]))
           /\ Stage(exec[a]) \in BodyStages \cup {"none"}
           /\ a \in Clients => Stage(exec[a]) = "none"
           /\ exec[a].script # <<>> /\ exec[a].script \notin Seq(Ends)
<1> DEFINE x == Head(exec[a].script)
<1>1. /\ exec[a] \in Activity /\ x \in Allowed(exec[a]) /\ exec[a].script # <<>> BY InScript
<1>2. x \notin Ends /\ x # <<"refund", "run">> BY DEF Ends
<1>3. exec[a].giving => x \in {<<"put", "FAILED">>, <<"app", "FAILED">>}
  BY <1>1, <1>2 DEF Allowed, Givings
<1>4. ~exec[a].giving => Ending(exec[a]) /\ x \in After(Stage(exec[a]))
  BY <1>1, <1>2 DEF Allowed, Ending
<1>5. a \in Clients => Stage(exec[a]) = "none" BY IdleClient
<1>6. exec[a].script \notin Seq(Ends) BY <1>1, <1>2, TailIsThere
<1>7. QED BY <1>1, <1>3, <1>4, <1>5, <1>6, AllowedIsInstructions

\* Of a run started at research.
LEMMA FirstTransitions ==
    ASSUME LegacyInv, FromResearch, NEW a \in Actors, exec[a].pc = "script",
           Head(exec[a].script)[1] \in {"move", "pause", "put"},
           CanTransition(run.stage, Head(exec[a].script)[2])
    PROVE  LET stage == Head(exec[a].script)[2] IN
           /\ stage \in FirstStages
           /\ stage = "HR_AUDIT_1_REVIEW" => answers[FirstAudit] = "done"
<1> DEFINE x == Head(exec[a].script)
           stage == Stage(exec[a])
<1>1. /\ exec[a].giving => x \in {<<"put", "FAILED">>, <<"app", "FAILED">>}
      /\ ~exec[a].giving => x \in After(stage)
      /\ stage \in BodyStages \cup {"none"}
      /\ a \in Clients => stage = "none"
      /\ exec[a].script # <<>> /\ exec[a].pc # "idle"
  BY NextInstruction
<1>2. a \in Procs => /\ stage \in FirstStages
                     /\ Goes(exec[a], answers[FirstAudit])
  BY <1>1, StagesOfLineage DEF FromResearch
<1>3. CASE exec[a].giving BY <1>1, <1>3 DEF FirstStages
<1>4. CASE ~exec[a].giving /\ stage = "HR_AUDIT_1_RUNNING"
  <2>1. x \in {"move", "app"} \X {"HR_AUDIT_1_REVIEW", "V1_GENERATING"}
    BY <1>1, <1>4, AuditTables DEF After, AuditStages, GeneratingStages
  <2>2. x = <<"move", "HR_AUDIT_1_REVIEW">> \/ x = <<"move", "V1_GENERATING">> BY <2>1
  <2>3. a \in Procs BY <1>1, <1>4 DEF Actors
  <2>4. Goes(exec[a], answers[FirstAudit]) BY <1>2, <2>3
  <2>5. CASE x = <<"move", "HR_AUDIT_1_REVIEW">>
    <3>1. answers[FirstAudit] = "done" BY <1>1, <2>4, <2>5, HeadIsThere DEF Goes
    <3>2. QED BY <2>5, <3>1 DEF FirstStages
  <2>6. CASE x = <<"move", "V1_GENERATING">>
    <3>1. answers[FirstAudit] = "mismatched" BY <1>1, <2>4, <2>6, HeadIsThere DEF Goes
    <3>2. run.stage = "V1_GENERATING" \/ run.stage = "HR_AUDIT_1_REVIEW"
      BY <2>6 DEF CanTransition, Transitions, Forward, Resumable, AuditStages
    <3>3. run.stage # "HR_AUDIT_1_REVIEW" BY <3>1 DEF FromResearch
    <3>4. run.stage # "V1_GENERATING" BY DEF FromResearch, Within, FirstStages, FrontStages
    <3>5. QED BY <3>2, <3>3, <3>4
  <2>7. QED BY <2>2, <2>5, <2>6
<1>5. CASE ~exec[a].giving /\ stage = "V0_GENERATING"
  <2>1. x \in ({"put", "app"} \X {"V0_READY", "HR_AUDIT_1_RUNNING"}) \cup {<<"next", "stage">>}
    BY <1>1, <1>5, Tables DEF After, GeneratingStages
  <2>2. QED BY <2>1 DEF FirstStages
<1>6. CASE ~exec[a].giving /\ stage \in {"RESEARCH_RUNNING", "EVIDENCE_MATCHING_RUNNING", "none"}
  <2>1. x \in {"move", "pause", "app"} \X (FrontStages \cup {"V0_GENERATING"})
    BY <1>1, <1>6 DEF After, AuditStages, GeneratingStages
  <2>2. QED BY <2>1 DEF FirstStages, FrontStages
<1>7. stage \in {"HR_AUDIT_1_RUNNING", "V0_GENERATING", "RESEARCH_RUNNING",
                 "EVIDENCE_MATCHING_RUNNING", "none"}
  <2>1. CASE a \in Clients BY <1>1, <2>1
  <2>2. CASE a \in Procs
    <3>1. stage \in FirstStages /\ (stage \in BodyStages \/ stage = "none") BY <1>1, <1>2, <2>2
    <3> HIDE DEF stage
    <3>2. QED BY <3>1 DEF FirstStages, FrontStages, BodyStages, GeneratingStages, AuditStages
  <2>3. QED BY <2>1, <2>2 DEF Actors
<1>8. QED BY <1>3, <1>4, <1>5, <1>6, <1>7

\* Of a run started at a version: only deliveries write, and what they write.
LEMMA LaterInstructions ==
    ASSUME LegacyInv, FromGeneration, NEW a \in Actors, exec[a].pc = "script",
           Head(exec[a].script)[1] \in {"move", "pause", "put", "app"}
    PROVE  LET x == Head(exec[a].script) IN
           /\ a \in Procs /\ x[2] \in LaterStages
           /\ exec[a].giving => x[1] # "move" /\ x[2] = "FAILED"
           /\ ~exec[a].giving =>
                 /\ Ending(exec[a])
                 /\ Stage(exec[a]) \in GeneratingStages \cup AuditStages \cup {"FINAL_QA_RUNNING"}
                 /\ Stage(exec[a]) \in AuditStages => x[1] # "put" /\ x[2] \notin QaSide
                 /\ Stage(exec[a]) = "FINAL_QA_RUNNING" =>
                       x[2] \in {"FINAL_READY", "FINAL_QA_FAILED", "V4_GENERATING"}
           /\ x[1] # "app" => x[1] = "put" \/ ~exec[a].giving
           /\ x[2] = "FINAL_READY" => Stage(exec[a]) = "FINAL_QA_RUNNING" /\ x[1] # "move"
           /\ Stage(exec[a]) = "FINAL_QA_RUNNING" => x[1] \in {"put", "app"} /\ x = <<x[1], x[2]>>
<1> DEFINE x == Head(exec[a].script)
           stage == Stage(exec[a])
<1>1. /\ exec[a].giving => x \in {<<"put", "FAILED">>, <<"app", "FAILED">>}
      /\ ~exec[a].giving => Ending(exec[a]) /\ x \in After(stage)
      /\ stage \in BodyStages \cup {"none"}
      /\ exec[a].script # <<>> /\ exec[a].script \notin Seq(Ends) /\ exec[a].pc # "idle"
  BY NextInstruction
<1>2. a \in Procs BY <1>1 DEF FromGeneration, Actors
<1>3. stage \in GeneratingStages \cup AuditStages \cup {"FINAL_QA_RUNNING"}
  <2>1. stage \in BodyStages /\ stage \notin {"RESEARCH_RUNNING", "EVIDENCE_MATCHING_RUNNING"}
    BY <1>1, <1>2, StagesOfLineage, DeliveryHasAJob
  <2> HIDE DEF stage
  <2>2. QED BY <2>1 DEF BodyStages
<1> HIDE DEF stage, x
<1>4. CASE exec[a].giving
  <2>1. x[2] = "FAILED" /\ x[1] \in {"put", "app"} /\ x = <<x[1], x[2]>> BY <1>1, <1>4
  <2>2. "FAILED" \in LaterStages BY StagesAreStages DEF LaterStages, FrontStages
  <2>3. QED BY <1>2, <1>4, <2>1, <2>2 DEF x, stage
<1>5. CASE ~exec[a].giving /\ stage \in GeneratingStages
  <2> DEFINE ready == ReadyOf[VersionOf[stage]]
             next == NextOf[VersionOf[stage]]
  <2>1. /\ ready \in ReadyStages \ {"FINAL_READY"}
        /\ next \in AuditStages \cup {"FINAL_QA_RUNNING"}
    BY <1>5, StagesOfTables
  <2>2. x \in ({"put", "app"} \X {ready, next}) \cup {<<"next", "stage">>} BY <1>1, <1>5 DEF After
  <2>3. x[1] # "next" BY DEF x
  <2> HIDE DEF ready, next
  <2>4. x[1] \in {"put", "app"} /\ x[2] \in {ready, next} BY <2>2, <2>3
  <2>5. /\ ready \in LaterStages /\ next \in LaterStages
        /\ ready # "FINAL_READY" /\ next # "FINAL_READY"
    BY <2>1, StagesAreStages DEF LaterStages, FrontStages, ReadyStages, AuditStages
  <2>6. stage \notin AuditStages /\ stage # "FINAL_QA_RUNNING"
    BY <1>5 DEF AuditStages, GeneratingStages
  <2>7. QED BY <1>1, <1>2, <1>5, <2>4, <2>5, <2>6 DEF x, stage
<1>6. CASE ~exec[a].giving /\ stage \in AuditStages
  <2> DEFINE review == ReviewOf[stage]
             producer == ProducerOf[stage]
  <2>1. /\ review \in ReviewStages \ {"RESEARCH_REVIEW_REQUIRED"}
        /\ producer \in GeneratingStages
    BY <1>6, AuditTables DEF AuditStages, GeneratingStages, ReviewStages
  <2>2. x \in {"move", "app"} \X {review, producer}
    BY <1>1, <1>6 DEF After, AuditStages, GeneratingStages
  <2> HIDE DEF review, producer
  <2>3. x[1] \in {"move", "app"} /\ x[2] \in {review, producer} BY <2>2
  <2>4. /\ review \in LaterStages /\ producer \in LaterStages
        /\ review \notin QaSide /\ producer \notin QaSide
    BY <2>1, StagesAreStages DEF LaterStages, FrontStages, ReviewStages, GeneratingStages, QaSide
  <2>5. stage \notin GeneratingStages /\ stage # "FINAL_QA_RUNNING" /\ "FINAL_READY" \in QaSide
    BY <1>6 DEF AuditStages, GeneratingStages, QaSide
  <2>6. QED BY <1>1, <1>2, <1>6, <2>3, <2>4, <2>5 DEF x, stage
<1>7. CASE ~exec[a].giving /\ stage = "FINAL_QA_RUNNING"
  <2>1. \/ x \in {"put", "app"} \X {"FINAL_READY", "FINAL_QA_FAILED", "V4_GENERATING"}
        \/ x = <<"render", "documents">>
    BY <1>1, <1>7 DEF After, AuditStages, GeneratingStages
  <2>6. x[1] # "render" BY DEF x
  <2>2. x[1] \in {"put", "app"} /\ x[2] \in {"FINAL_READY", "FINAL_QA_FAILED", "V4_GENERATING"}
        /\ x = <<x[1], x[2]>>
    BY <2>1, <2>6
  <2>3. {"FINAL_READY", "FINAL_QA_FAILED", "V4_GENERATING"} \subseteq LaterStages
    BY StagesAreStages DEF LaterStages, FrontStages
  <2>4. stage \notin AuditStages BY <1>7 DEF AuditStages
  <2>5. QED BY <1>1, <1>2, <1>7, <2>2, <2>3, <2>4 DEF x, stage
<1>8. QED BY <1>3, <1>4, <1>5, <1>6, <1>7

LEMMA WriteApplicationKeepsWhole ==
    ASSUME Whole, LegacyInv', NEW a \in Actors, WriteApplication(a) PROVE Whole'
<1> USE DEF WriteApplication, At
<1> DEFINE rec == [exec[a] EXCEPT !.script = Tail(@)]
<1>1. LegacyInv /\ exec[a].pc = "script" /\ exec[a] \in Activity BY WholeIs, InScript
<1>2. Go(a, rec) /\ SpeaksOn(rec, exec[a]) /\ rec.adds = exec[a].adds BY <1>1 DEF SpeaksOn, Activity
<1> HIDE DEF rec
<1>3. FromGeneration => app' \in LaterStages BY <1>1, LaterInstructions
<1>4. QED BY <1>1, <1>2, <1>3, SpeakingKeepsWhole DEF rows

\* What Final QA's part asks of a transition of a run that was started at a version.
LEMMA LaterTransitionsKeepQa ==
    ASSUME LegacyInv, QaInv, FromGeneration, NEW p \in Procs, exec[p].pc = "script",
           Head(exec[p].script)[1] \in {"move", "pause", "put"},
           NEW rec, Go(p, rec), SpeaksOn(rec, exec[p]),
           run'.stage = Head(exec[p].script)[2],
           run'.payload.repair <=>
             IF Head(exec[p].script)[1] = "put" THEN exec[p].copy.repair ELSE run.payload.repair,
           UNCHANGED <<ledger, answers, versions>>
    PROVE  QaInv'
<1> DEFINE x == Head(exec[p].script)
<1>1. /\ exec[p].giving => x[1] = "put" /\ x[2] = "FAILED"
      /\ ~exec[p].giving =>
            /\ Ending(exec[p])
            /\ Stage(exec[p]) \in GeneratingStages \cup AuditStages \cup {"FINAL_QA_RUNNING"}
            /\ Stage(exec[p]) \in AuditStages => x[1] # "put" /\ x[2] \notin QaSide
            /\ Stage(exec[p]) = "FINAL_QA_RUNNING" =>
                  /\ x[2] \in {"FINAL_READY", "FINAL_QA_FAILED", "V4_GENERATING"}
                  /\ x = <<"put", x[2]>>
      /\ x[2] = "FINAL_READY" => x = <<"put", "FINAL_READY">>
      /\ exec[p].script # <<>> /\ p \in Actors
  BY ProcsAreNoClients, LaterInstructions, InScript
<1>2. /\ \A y : LacksFrom(exec[p].script, y) => LacksFrom(rec.script, y)
      /\ Remakes(exec[p]) => Remakes(rec)
      /\ Rejudges(exec[p]) => Rejudges(rec)
      /\ ~Judging(rec) /\ rec.op # Repair /\ (\A n : rec.op # QaOf(n))
      /\ rec.copy = exec[p].copy
  BY <1>1, SpeakingOnIs DEF SpeaksOn
<1>3. run'.payload.repair \/ rec.copy.repair \/ rec.op = Repair => Announced BY <1>2 DEF Announced
<1>4. LacksFrom(exec[p].script, <<"put", "FINAL_READY">>) \/ Cleared(answers, ledger, Newest)
  BY DEF QaInv, ReadyIsCleared, Cleared
<1>5. Repairing => run'.payload.repair /\ run'.stage \notin QaSide /\ Remakes(rec)
  <2> SUFFICES ASSUME Repairing
               PROVE  run'.payload.repair /\ run'.stage \notin QaSide /\ Remakes(rec)
    OBVIOUS
  <2>1. Remakes(exec[p]) /\ run.payload.repair BY DEF Repairing
  <2>2. CASE exec[p].giving
    <3>1. run'.payload.repair /\ run'.stage = "FAILED" BY <1>1, <2>1, <2>2 DEF Remakes
    <3>2. QED BY <1>2, <2>1, <3>1 DEF QaSide
  <2>3. CASE ~exec[p].giving
    <3>1. Stage(exec[p]) \in AuditStages BY <1>1, <2>1, <2>3 DEF Remakes
    <3>2. QED BY <1>1, <1>2, <2>1, <2>3, <3>1
  <2>4. QED BY <2>2, <2>3
<1>6. NotRepaired => run'.payload.repair /\ run'.stage \in QaSide \cup {"FAILED"} /\ Rejudges(rec)
  <2> SUFFICES ASSUME NotRepaired
               PROVE  run'.payload.repair /\ run'.stage \in QaSide \cup {"FAILED"} /\ Rejudges(rec)
    OBVIOUS
  <2>1. Rejudges(exec[p]) /\ run.payload.repair BY DEF NotRepaired
  <2>2. exec[p].copy.repair BY <1>1, <2>1 DEF Rejudges
  <2>3. CASE exec[p].giving BY <1>1, <1>2, <2>1, <2>2, <2>3
  <2>4. CASE ~exec[p].giving
    <3>1. Stage(exec[p]) = "FINAL_QA_RUNNING" /\ LacksFrom(exec[p].script, <<"put", "V4_GENERATING">>)
      BY <1>1, <2>1, <2>4 DEF Rejudges
    <3>2. x # <<"put", "V4_GENERATING">> BY <1>1, <3>1, HeadIsThere
    <3>3. run'.stage \in {"FINAL_READY", "FINAL_QA_FAILED"} BY <1>1, <2>4, <3>1, <3>2
    <3>4. QED BY <1>2, <2>1, <2>2, <3>3 DEF QaSide
  <2>5. QED BY <2>3, <2>4
<1>7. run'.stage = "FINAL_READY" => Cleared(answers, ledger, Newest) BY <1>1, <1>4, HeadIsThere
<1>8. QED BY <1>1, <1>2, <1>3, <1>4, <1>5, <1>6, <1>7, QaMoves

LEMMA TransitionKeepsWhole == ASSUME Whole, LegacyInv', NEW a \in Actors, Transition(a) PROVE Whole'
<1> DEFINE kind == Head(exec[a].script)[1]
           stage == Head(exec[a].script)[2]
<1>1. /\ LegacyInv /\ AnswersFit /\ Lineage /\ QaInv /\ exec[a].pc = "script" /\ exec[a].pc # "idle"
      /\ kind \in {"move", "pause", "put"} /\ (a \in Procs => a \notin Clients)
  BY WholeIs, TransitionIs
<1>2. CASE ~Calm
  <2>1. PICK rec : Moves(a, rec, stage) BY <1>1, <1>2, TransitionIs
  <2>2. /\ Go(a, rec) /\ SpeaksOn(rec, exec[a]) /\ rec.job = exec[a].job
        /\ rec.adds[1] \in {stage, "none"} /\ run'.stage = stage
        /\ UNCHANGED <<jobs, app, ledger, answers, versions>> /\ CanTransition(run.stage, stage)
        /\ run'.payload = IF kind = "put" THEN exec[a].copy ELSE run.payload
    BY <1>1, <1>2, <2>1, TransitionIs DEF Moves, SpeaksOn
  <2>3. /\ \A reviewed : Goes(exec[a], reviewed) => Goes(rec, reviewed)
        /\ \A kept, paid, there : AnswerFits(rec, kept, paid, there)
        /\ ~Auditing(rec)
    BY <1>1, <2>2, SpeakingOnIs
  <2>4. AnswersFit' BY <1>1, <2>2, <2>3, AnswersStay
  <2>5. CASE FromResearch
    <3>1. stage \in FirstStages /\ (stage = "HR_AUDIT_1_REVIEW" => answers[FirstAudit] = "done")
      BY <1>1, <2>2, <2>5, FirstTransitions
    <3>2. Inside(rec, FirstStages) /\ run'.stage \in FirstStages /\ 4 \notin versions'
      BY <2>2, <2>5, <3>1 DEF FromResearch, Within, Inside
    <3>3. a \in Procs => Goes(rec, answers'[FirstAudit]) BY <2>2, <2>3, <2>5 DEF FromResearch
    <3> HIDE DEF stage, kind
    <3>4. FromResearch' BY <1>1, <2>2, <2>3, <2>5, <3>1, <3>2, <3>3, ResearchMoves
    <3>5. QED BY <2>4, <3>4, ResearchHasNoQaNext DEF Whole, Lineage
  <2>6. CASE FromGeneration
    <3>1. a \in Procs /\ stage \in LaterStages BY <1>1, <2>6, LaterInstructions
    <3>2. Inside(rec, LaterStages) /\ run'.stage \in LaterStages /\ app' \in LaterStages
      BY <2>2, <2>6, <3>1 DEF FromGeneration, Within, Inside
    <3>3. run'.payload.repair <=> IF kind = "put" THEN exec[a].copy.repair ELSE run.payload.repair
      BY <2>2
    <3>4. QaInv' BY <1>1, <2>2, <2>6, <3>1, <3>3, LaterTransitionsKeepQa
    <3> HIDE DEF stage, kind
    <3>5. FromGeneration' BY <1>1, <2>2, <2>6, <3>1, <3>2, GenerationMoves
    <3>6. QED BY <2>4, <3>4, <3>5 DEF Whole, Lineage
  <2>7. QED BY <1>1, <2>5, <2>6 DEF Lineage
<1>3. QED BY <1>2, CalmKeepsWhole

-----------------------------------------------------------------------------
(* The calls of the API, and the answers that run out.                      *)

LEMMA ClientsKeepWhole ==
    ASSUME Whole, LegacyInv', NEW c \in Clients, NEW rec, Go(c, rec), rec.job = NoJob,
           rec.adds[1] \in {run.stage, "none"}, FromGeneration => rec.script \in Seq(Ends),
           run'.stage = run.stage, run'.payload.repair <=> run.payload.repair,
           UNCHANGED <<jobs, app, ledger, answers, versions>>
    PROVE  Whole'
<1>1. /\ c \in Actors /\ c \notin Procs /\ LegacyInv /\ AnswersFit /\ Lineage /\ QaInv
      /\ NoJob[1] = "none"
  BY WholeIs, ProcsAreNoClients DEF NoJob
<1>2. AnswersFit' BY <1>1, AnswersStay
<1>3. CASE FromResearch
  <2>1. Inside(rec, FirstStages) /\ run'.stage \in FirstStages /\ 4 \notin versions'
    BY <1>1, <1>3 DEF FromResearch, Within, Inside
  <2>2. FromResearch' BY <1>1, <1>3, <2>1, ResearchMoves
  <2>3. QED BY <1>2, <2>2, ResearchHasNoQaNext DEF Whole, Lineage
<1>4. CASE FromGeneration
  <2>1. Inside(rec, LaterStages) /\ run'.stage \in LaterStages /\ app' \in LaterStages
    BY <1>1, <1>4 DEF FromGeneration, Within, Inside
  <2>2. FromGeneration' BY <1>1, <1>4, <2>1, GenerationMoves
  <2>3. /\ run'.payload.repair => Announced
        /\ Repairing => run'.payload.repair /\ run'.stage \notin QaSide
        /\ NotRepaired => run'.payload.repair /\ run'.stage \in QaSide \cup {"FAILED"}
    BY DEF Announced, Repairing, NotRepaired
  <2>4. QaInv' BY <1>1, <2>3, QaMoves
  <2>5. QED BY <1>2, <2>2, <2>4 DEF Whole, Lineage
<1>5. QED BY <1>1, <1>3, <1>4 DEF Lineage

LEMMA ResumePausedKeepsWhole ==
    ASSUME Whole, LegacyInv', NEW c \in Clients, ResumePaused(c) PROVE Whole'
<1> USE DEF ResumePaused
<1>1. LegacyInv /\ exec[c].job = NoJob BY WholeIs, IdleClient
<1>2. PICK script : Go(c, Then(c, script, NoPayload)) OBVIOUS
<1> DEFINE rec == Then(c, script, NoPayload)
<1>3. Go(c, rec) /\ rec.job = NoJob /\ rec.adds[1] = "none" BY <1>1, <1>2, ThenIs DEF NoJob
<1> HIDE DEF rec
<1>4. ~FromGeneration BY DEF FromGeneration, LaterStages, FrontStages
<1>5. QED BY <1>3, <1>4, ClientsKeepWhole DEF rows

LEMMA RetryIs ==
    ASSUME NEW c \in Clients, Retry(c)
    PROVE  \E rec : /\ Go(c, rec) /\ rec.job = NoJob /\ ~rec.giving
                    /\ rec.adds[1] \in {run.stage, "none"} /\ rec.script \in Seq(Ends)
<1> DEFINE adding == [Idle EXCEPT !.pc = "enqueue",
                                  !.adds = <<run.stage, run.attempt + 1, "retry">>,
                                  !.script = << <<"end", "resolved">> >>]
           done == [Idle EXCEPT !.pc = "done"]
<1>1. adding.job = NoJob /\ ~adding.giving /\ adding.adds[1] = run.stage /\ adding.script \in Seq(Ends)
  BY DEF Idle, Ends
<1>2. done.job = NoJob /\ ~done.giving /\ done.adds[1] = "none" /\ done.script \in Seq(Ends)
  BY DEF Idle, NoJob
<1>3. Go(c, adding) \/ Go(c, done) BY DEF Retry
<1> HIDE DEF adding, done
<1>4. QED BY <1>1, <1>2, <1>3

LEMMA RetryKeepsWhole == ASSUME Whole, LegacyInv', NEW c \in Clients, Retry(c) PROVE Whole'
<1> USE DEF Retry
<1>1. run \in Run BY WholeIs, TypesOfLegacyInv
<1>2. run'.stage = run.stage /\ (run'.payload.repair <=> run.payload.repair) BY <1>1 DEF Run
<1>3. PICK rec : /\ Go(c, rec) /\ rec.job = NoJob /\ rec.adds[1] \in {run.stage, "none"}
                 /\ rec.script \in Seq(Ends)
  BY RetryIs
<1>4. QED BY <1>2, <1>3, ClientsKeepWhole DEF rows

LEMMA AnswerExpiresKeepsWhole ==
    ASSUME Whole, LegacyInv', NEW op \in Operations, AnswerExpires(op) PROVE Whole'
<1> USE DEF AnswerExpires, At
<1>1. /\ LegacyInv /\ AnswersFit /\ Lineage /\ QaInv
      /\ answers \in [Operations -> AllAnswers]
  BY WholeIs, TypesOfLegacyInv DEF RowsTypeOK
<1>2. \A p \in Procs : Resting(exec[p])
  BY <1>1, ActorIsTyped, ProcsAreNoClients DEF Shape, Resting, BodyPcs
<1>3. /\ \A o \in Operations : answers'[o] = answers[o] \/ answers'[o] = "none"
      /\ UNCHANGED <<run, jobs, exec, app, ledger, versions>>
  BY <1>1
<1>4. \A p \in Procs :
         /\ \A kept, paid, there : AnswerFits(exec[p], kept, paid, there)
         /\ \A reviewed : Goes(exec[p], reviewed)
         /\ Remakes(exec[p]) /\ Rejudges(exec[p])
         /\ exec[p].op # Repair /\ exec[p].op # QaOf(4) /\ ~exec[p].copy.repair
         /\ ~Judging(exec[p]) /\ ~Auditing(exec[p])
         /\ LacksFrom(exec[p].script, <<"put", "FINAL_READY">>)
  BY <1>2, RestingIs, RestingKeepsAll
<1>5. FirstAudit \in Operations /\ QaOf(4) \in Operations /\ QaOf(Newest) \in Operations
  BY DEF FirstAudit, QaOf, Newest, Operations
<1>6. AnswersFit' BY <1>1, <1>3, <1>4 DEF AnswersFit
<1> HIDE DEF AnswerExpires
<1>7. Within(FirstStages)' = Within(FirstStages) /\ Within(LaterStages)' = Within(LaterStages)
  BY <1>3 DEF Within
<1>8. FromResearch => FromResearch' BY <1>3, <1>4, <1>5, <1>7 DEF FromResearch
<1>9. FromGeneration => FromGeneration' BY <1>3, <1>7 DEF FromGeneration
<1>10. RepairIsJustified'
  <2> SUFFICES ASSUME Announced
               PROVE  /\ ledger[QaOf(4)] = "committed"
                      /\ answers'[QaOf(4)] = "repairable" \/ Forgotten' \/ Repairing' \/ NotRepaired'
    BY <1>3 DEF RepairIsJustified, Announced
  <2>1. ledger[QaOf(4)] = "committed" BY <1>1 DEF QaInv, RepairIsJustified
  <2>2. CASE RepairVersion \in versions
    <3>1. ~Repairing /\ ~NotRepaired BY <2>2 DEF Repairing, NotRepaired
    <3>2. answers[QaOf(4)] = "repairable" \/ answers[QaOf(4)] = "none"
      BY <1>1, <3>1 DEF QaInv, RepairIsJustified, Forgotten
    <3>3. QED BY <1>3, <1>4, <1>5, <2>1, <2>2, <3>2 DEF Forgotten
  <2>3. CASE RepairVersion \notin versions
    <3>1. run.payload.repair BY <1>4, <2>3 DEF Announced
    <3>2. ASSUME answers'[QaOf(4)] # "repairable" PROVE Repairing' \/ NotRepaired'
      <4>1. CASE run.stage \in QaSide \cup {"FAILED"}
        BY <1>3, <1>4, <2>3, <3>1, <4>1 DEF NotRepaired
      <4>2. CASE run.stage \notin QaSide \cup {"FAILED"}
        <5>1. ~NotRepaired /\ ~Forgotten BY <2>3, <4>2 DEF NotRepaired, Forgotten
        <5>2. answers[QaOf(4)] = "repairable" \/ answers[QaOf(4)] = "none"
          BY <1>1, <5>1 DEF QaInv, RepairIsJustified, Repairing
        <5>3. answers'[QaOf(4)] = "none" BY <1>3, <1>5, <3>2, <5>2
        <5>4. QED BY <1>3, <1>4, <2>3, <3>1, <4>2, <5>3 DEF Repairing
      <4>3. QED BY <4>1, <4>2
    <3>3. QED BY <2>1, <3>2
  <2>4. QED BY <2>2, <2>3
<1>11. ReadyIsCleared'
  <2>1. Newest' = Newest BY <1>3 DEF Newest
  <2>2. run.stage = "FINAL_READY" =>
          /\ ledger[QaOf(Newest)] = "committed"
          /\ answers'[QaOf(Newest)] = "passed" \/ answers'[QaOf(Newest)] = "none"
    BY <1>1, <1>3, <1>5 DEF QaInv, ReadyIsCleared
  <2>3. run.stage = "FINAL_READY" =>
          \/ answers'[QaOf(Newest)] = "passed"
          \/ answers'[QaOf(Newest)] = "none" /\ \A p \in Procs : ~Judging(exec[p])
    BY <1>4, <2>2
  <2>4. QED BY <1>3, <1>4, <2>1, <2>2, <2>3 DEF ReadyIsCleared
<1>12. QED BY <1>1, <1>6, <1>8, <1>9, <1>10, <1>11 DEF Whole, Lineage, QaInv

-----------------------------------------------------------------------------
(* Every step keeps the whole invariant; what it says of the run.           *)

LEMMA NextKeepsWhole == Whole /\ [Next]_vars => Whole'
<1> SUFFICES ASSUME Whole, [Next]_vars PROVE Whole'
  OBVIOUS
<1>0. LegacyInv /\ LegacyInv' BY WholeIs, NextKeepsInv
<1>1. ASSUME NEW a \in Actors, Speaks(a) PROVE Whole'
  BY <1>0, <1>1, TransitionKeepsWhole, EnqueueKeepsWhole, WriteApplicationKeepsWhole,
     RefundKeepsWhole DEF Speaks
<1>2. ASSUME NEW p \in Procs, Works(p) PROVE Whole'
  BY <1>0, <1>2, ClaimStageKeepsWhole, GiveUpKeepsWhole, ExtractKeepsWhole, ReserveKeepsWhole,
     PersistBackendKeepsWhole, CallsKeepsWhole, CommitKeepsWhole, JudgeKeepsWhole,
     CheckLocallyKeepsWhole DEF Works
<1>3. ASSUME NEW p \in Procs, Finishes(p) PROVE Whole'
  BY <1>0, <1>3, LookUpVersionKeepsWhole, ParkKeepsWhole, AppendVersionKeepsWhole,
     RereadRunKeepsWhole, NoteVersionKeepsWhole, SetCurrentKeepsWhole, BecomesReadyKeepsWhole, ResumesKeepsWhole, StartNextKeepsWhole,
     RecordsKeepWhole DEF Finishes
<1>4. QED
  BY <1>0, <1>1, <1>2, <1>3, StepsAre, CalmKeepsWhole, ResumePausedKeepsWhole, RetryKeepsWhole,
     AnswerExpiresKeepsWhole

LEMMA ReadyIsJudged == Whole => ReadyPassedQa
<1> SUFFICES ASSUME Whole, run.stage = "FINAL_READY" PROVE ReadyPassedQa
  BY DEF ReadyPassedQa
<1>1. 4 \in versions /\ versions \subseteq 0..RepairVersion
  BY WholeIs, TypesOfLegacyInv DEF RunFollowsV4, QaSide, RowsTypeOK
<1>2. Latest = Newest BY <1>1, LatestIsOfQa DEF Newest
<1>3. Newest >= 4 BY DEF Newest, RepairVersion
<1>4. answers[QaOf(Newest)] \in {"passed", "none"} /\ ledger[QaOf(Newest)] = "committed"
  BY WholeIs DEF QaInv, ReadyIsCleared
<1>5. QED BY <1>2, <1>3, <1>4 DEF ReadyPassedQa, QaOf

LEMMA RepairIsAskedFor == Whole => RepairFollowsFailure
<1> SUFFICES ASSUME Whole, RepairVersion \in versions PROVE RepairFollowsFailure
  BY DEF RepairFollowsFailure
<1>1. /\ ledger[QaOf(4)] = "committed"
      /\ answers[QaOf(4)] = "repairable" \/ Forgotten \/ Repairing \/ NotRepaired
  BY WholeIs DEF QaInv, RepairIsJustified, Announced
<1>2. answers[QaOf(4)] \in {"repairable", "none"} BY <1>1 DEF Forgotten, Repairing, NotRepaired
<1>3. QED BY <1>1, <1>2 DEF RepairFollowsFailure, QaOf

\* A finished run's last version is V4 or its repair, its Final QA is paid for, and Python judged it
\* passed, whatever runs twice, crashes or comes late (unless the answer's key has run out since).
THEOREM ReadyHasPassedQa == LPSpec => []ReadyPassedQa
<1>1. LPSpec => []Whole BY WholeHoldsInitially, NextKeepsWhole, PTL DEF LPSpec
<1>2. QED BY <1>1, ReadyIsJudged, PTL

\* There is a repaired version only where the paid judgement of V4 was a repairable failure: no
\* second repair, no repair of a version that passed or that cannot be repaired.
THEOREM RepairsFollowFailures == LPSpec => []RepairFollowsFailure
<1>1. LPSpec => []Whole BY WholeHoldsInitially, NextKeepsWhole, PTL DEF LPSpec
<1>2. QED BY <1>1, RepairIsAskedFor, PTL

-----------------------------------------------------------------------------
(* What is paid for stays paid for.                                         *)

LEMMA Pasts ==
    /\ PastOf(0) = {"V0_READY", "HR_AUDIT_1_RUNNING", "HR_AUDIT_1_REVIEW"}
    /\ PastOf(1) = {"V1_READY", "EM_AUDIT_1_RUNNING", "EM_AUDIT_1_REVIEW"}
    /\ PastOf(2) = {"V2_READY", "HR_AUDIT_2_RUNNING", "HR_AUDIT_2_REVIEW"}
    /\ PastOf(3) = {"V3_READY", "EM_AUDIT_2_RUNNING", "EM_AUDIT_2_REVIEW"}
    /\ PastOf(4) = {"V4_READY", "FINAL_QA_RUNNING", "FINAL_QA_FAILED", "FINAL_READY"}
BY Tables, AuditTables DEF PastOf

LEMMA GenerationsAreOperations ==
    /\ \A n \in Numbers : Generate(n) \in Operations /\ Generate(n) # NoOperation
                          /\ Generate(n)[1] = "generate" /\ Generate(n)[2] = n
    /\ \A n \in 0..4 : n \in Numbers
    /\ \A m, n : Generate(m) = Generate(n) => m = n
    /\ Repair = Generate(RepairVersion) /\ RepairVersion \in Numbers
BY DEF Generate, Numbers, Operations, NoOperation, RepairVersion, Repair

LEMMA PaidMoves ==
    ASSUME LegacyInv, PaidInv, NEW a \in Actors, NEW rec, Go(a, rec),
           versions \subseteq versions',
           \A op \in Operations : ledger[op] = "committed" => ledger'[op] = "committed",
           \A n \in 0..4 : RunFollows(n)' => RunFollows(n) \/ (a \in Procs /\ Follows(n, exec[a])),
           a \in Procs =>
              /\ \A n \in 0..4 : Follows(n, rec) => RunFollows(n) \/ Follows(n, exec[a]) \/ Paid(n)'
              /\ HasVersion(rec, versions') /\ RepairsV4(rec)
    PROVE  PaidInv'
<1>1. exec \in [Actors -> Activity] BY TypesOfLegacyInv
<1>2. \A p \in Procs : exec'[p] = IF p = a THEN rec ELSE exec[p] BY <1>1, ProcsAreNoClients DEF Go
<1>3. \A n \in 0..4 : Paid(n) => Paid(n)' BY GenerationsAreOperations DEF Paid
<1>4. /\ \A n \in 0..4 : RunFollows(n) => Paid(n)
      /\ \A p \in Procs : \A n \in 0..4 : Follows(n, exec[p]) => Paid(n)
      /\ \A p \in Procs : HasVersion(exec[p], versions) /\ RepairsV4(exec[p])
  BY DEF PaidInv
<1>5. \A n \in 0..4 : RunFollows(n)' => Paid(n)' BY <1>3, <1>4
<1>6. \A p \in Procs : \A n \in 0..4 : Follows(n, exec'[p]) => Paid(n)' BY <1>2, <1>3, <1>4
<1>7. \A p \in Procs : HasVersion(exec[p], versions') BY <1>4 DEF HasVersion
<1>8. \A p \in Procs : HasVersion(exec'[p], versions') /\ RepairsV4(exec'[p]) BY <1>2, <1>4, <1>7
<1>9. QED BY <1>5, <1>6, <1>8 DEF PaidInv

LEMMA RestingPaysNothing ==
    ASSUME NEW rec, Resting(rec)
    PROVE  /\ \A n \in 0..4 : ~Follows(n, rec)
           /\ \A there : HasVersion(rec, there)
           /\ RepairsV4(rec)
<1>1. /\ rec.pc \notin BodyPcs /\ ~Ending(rec) /\ rec.op # Repair /\ ~rec.copy.repair BY RestingIs
<1>2. rec.pc \notin Finalizing BY <1>1 DEF BodyPcs
<1>3. QED BY <1>1, <1>2 DEF Follows, HasVersion, RepairsV4

LEMMA CalmKeepsPaid == ASSUME PaidInv, Calm PROVE PaidInv'
<1>1. /\ ledger' = ledger /\ versions' = versions /\ run'.stage = run.stage
      /\ run'.payload.repair <=> run.payload.repair
  BY DEF Calm
<1>2. \A p \in Procs : Alike(exec'[p], exec[p]) \/ Resting(exec'[p])
  BY DEF Calm, ComesToRest, Actors
<1>3. ASSUME NEW p \in Procs, Alike(exec'[p], exec[p])
      PROVE  /\ \A n \in 0..4 : Follows(n, exec'[p]) => Follows(n, exec[p])
             /\ HasVersion(exec[p], versions) => HasVersion(exec'[p], versions)
             /\ RepairsV4(exec[p]) => RepairsV4(exec'[p])
  <2>1. Stage(exec'[p]) = Stage(exec[p]) /\ Ending(exec'[p]) = Ending(exec[p]) BY <1>3, AlikeIs
  <2>2. /\ exec'[p].pc = exec[p].pc /\ exec'[p].op = exec[p].op
        /\ exec'[p].copy.repair <=> exec[p].copy.repair
    BY <1>3 DEF Alike
  <2>3. QED BY <2>1, <2>2 DEF Follows, Generating, HasVersion, RepairsV4
<1>4. \A n \in 0..4 : RunFollows(n)' => RunFollows(n) BY <1>1 DEF RunFollows
<1>5. \A n \in 0..4 : Paid(n)' = Paid(n) BY <1>1 DEF Paid
<1>6. /\ \A n \in 0..4 : RunFollows(n) => Paid(n)
      /\ \A p \in Procs : \A n \in 0..4 : Follows(n, exec[p]) => Paid(n)
      /\ \A p \in Procs : HasVersion(exec[p], versions) /\ RepairsV4(exec[p])
  BY DEF PaidInv
<1>7. \A n \in 0..4 : RunFollows(n)' => Paid(n)' BY <1>4, <1>5, <1>6
<1>8. \A p \in Procs : \A n \in 0..4 : Follows(n, exec'[p]) => Paid(n)'
  BY <1>2, <1>3, <1>5, <1>6, RestingPaysNothing
<1>9. \A p \in Procs : HasVersion(exec'[p], versions') /\ RepairsV4(exec'[p])
  BY <1>1, <1>2, <1>3, <1>6, RestingPaysNothing
<1>10. QED BY <1>7, <1>8, <1>9 DEF PaidInv

\* A body takes its next step, with its operation and its copy.
LEMMA BodyKeepsPaid ==
    ASSUME LegacyInv, PaidInv, NEW p \in Procs, exec[p].pc \in BodyPcs, NEW rec, Go(p, rec),
           rec.job = exec[p].job, rec.op = exec[p].op, rec.copy = exec[p].copy, rec.script = <<>>,
           rec.pc \in BodyPcs, run'.stage = run.stage,
           \/ run'.payload.repair <=> run.payload.repair
           \/ run'.payload.repair <=> exec[p].copy.repair,
           versions \subseteq versions',
           RepairVersion \in versions' => RepairVersion \in versions \/ exec[p].op = Repair,
           \A op \in Operations : ledger[op] = "committed" => ledger'[op] = "committed",
           Generating(rec) /\ rec.pc \in {"reread", "note", "point", "commit"} => rec.op[2] \in versions',
           Generating(rec) /\ rec.pc \in {"ready", "next"} => Paid(VersionOf[Stage(rec)])'
    PROVE  PaidInv'
<1>1. p \in Actors /\ Stage(rec) = Stage(exec[p]) /\ ~Ending(rec)
  BY ProcsAreNoClients DEF Stage, Ending
<1>2. RepairsV4(exec[p]) BY DEF PaidInv
<1>3. \A n \in 0..4 : RunFollows(n)' => RunFollows(n) \/ Follows(n, exec[p])
  BY DEF RunFollows, Follows
<1>4. \A n \in 0..4 : Follows(n, rec) => Follows(n, exec[p]) \/ Paid(n)'
  BY <1>1 DEF Follows, Generating
<1>5. HasVersion(rec, versions') /\ RepairsV4(rec) BY <1>1, <1>2 DEF HasVersion, RepairsV4
<1>6. QED BY <1>1, <1>3, <1>4, <1>5, PaidMoves

\* A body comes to its end, or to the last part of its finalization.
LEMMA EndKeepsPaid ==
    ASSUME LegacyInv, PaidInv, NEW p \in Procs, exec[p].pc \in BodyPcs, NEW rec, Go(p, rec),
           rec.job = exec[p].job, rec.op \in {NoOperation, exec[p].op}, rec.pc \in {"script", "next"},
           Generating(exec[p]) => exec[p].pc \in {"ready", "next"},
           run'.stage = run.stage,
           run'.payload.repair \/ rec.copy.repair => RunFollows(4) \/ Follows(4, exec[p]),
           UNCHANGED <<ledger, versions>>
    PROVE  PaidInv'
<1>1. p \in Actors /\ Stage(rec) = Stage(exec[p]) /\ NoOperation # Repair
      /\ rec.pc \notin {"reread", "note", "point", "commit"}
  BY ProcsAreNoClients DEF Stage, NoOperation, Repair
<1>2. RepairsV4(exec[p]) BY DEF PaidInv
<1>3. \A n \in 0..4 : RunFollows(n)' => RunFollows(n) \/ Follows(n, exec[p]) BY DEF RunFollows
<1>4. \A n \in 0..4 : Follows(n, rec) => RunFollows(n) \/ Follows(n, exec[p])
  BY <1>1 DEF Follows, Generating
<1>5. HasVersion(rec, versions') /\ RepairsV4(rec) BY <1>1, <1>2 DEF HasVersion, RepairsV4
<1>6. QED BY <1>1, <1>3, <1>4, <1>5, PaidMoves

LEMMA SpeakingPays ==
    ASSUME LegacyInv, NEW a \in Actors, exec[a].pc \in {"script", "enqueue"},
           NEW rec, SpeaksOn(rec, exec[a])
    PROVE  /\ \A n \in 0..4 : Follows(n, rec) => Follows(n, exec[a])
           /\ \A there : HasVersion(rec, there)
           /\ RepairsV4(rec)
<1>1. /\ exec[a].script # <<>> /\ exec[a].op = NoOperation /\ NoOperation # Repair
      /\ rec.pc \notin BodyPcs /\ rec.pc \notin Finalizing
      /\ Stage(rec) = Stage(exec[a]) /\ rec.op = NoOperation /\ rec.copy = exec[a].copy
      /\ Ending(rec) => Ending(exec[a])
  BY InScript DEF SpeaksOn, BodyPcs, Stage, NoOperation, Repair, Ending
<1>2. QED BY <1>1 DEF Follows, Generating, HasVersion, RepairsV4

LEMMA SpeakingKeepsPaid ==
    ASSUME LegacyInv, PaidInv, NEW a \in Actors, exec[a].pc \in {"script", "enqueue"},
           NEW rec, Go(a, rec), SpeaksOn(rec, exec[a]),
           \A op \in Operations : ledger[op] = "committed" => ledger'[op] = "committed",
           UNCHANGED versions,
           \A n \in 0..4 : RunFollows(n)' => RunFollows(n) \/ (a \in Procs /\ Follows(n, exec[a]))
    PROVE  PaidInv'
BY SpeakingPays, PaidMoves

-----------------------------------------------------------------------------
(* Each step keeps the paid versions paid.                                  *)

LEMMA PaidHoldsInitially == Init => PaidInv
<1> SUFFICES ASSUME Init PROVE PaidInv
  OBVIOUS
<1>1. PICK stage \in Starts :
         /\ run.stage = stage /\ run.payload = NoPayload
         /\ versions = IF stage = "RESEARCH_QUEUED" THEN {} ELSE {n \in 0..4 : n < VersionOf[stage]}
  BY StartsAt
<1>2. run.stage \in {"RESEARCH_QUEUED"} \cup GeneratingStages BY <1>1, LegacyAssumption
<1>3. ~run.payload.repair /\ RepairVersion \notin versions
  BY <1>1, NoPayloadIsAPayload DEF RepairVersion
<1>4. \A n \in 0..4 : run.stage \notin PastOf(n)
  <2>1. \A n \in 0..4 : n \in {0, 1, 2, 3, 4} OBVIOUS
  <2>2. QED BY <1>2, <2>1, Pasts DEF GeneratingStages
<1>5. \A n \in 0..4 : ~RunFollows(n) BY <1>3, <1>4 DEF RunFollows
<1>6. \A p \in Procs : Resting(exec[p]) BY IdleRests DEF Init, Actors
<1>7. QED BY <1>5, <1>6, RestingPaysNothing DEF PaidInv

\* A body takes its next step with the same operation and the same copy.
LEMMA BodyPays ==
    ASSUME LegacyInv, PaidInv, NEW p \in Procs, exec[p].pc \in BodyPcs, NEW pc \in BodyPcs,
           Go(p, [exec[p] EXCEPT !.pc = pc]), BodyLeaves(p),
           Generating(exec[p]) /\ pc \in {"reread", "note", "point", "commit"} => exec[p].op[2] \in versions,
           Generating(exec[p]) /\ pc \in {"ready", "next"}
             => \A n : n = VersionOf[Stage(exec[p])] => Paid(n)'
    PROVE  PaidInv'
<1> DEFINE rec == [exec[p] EXCEPT !.pc = pc]
<1>1. exec[p] \in Activity /\ exec[p].script = <<>> BY InBody
<1>2. /\ rec.pc = pc /\ rec.job = exec[p].job /\ rec.op = exec[p].op /\ rec.copy = exec[p].copy
      /\ rec.script = <<>>
  BY <1>1 DEF Activity
<1>3. Go(p, rec) OBVIOUS
<1> HIDE DEF rec
<1>4. Stage(rec) = Stage(exec[p]) /\ Generating(rec) = Generating(exec[p])
  BY <1>2 DEF Stage, Generating
<1>5. QED BY <1>2, <1>3, <1>4, BodyKeepsPaid DEF BodyLeaves

LEMMA ReserveKeepsPaid == ASSUME LegacyInv, PaidInv, NEW p \in Procs, Reserve(p) PROVE PaidInv'
<1> USE DEF Reserve, At
<1>1. exec[p].pc \in BodyPcs /\ "backend" \in BodyPcs BY DEF BodyPcs
<1>2. exec[p].op \in Operations /\ ledger \in [Operations -> {"absent", "reserved", "committed", "released"}]
  BY <1>1, BodyHasAnOperation, TypesOfLegacyInv DEF RowsTypeOK
<1>3. BodyLeaves(p) BY <1>2 DEF BodyLeaves
<1>4. QED BY <1>1, <1>3, BodyPays

\* The payload a body writes back carries its own copy's repair.
LEMMA CopiesAreWrittenBack ==
    ASSUME LegacyInv, NEW p \in Procs, exec[p].pc \in BodyPcs,
           PersistBackend(p) \/ Park(p) \/ NoteVersion(p)
    PROVE  BodyLeaves(p)
<1> USE DEF PersistBackend, Park, NoteVersion
<1>1. run \in Run /\ exec[p].copy \in Payload BY TypesOfLegacyInv, InBody
<1>2. /\ [exec[p].copy EXCEPT !.backend = TRUE].repair = exec[p].copy.repair
      /\ [exec[p].copy EXCEPT !.pending = exec[p].op].repair = exec[p].copy.repair
  BY <1>1 DEF Payload
<1>3. run'.stage = run.stage BY <1>1 DEF Run
<1>4. \/ run'.payload.repair <=> run.payload.repair
      \/ run'.payload.repair <=> exec[p].copy.repair
  BY <1>1, <1>2 DEF Run
<1>5. QED BY <1>3, <1>4 DEF BodyLeaves, rows

LEMMA PersistBackendKeepsPaid ==
    ASSUME LegacyInv, PaidInv, NEW p \in Procs, PersistBackend(p) PROVE PaidInv'
<1> USE DEF PersistBackend, At
<1>1. exec[p].pc \in BodyPcs /\ {"append", "call"} \subseteq BodyPcs BY DEF BodyPcs
<1>2. PICK pc \in {"append", "call"} : Go(p, [exec[p] EXCEPT !.pc = pc]) OBVIOUS
<1>3. QED BY <1>1, <1>2, CopiesAreWrittenBack, BodyPays

LEMMA ParkKeepsPaid == ASSUME LegacyInv, PaidInv, NEW p \in Procs, Park(p) PROVE PaidInv'
<1> USE DEF Park, At
<1>1. exec[p].pc \in BodyPcs /\ "append" \in BodyPcs BY DEF BodyPcs
<1>2. QED BY <1>1, CopiesAreWrittenBack, BodyPays

LEMMA LookUpVersionKeepsPaid ==
    ASSUME LegacyInv, PaidInv, NEW p \in Procs, LookUpVersion(p) PROVE PaidInv'
<1> USE DEF LookUpVersion, At
<1>1. exec[p].pc \in BodyPcs /\ {"point", "reserve"} \subseteq BodyPcs BY DEF BodyPcs
<1>2. BodyLeaves(p) BY DEF BodyLeaves, rows
<1> DEFINE pc == IF Number(p) \in versions THEN "point" ELSE "reserve"
<1>3. pc \in {"point", "reserve"} /\ Go(p, [exec[p] EXCEPT !.pc = pc])
      /\ (pc = "point" => exec[p].op[2] \in versions)
  BY DEF Number
<1> HIDE DEF pc
<1>4. QED BY <1>1, <1>2, <1>3, BodyPays

LEMMA SetCurrentKeepsPaid ==
    ASSUME LegacyInv, PaidInv, NEW p \in Procs, SetCurrent(p) PROVE PaidInv'
<1> USE DEF SetCurrent, At
<1>1. exec[p].pc \in BodyPcs /\ "commit" \in BodyPcs BY DEF BodyPcs
<1>2. Generating(exec[p]) => exec[p].op[2] \in versions BY DEF PaidInv, HasVersion
<1>3. BodyLeaves(p) BY DEF BodyLeaves
<1>4. QED BY <1>1, <1>2, <1>3, BodyPays

LEMMA RecordsKeepPaid ==
    ASSUME LegacyInv, PaidInv, NEW p \in Procs, RecordAudit(p) \/ RecordFindings(p) PROVE PaidInv'
<1> USE DEF RecordAudit, RecordFindings, At
<1>1. /\ exec[p].pc \in BodyPcs /\ {"findings", "commit"} \subseteq BodyPcs
      /\ exec[p].pc \in {"record", "findings"}
  BY DEF BodyPcs
<1>2. ~Generating(exec[p])
  <2>1. exec[p].pc \in PcsOf(Stage(exec[p])) BY <1>1, InBody
  <2>2. QED BY <1>1, <2>1 DEF PcsOf, Generating
<1>3. BodyLeaves(p) BY DEF BodyLeaves
<1>4. PICK pc \in {"findings", "commit"} : Go(p, [exec[p] EXCEPT !.pc = pc]) OBVIOUS
<1>5. QED BY <1>1, <1>2, <1>3, <1>4, BodyPays

\* The operation a generation commits is its version's, or the repair's where V4 is paid for.
LEMMA CommitKeepsPaid == ASSUME LegacyInv, PaidInv, NEW p \in Procs, Commit(p) PROVE PaidInv'
<1> USE DEF Commit, At
<1>1. /\ exec[p].pc \in BodyPcs /\ {"ready", "judge"} \subseteq BodyPcs
      /\ exec[p].pc = "commit" /\ p \in Actors /\ exec[p].pc # "idle"
  BY InBody DEF BodyPcs
<1>2. exec[p].op \in Operations /\ ledger \in [Operations -> {"absent", "reserved", "committed", "released"}]
  BY <1>1, BodyHasAnOperation, TypesOfLegacyInv DEF RowsTypeOK
<1>3. CASE ledger[exec[p].op] = "released"
  <2>1. Calm BY <1>1, <1>3, ThrownIsCalm
  <2>2. QED BY <2>1, CalmKeepsPaid
<1>4. CASE ledger[exec[p].op] # "released"
  <2> DEFINE pc == IF exec[p].op[1] = "generate" THEN "ready" ELSE "judge"
  <2>1. pc \in {"ready", "judge"} /\ Go(p, [exec[p] EXCEPT !.pc = pc]) BY <1>4
  <2>2. BodyLeaves(p) BY <1>2, <1>4 DEF BodyLeaves
  <2>3. ledger'[exec[p].op] = "committed" /\ versions' = versions
        /\ \A op \in Operations : ledger[op] = "committed" => ledger'[op] = "committed"
    BY <1>2, <1>4
  <2>4. ASSUME Generating(exec[p]), NEW n, n = VersionOf[Stage(exec[p])] PROVE Paid(n)'
    <3>1. exec[p].op[2] \in versions /\ exec[p].op \in OpsOf(Stage(exec[p]))
      BY <1>1, <2>4, BodyHasAnOperation DEF PaidInv, HasVersion
    <3>2. exec[p].op = Generate(n) \/ exec[p].op = Repair
      BY <2>4, <3>1 DEF OpsOf, Generating, Generate
    <3>3. CASE exec[p].op = Generate(n)
      <4>1. exec[p].op[2] = n BY <3>3 DEF Generate
      <4>2. QED BY <2>3, <3>1, <3>3, <4>1 DEF Paid
    <3>4. CASE exec[p].op = Repair
      <4>1. n = 4 /\ Paid(4) BY <2>4, <3>4, Tables DEF PaidInv, RepairsV4, Follows
      <4>2. QED BY <2>3, <4>1, GenerationsAreOperations DEF Paid
    <3>5. QED BY <3>2, <3>3, <3>4
  <2> HIDE DEF pc
  <2>5. QED BY <1>1, <2>1, <2>2, <2>4, BodyPays
<1>5. QED BY <1>3, <1>4

LEMMA NoteVersionKeepsPaid ==
    ASSUME LegacyInv, PaidInv, NEW p \in Procs, NoteVersion(p) PROVE PaidInv'
<1> USE DEF NoteVersion, At
<1>1. exec[p].pc \in BodyPcs /\ "point" \in BodyPcs BY DEF BodyPcs
<1>2. Generating(exec[p]) => exec[p].op[2] \in versions BY DEF PaidInv, HasVersion
<1>3. QED BY <1>1, <1>2, CopiesAreWrittenBack, BodyPays

LEMMA AppendVersionKeepsPaid ==
    ASSUME LegacyInv, PaidInv, NEW p \in Procs, AppendVersion(p) PROVE PaidInv'
<1> USE DEF AppendVersion, At
<1> DEFINE pc == IF Number(p) = RepairVersion THEN "reread" ELSE "point"
           rec == [exec[p] EXCEPT !.pc = pc]
<1>1. /\ exec[p].pc = "append" /\ exec[p].pc \in BodyPcs /\ {"reread", "point"} \subseteq BodyPcs
      /\ exec[p] \in Activity /\ exec[p].script = <<>> /\ exec[p].op \in OpsOf(Stage(exec[p]))
      /\ Stage(exec[p]) \in BodyStages
  BY InBody, BodyHasAnOperation DEF BodyPcs
<1>2. Stage(exec[p]) \in GeneratingStages BY <1>1, InBody DEF PcsOf
<1>3. RepairVersion \in versions' => RepairVersion \in versions \/ exec[p].op = Repair
  BY <1>1, <1>2, OpsOfStages DEF Number
<1>4. /\ rec.pc \in {"reread", "point"} /\ rec.job = exec[p].job /\ rec.op = exec[p].op
      /\ rec.script = <<>> /\ rec.copy = exec[p].copy
  BY <1>1 DEF Activity
<1>5. Go(p, rec) /\ rec.op[2] \in versions' BY <1>4 DEF Number
<1> HIDE DEF rec
<1>6. QED BY <1>1, <1>3, <1>4, <1>5, BodyKeepsPaid

LEMMA ExtractKeepsPaid == ASSUME LegacyInv, PaidInv, NEW p \in Procs, Extract(p) PROVE PaidInv'
<1> USE DEF Extract, At
<1>1. /\ exec[p].pc = "extract" /\ exec[p].pc \in BodyPcs /\ exec[p].pc # "idle" /\ p \in Actors
      /\ {"reserve"} \subseteq BodyPcs
  BY InBody DEF BodyPcs
<1>2. ~Generating(exec[p])
  <2>1. exec[p].pc \in PcsOf(Stage(exec[p])) BY <1>1, InBody
  <2>2. QED BY <1>1, <2>1 DEF PcsOf, Generating
<1>3. UNCHANGED <<run, jobs, ledger, answers, versions>> OBVIOUS
<1>4. CASE app' = app /\ Go(p, GoesOn(p))
  <2>1. CASE Calm BY <2>1, CalmKeepsPaid
  <2>2. CASE ~Calm
    <3>1. Go(p, [exec[p] EXCEPT !.pc = "reserve"]) BY <1>1, <1>4, <2>2, ExtractGoesOn
    <3>2. BodyLeaves(p) BY <1>3, <1>4 DEF BodyLeaves
    <3>3. QED BY <1>1, <3>1, <3>2, BodyPays
  <2>3. QED BY <2>1, <2>2
<1>5. CASE Go(p, Pauses(p))
  <2> DEFINE rec == Pauses(p)
  <2>1. rec.pc = "script" /\ rec.job = exec[p].job /\ rec.op = NoOperation /\ ~rec.copy.repair
    BY ThenIs, NoPayloadIsAPayload DEF Pauses
  <2>2. run'.payload.repair => RunFollows(4) BY <1>3 DEF RunFollows
  <2>3. Go(p, rec) BY <1>5
  <2> HIDE DEF rec
  <2>4. QED BY <1>1, <1>2, <1>3, <2>1, <2>2, <2>3, EndKeepsPaid
<1>6. QED BY <1>4, <1>5

\* A body that is over and has a script to say.
LEMMA ThenPays ==
    ASSUME LegacyInv, PaidInv, NEW p \in Procs, exec[p].pc \in BodyPcs, NEW script, NEW copy,
           Go(p, Then(p, script, copy)), run'.stage = run.stage,
           Generating(exec[p]) => exec[p].pc \in {"ready", "next"},
           run'.payload.repair \/ copy.repair => RunFollows(4) \/ Follows(4, exec[p]),
           UNCHANGED <<ledger, versions>>
    PROVE  PaidInv'
<1> DEFINE rec == Then(p, script, copy)
<1>1. Go(p, rec) OBVIOUS
<1>2. rec.pc = "script" /\ rec.job = exec[p].job /\ rec.op = NoOperation /\ rec.copy = copy
  BY ThenIs
<1> HIDE DEF rec
<1>3. QED BY <1>1, <1>2, EndKeepsPaid

\* What a body or the run knows of a repair follows V4.
LEMMA RepairsFollow ==
    ASSUME NEW p \in Procs
    PROVE  /\ run.payload.repair => RunFollows(4)
           /\ exec[p].copy.repair => Follows(4, exec[p])
           /\ exec[p].pc \in BodyPcs /\ Stage(exec[p]) = "FINAL_QA_RUNNING" => Follows(4, exec[p])
BY Tables DEF RunFollows, Follows

LEMMA RereadRunKeepsPaid ==
    ASSUME LegacyInv, PaidInv, NEW p \in Procs, RereadRun(p) PROVE PaidInv'
<1> USE DEF RereadRun, At
<1>1. exec[p] \in Activity /\ exec[p].script = <<>> /\ exec[p].pc \in BodyPcs /\ p \in Actors
  BY InBody DEF BodyPcs
<1> DEFINE rec == [exec[p] EXCEPT !.pc = "note", !.copy = run.payload]
<1>2. /\ Go(p, rec) /\ rec.pc = "note" /\ rec.job = exec[p].job /\ rec.op = exec[p].op
      /\ rec.script = <<>> /\ rec.copy = run.payload
  BY <1>1 DEF Activity
<1> HIDE DEF rec
<1>3. Stage(rec) = Stage(exec[p]) /\ rec.pc \in BodyPcs /\ ~Ending(rec)
  BY <1>2 DEF Stage, BodyPcs, Ending
<1>4. HasVersion(rec, versions') /\ RepairsV4(rec)
  BY <1>2, <1>3 DEF PaidInv, HasVersion, RepairsV4, Generating, rows
<1>5. \A n \in 0..4 : Follows(n, rec) => RunFollows(n) \/ Follows(n, exec[p])
  BY <1>1, <1>2, <1>3 DEF Follows, RunFollows, Generating
<1>6. \A n \in 0..4 : RunFollows(n)' => RunFollows(n) BY DEF RunFollows, rows
<1>7. QED BY <1>1, <1>2, <1>4, <1>5, <1>6, PaidMoves DEF rows

LEMMA BecomesReadyKeepsPaid ==
    ASSUME LegacyInv, PaidInv, NEW p \in Procs, BecomesReady(p) PROVE PaidInv'
<1>1. PICK copy : GoesOnWith(p, copy) BY BecomesReadyIs
<1>2. run'.payload.repair \/ copy.repair => RunFollows(4)
  BY <1>1, BecomesReadyIs, RepairsFollow DEF GoesOnWith
<1>3. ASSUME NEW script, Go(p, Then(p, script, copy)) PROVE PaidInv'
  BY <1>2, <1>3, BecomesReadyIs, ThenPays
<1>4. ASSUME NEW rec, Go(p, rec), rec.pc = "next", rec.copy = copy, rec.job = exec[p].job,
             rec.op = exec[p].op
      PROVE  PaidInv'
  BY <1>2, <1>4, BecomesReadyIs, EndKeepsPaid
<1>5. QED BY <1>1, <1>3, <1>4 DEF GoesOnWith

LEMMA StartNextKeepsPaid == ASSUME LegacyInv, PaidInv, NEW p \in Procs, StartNext(p) PROVE PaidInv'
<1>1. PICK script, copy : /\ Go(p, Then(p, script, copy))
                          /\ copy.repair => run.payload.repair \/ exec[p].copy.repair
  BY StartNextIs
<1>2. run'.payload.repair \/ copy.repair => RunFollows(4) \/ Follows(4, exec[p])
  BY <1>1, StartNextIs, RepairsFollow
<1>3. QED BY <1>1, <1>2, StartNextIs, ThenPays

\* The repair is asked for at Final QA, where V4 is paid for.
LEMMA StartRepairPays ==
    ASSUME LegacyInv, PaidInv, NEW p \in Procs, exec[p].pc \in BodyPcs,
           Stage(exec[p]) = "FINAL_QA_RUNNING", StartRepair(p), UNCHANGED <<ledger, versions>>
    PROVE  PaidInv'
<1>1. run \in Run /\ ~Generating(exec[p]) /\ Follows(4, exec[p])
  BY TypesOfLegacyInv, RepairsFollow DEF Generating, GeneratingStages
<1>2. run'.stage = run.stage BY <1>1 DEF StartRepair, Run
<1>3. PICK script, copy : Go(p, Then(p, script, copy)) BY DEF StartRepair
<1>4. QED BY <1>1, <1>2, <1>3, ThenPays

LEMMA CheckLocallyKeepsPaid ==
    ASSUME LegacyInv, PaidInv, NEW p \in Procs, CheckLocally(p) PROVE PaidInv'
<1> USE DEF CheckLocally, At
<1>1. /\ exec[p].pc = "look" /\ exec[p].pc \in BodyPcs /\ exec[p].op = NoOperation
      /\ exec[p] \in Activity /\ exec[p].script = <<>> /\ p \in Actors
  BY InBody DEF BodyPcs
<1>2. Stage(exec[p]) = "FINAL_QA_RUNNING" BY <1>1, InBody, OpsOfStages DEF OpFits
<1>3. UNCHANGED <<run, ledger, versions>> /\ Follows(4, exec[p]) /\ ~Generating(exec[p])
  BY <1>1, <1>2, RepairsFollow DEF rows, Generating, GeneratingStages
<1>4. CASE Go(p, [exec[p] EXCEPT !.pc = "reserve",
                                 !.op = OperationAt("FINAL_QA_RUNNING", FALSE, Latest)])
  <2> DEFINE op == OperationAt("FINAL_QA_RUNNING", FALSE, Latest)
             rec == [exec[p] EXCEPT !.pc = "reserve", !.op = op]
  <2>1. op # Repair BY DEF OperationAt, Repair, GeneratingStages, AuditStages
  <2>2. /\ rec.pc = "reserve" /\ rec.job = exec[p].job /\ rec.op = op /\ rec.copy = exec[p].copy
        /\ rec.script = <<>>
    BY <1>1 DEF Activity
  <2>3. Go(p, rec) BY <1>4
  <2> HIDE DEF op, rec
  <2>4. Stage(rec) = Stage(exec[p]) /\ ~Generating(rec) /\ ~Ending(rec)
    BY <1>3, <2>2 DEF Stage, Generating, Ending
  <2>5. \A n \in 0..4 : Follows(n, rec) => Follows(n, exec[p]) BY <1>1, <1>3, <2>4 DEF Follows
  <2>6. HasVersion(rec, versions') /\ RepairsV4(rec) BY <2>1, <2>2, <2>4 DEF HasVersion, RepairsV4
  <2>7. \A n \in 0..4 : RunFollows(n)' => RunFollows(n) BY <1>3 DEF RunFollows
  <2>8. QED BY <1>1, <1>3, <2>3, <2>5, <2>6, <2>7, PaidMoves
<1>5. CASE Go(p, Then(p, FailedQa, exec[p].copy))
  <2> DEFINE copy == exec[p].copy
  <2>1. Go(p, Then(p, FailedQa, copy)) BY <1>5
  <2> HIDE DEF copy
  <2>2. QED BY <1>1, <1>3, <2>1, ThenPays
<1>6. QED BY <1>4, <1>5

LEMMA JudgeKeepsPaid == ASSUME LegacyInv, PaidInv, NEW p \in Procs, Judge(p) PROVE PaidInv'
<1> USE DEF Judge, At
<1>1. /\ exec[p].pc = "judge" /\ exec[p].pc \in BodyPcs /\ exec[p].pc # "idle" /\ p \in Actors
      /\ StageAt(p) = Stage(exec[p])
      /\ run.payload.repair => RunFollows(4)
  BY InBody, RepairsFollow DEF BodyPcs
<1>2. ~Generating(exec[p]) /\ UNCHANGED <<jobs, app, ledger, answers, versions>>
  <2>1. exec[p].pc \in PcsOf(Stage(exec[p])) BY <1>1, InBody
  <2>2. QED BY <1>1, <2>1 DEF PcsOf, Generating, rows
<1>3. CASE UNCHANGED run /\ \E script : Go(p, Then(p, script, NoPayload))
  BY <1>1, <1>2, <1>3, NoPayloadIsAPayload, ThenPays
<1>4. CASE Stage(exec[p]) = "FINAL_QA_RUNNING" /\ JudgeQa(p)
  <2>1. Follows(4, exec[p]) BY <1>1, <1>4, RepairsFollow
  <2>2. CASE StartRepair(p) BY <1>1, <1>2, <1>4, <2>2, StartRepairPays
  <2>3. CASE Go(p, Thrown(p, "permanent")) /\ UNCHANGED run
    <3>1. Calm BY <1>1, <1>2, <2>3, ThrownIsCalm
    <3>2. QED BY <3>1, CalmKeepsPaid
  <2>4. CASE UNCHANGED run /\ \E script, copy : Go(p, Then(p, script, copy))
    BY <1>1, <1>2, <2>1, <2>4, ThenPays
  <2>5. QED BY <1>4, <2>2, <2>3, <2>4 DEF JudgeQa
<1>5. QED BY <1>1, <1>3, <1>4

LEMMA GiveUpKeepsPaid == ASSUME LegacyInv, PaidInv, NEW p \in Procs, GiveUp(p) PROVE PaidInv'
<1> USE DEF GiveUp, At
<1>1. exec[p].pc # "idle" /\ p \in Actors /\ UNCHANGED <<run, jobs, app, ledger, answers, versions>>
  BY ProcsAreNoClients DEF rows
<1>2. CASE Go(p, Rest(p, "resolved"))
  <2>1. "resolved" \in RestPcs BY DEF RestPcs
  <2>2. Calm BY <1>1, <1>2, <2>1, PlainRestIsCalm
  <2>3. QED BY <2>2, CalmKeepsPaid
<1>3. CASE ~Go(p, Rest(p, "resolved"))
  <2> DEFINE script == << <<"refund", "run">>, <<"put", "FAILED">>, <<"app", "FAILED">>,
                          <<"end", "resolved">> >>
             rec == [Then(p, script, run.payload) EXCEPT !.giving = TRUE]
  <2>1. Go(p, rec) BY <1>3
  <2>2. /\ rec.pc = "script" /\ rec.op = NoOperation /\ rec.giving /\ rec.copy = run.payload
    BY DEF Then, Rest, Idle
  <2> HIDE DEF rec, script
  <2>3. rec.pc \notin BodyPcs /\ ~Ending(rec) /\ rec.pc \notin Finalizing
        /\ rec.op # Repair
    BY <2>2 DEF BodyPcs, Ending, NoOperation, Repair
  <2>4. \A n \in 0..4 : Follows(n, rec) => RunFollows(n)
    BY <2>2, <2>3, RepairsFollow DEF Follows, RunFollows
  <2>5. HasVersion(rec, versions') /\ RepairsV4(rec) BY <2>3 DEF HasVersion, RepairsV4
  <2>6. \A n \in 0..4 : RunFollows(n)' => RunFollows(n) BY <1>1 DEF RunFollows
  <2>7. QED BY <1>1, <2>1, <2>4, <2>5, <2>6, PaidMoves
<1>4. QED BY <1>2, <1>3

LEMMA ResumesKeepsPaid == ASSUME LegacyInv, PaidInv, NEW p \in Procs, Resumes(p) PROVE PaidInv'
<1> USE DEF Resumes, At
<1>1. /\ p \in Actors /\ exec[p].pc = "script" /\ exec[p] \in Activity /\ exec[p].script # <<>>
      /\ Head(exec[p].script) \in Allowed(exec[p]) /\ exec[p].op = NoOperation
  BY ProcsAreNoClients, InScript
<1>2. Ending(exec[p])
  <2>1. Head(exec[p].script)[1] = "next" OBVIOUS
  <2>2. Head(exec[p].script) \notin Ends \cup Givings BY <2>1 DEF Ends, Givings
  <2>3. QED BY <1>1, <2>2 DEF Allowed, Ending
<1> DEFINE rec == [exec[p] EXCEPT !.pc = "next", !.script = <<>>]
<1>3. Go(p, rec) /\ UNCHANGED <<run, ledger, versions>> BY DEF rows
<1>4. /\ rec.pc = "next" /\ rec.job = exec[p].job /\ rec.op = NoOperation /\ rec.script = <<>>
      /\ rec.copy = exec[p].copy
  BY <1>1 DEF Activity
<1> HIDE DEF rec
<1>5. Stage(rec) = Stage(exec[p]) /\ ~Ending(rec) /\ NoOperation # Repair
  BY <1>4 DEF Stage, Ending, NoOperation, Repair
<1>6. \A n \in 0..4 : Follows(n, rec) => Follows(n, exec[p])
  BY <1>2, <1>4, <1>5 DEF Follows, Generating
<1>7. HasVersion(rec, versions') /\ RepairsV4(rec) BY <1>4, <1>5 DEF HasVersion, RepairsV4
<1>8. \A n \in 0..4 : RunFollows(n)' => RunFollows(n) BY <1>3 DEF RunFollows
<1>9. QED BY <1>1, <1>3, <1>6, <1>7, <1>8, PaidMoves

\* There is a repair only of V4: the run of an earlier version has no V4.
LEMMA RepairsAreOfV4 ==
    ASSUME LegacyInv, Lines, run.payload.repair, run.stage \in GeneratingStages
    PROVE  run.stage = "V4_GENERATING"
<1>1. 4 \in versions BY TypesOfLegacyInv DEF RunFollowsV4
<1>2. Late BY <1>1 DEF Lines, Early
<1>3. QED BY <1>2 DEF Late, Within, TailSpan, GeneratingStages

LEMMA PastTables ==
    /\ \A n \in 0..4 : NextOf[n] \in PastOf(n)
    /\ \A n \in 0..4 : \A s \in PastOf(n) :
          s \notin FrontStages \cup GeneratingStages \cup {"FAILED"}
    /\ \A s \in GeneratingStages, n \in 0..4 :
          ReadyOf[VersionOf[s]] \in PastOf(n) \/ NextOf[VersionOf[s]] \in PastOf(n)
            => n = VersionOf[s]
    /\ \A s \in AuditStages, n \in 0..4 : ReviewOf[s] \in PastOf(n) => s = NextOf[n]
    /\ \A n \in 0..4 : "FINAL_READY" \in PastOf(n) \/ "FINAL_QA_FAILED" \in PastOf(n) => n = 4
<1>1. \A n \in 0..4 : n \in {0, 1, 2, 3, 4} OBVIOUS
<1>2. \A n \in 0..4 : NextOf[n] \in PastOf(n) BY <1>1, Pasts, Tables
<1>3. \A n \in 0..4 : \A s \in PastOf(n) : s \notin FrontStages \cup GeneratingStages \cup {"FAILED"}
  BY <1>1, Pasts DEF FrontStages, GeneratingStages
<1>4. \A s \in GeneratingStages, n \in 0..4 :
        ReadyOf[VersionOf[s]] \in PastOf(n) \/ NextOf[VersionOf[s]] \in PastOf(n)
          => n = VersionOf[s]
  BY <1>1, Pasts, Tables DEF GeneratingStages
<1>5. \A s \in AuditStages, n \in 0..4 : ReviewOf[s] \in PastOf(n) => s = NextOf[n]
  BY <1>1, Pasts, Tables, AuditTables DEF AuditStages
<1>6. \A n \in 0..4 : "FINAL_READY" \in PastOf(n) \/ "FINAL_QA_FAILED" \in PastOf(n) => n = 4
  BY <1>1, Pasts
<1>7. QED BY <1>2, <1>3, <1>4, <1>5, <1>6

LEMMA CallsKeepsPaid == ASSUME LegacyInv, PaidInv, NEW p \in Procs, Calls(p) PROVE PaidInv'
<1> USE DEF Calls, At
<1>1. /\ exec[p].pc = "call" /\ exec[p].pc \in BodyPcs /\ exec[p].pc # "idle" /\ p \in Actors
      /\ exec[p].op \in OpsOf(Stage(exec[p])) /\ exec[p] \in Activity /\ exec[p].script = <<>>
      /\ Stage(exec[p]) \in BodyStages
  BY InBody, BodyHasAnOperation DEF BodyPcs
<1>2. UNCHANGED <<run, ledger, versions>> OBVIOUS
<1>3. CASE Go(p, Receives(p))
  <2> DEFINE rec == Receives(p)
  <2>1. /\ rec.job = exec[p].job /\ rec.op = exec[p].op /\ rec.copy = exec[p].copy
        /\ rec.script = <<>> /\ rec.pc = AfterCall(p)
    BY <1>1 DEF Receives, Activity
  <2>2. Generating(exec[p]) => AfterCall(p) = "park" BY <1>1, OpsOfStages DEF AfterCall, Generating
  <2>3. AfterCall(p) \in {"park", "record", "commit"} BY DEF AfterCall
  <2>4. Go(p, rec) BY <1>3
  <2> HIDE DEF rec
  <2>5. rec.pc \in BodyPcs /\ Generating(rec) = Generating(exec[p])
    BY <2>1, <2>3 DEF BodyPcs, Generating, Stage
  <2>6. QED BY <1>1, <1>2, <2>1, <2>2, <2>4, <2>5, BodyKeepsPaid
<1>4. CASE Go(p, Thrown(p, "retryable"))
  <2> DEFINE rec == Thrown(p, "retryable")
  <2>1. Resting(rec) /\ Go(p, rec) BY <1>1, <1>4, ThrownFits
  <2> HIDE DEF rec
  <2>2. \A n \in 0..4 : RunFollows(n)' => RunFollows(n) BY <1>2 DEF RunFollows
  <2>3. QED BY <1>1, <1>2, <2>1, <2>2, RestingPaysNothing, PaidMoves
<1>5. QED BY <1>3, <1>4

LEMMA ClaimStageKeepsPaid ==
    ASSUME LegacyInv, PaidInv, Lines, NEW p \in Procs, ClaimStage(p) PROVE PaidInv'
<1> DEFINE stage == Stage(exec[p])
<1>1. CASE ~Calm
  <2>1. PICK rec : Claims(p, rec) BY <1>1, ClaimStageIs
  <2>2. /\ Go(p, rec) /\ rec.copy = run'.payload /\ rec.pc \in {"extract", "look", "reserve"}
        /\ run'.stage = stage /\ run'.payload.repair = run.payload.repair
        /\ run.stage = stage \/ stage = "RESEARCH_RUNNING"
        /\ UNCHANGED <<ledger, versions>>
    BY <2>1 DEF Claims
  <2>3. /\ Stage(rec) = stage /\ ~Ending(rec) /\ p \in Actors
        /\ rec.op = Repair => run.payload.repair /\ stage \in GeneratingStages
    BY <2>1, ClaimStageIs, ClaimedBodyIs
  <2>4. rec.op = Repair => stage = "V4_GENERATING"
    <3>1. "RESEARCH_RUNNING" \notin GeneratingStages BY DEF GeneratingStages
    <3>2. QED BY <2>2, <2>3, <3>1, RepairsAreOfV4
  <2>5. \A n \in 0..4 : Follows(n, rec) => RunFollows(n)
    <3> SUFFICES ASSUME NEW n \in 0..4, Follows(n, rec) PROVE RunFollows(n)
      OBVIOUS
    <3>1. CASE stage = NextOf[n]
      <4>1. stage \in PastOf(n) /\ "RESEARCH_RUNNING" \notin PastOf(n)
        BY <3>1, PastTables DEF FrontStages
      <4>2. QED BY <2>2, <4>1 DEF RunFollows
    <3>2. CASE stage # NextOf[n] BY <2>2, <2>3, <3>2 DEF Follows, RunFollows
    <3>3. QED BY <3>1, <3>2
  <2>6. HasVersion(rec, versions') /\ RepairsV4(rec) BY <2>2, <2>3, <2>4 DEF HasVersion, RepairsV4
  <2>7. \A n \in 0..4 : RunFollows(n)' => RunFollows(n)
    <3>1. \A n \in 0..4 : "RESEARCH_RUNNING" \notin PastOf(n) BY PastTables DEF FrontStages
    <3>2. QED BY <2>2, <3>1 DEF RunFollows
  <2>8. QED BY <2>2, <2>3, <2>5, <2>6, <2>7, PaidMoves
<1>2. QED BY <1>1, CalmKeepsPaid

LEMMA SaysKeepPaid ==
    ASSUME LegacyInv, PaidInv, NEW a \in Actors,
           WriteApplication(a) \/ Enqueue(a) \/ Refund(a) \/ EnqueueDocuments(a)
    PROVE  PaidInv'
<1> USE DEF WriteApplication, Enqueue, Refund, EnqueueDocuments, At
<1>1. exec[a].pc \in {"script", "enqueue"} /\ exec[a] \in Activity BY InScript
<1>2. UNCHANGED <<run, versions>>
      /\ \A op \in Operations : ledger[op] = "committed" => ledger'[op] = "committed"
  BY DEF rows
<1>3. \A n \in 0..4 : RunFollows(n)' => RunFollows(n) BY <1>2 DEF RunFollows
<1>4. CASE Go(a, [exec[a] EXCEPT !.script = Tail(@)])
  <2> DEFINE rec == [exec[a] EXCEPT !.script = Tail(@)]
  <2>1. Go(a, rec) /\ SpeaksOn(rec, exec[a]) BY <1>1, <1>4 DEF SpeaksOn, Activity
  <2> HIDE DEF rec
  <2>2. QED BY <1>1, <1>2, <1>3, <2>1, SpeakingKeepsPaid
<1>5. CASE Go(a, [exec[a] EXCEPT !.pc = "script", !.adds = NoJob])
  <2> DEFINE rec == [exec[a] EXCEPT !.pc = "script", !.adds = NoJob]
  <2>1. Go(a, rec) /\ SpeaksOn(rec, exec[a]) BY <1>1, <1>5 DEF SpeaksOn, Activity
  <2> HIDE DEF rec
  <2>2. QED BY <1>1, <1>2, <1>3, <2>1, SpeakingKeepsPaid
<1>6. QED BY <1>4, <1>5

\* Where a transition leads a run past a version, the activity was past it.
LEMMA TransitionsFollow ==
    ASSUME LegacyInv, NEW a \in Actors, exec[a].pc = "script",
           Head(exec[a].script)[1] \in {"move", "pause", "put"},
           NEW n \in 0..4, Head(exec[a].script)[2] \in PastOf(n)
    PROVE  a \in Procs /\ Follows(n, exec[a])
<1> DEFINE x == Head(exec[a].script)
           stage == Stage(exec[a])
<1>1. /\ exec[a].giving => x \in {<<"put", "FAILED">>, <<"app", "FAILED">>}
      /\ ~exec[a].giving => Ending(exec[a]) /\ x \in After(stage)
      /\ stage \in BodyStages \cup {"none"}
      /\ a \in Clients => stage = "none"
  BY NextInstruction
<1>2. x[2] \notin FrontStages \cup GeneratingStages \cup {"FAILED"} BY PastTables
<1>3. ~exec[a].giving BY <1>1, <1>2
<1>4. stage \notin {"none", "RESEARCH_RUNNING", "EVIDENCE_MATCHING_RUNNING"}
  <2>1. ASSUME stage \in {"none", "RESEARCH_RUNNING", "EVIDENCE_MATCHING_RUNNING"} PROVE FALSE
    <3>1. x \in {"move", "pause", "app"} \X (FrontStages \cup {"V0_GENERATING"})
      BY <1>1, <1>3, <2>1 DEF After, AuditStages, GeneratingStages
    <3>2. QED BY <1>2, <3>1 DEF GeneratingStages
  <2>2. QED BY <2>1
<1>5. a \in Procs BY <1>1, <1>4 DEF Actors
<1>6. CASE stage \in GeneratingStages
  <2> DEFINE ready == ReadyOf[VersionOf[stage]]
             next == NextOf[VersionOf[stage]]
  <2>1. x \in ({"put", "app"} \X {ready, next}) \cup {<<"next", "stage">>}
    BY <1>1, <1>3, <1>6 DEF After
  <2> HIDE DEF ready, next
  <2>2. x[2] \in {ready, next} BY <2>1
  <2>3. ready \in PastOf(n) \/ next \in PastOf(n) BY <2>2
  <2>4. n = VersionOf[stage] BY <1>6, <2>3, PastTables DEF ready, next
  <2>5. QED BY <1>1, <1>3, <1>5, <1>6, <2>4 DEF Follows, Generating
<1>7. CASE stage \in AuditStages
  <2>1. x \in {"move", "app"} \X {ReviewOf[stage], ProducerOf[stage]}
    BY <1>1, <1>3, <1>7 DEF After, AuditStages, GeneratingStages
  <2>2. ProducerOf[stage] \in GeneratingStages BY <1>7, StagesOfTables
  <2>3. ReviewOf[stage] \in PastOf(n) BY <1>2, <2>1, <2>2
  <2>4. stage = NextOf[n] BY <1>7, <2>3, PastTables
  <2>5. QED BY <1>1, <1>3, <1>5, <2>4 DEF Follows
<1>8. CASE stage = "FINAL_QA_RUNNING"
  <2>1. x \in {"put", "app"} \X {"FINAL_READY", "FINAL_QA_FAILED", "V4_GENERATING"}
    BY <1>1, <1>3, <1>8 DEF After, AuditStages, GeneratingStages
  <2>2. x[2] \in {"FINAL_READY", "FINAL_QA_FAILED"} BY <1>2, <2>1 DEF GeneratingStages
  <2>3. n = 4 BY <2>2, PastTables
  <2>4. QED BY <1>1, <1>3, <1>5, <1>8, <2>3, Tables DEF Follows
<1>9. QED BY <1>1, <1>4, <1>6, <1>7, <1>8 DEF BodyStages

LEMMA TransitionKeepsPaid ==
    ASSUME LegacyInv, PaidInv, NEW a \in Actors, Transition(a) PROVE PaidInv'
<1> DEFINE stage == Head(exec[a].script)[2]
<1>1. exec[a].pc = "script" /\ Head(exec[a].script)[1] \in {"move", "pause", "put"} BY TransitionIs
<1>2. CASE ~Calm
  <2>1. PICK rec : Moves(a, rec, stage) BY <1>2, TransitionIs
  <2>2. /\ Go(a, rec) /\ SpeaksOn(rec, exec[a]) /\ run'.stage = stage
        /\ run'.payload \in {run.payload, exec[a].copy} /\ UNCHANGED <<ledger, versions>>
    BY <1>2, <2>1, TransitionIs DEF Moves
  <2>3. run'.payload.repair => run.payload.repair \/ (a \in Procs /\ exec[a].copy.repair)
    BY <2>2, ActorIsTyped DEF ClientShape, Actors
  <2>4. \A n \in 0..4 : RunFollows(n)' => RunFollows(n) \/ (a \in Procs /\ Follows(n, exec[a]))
    <3> SUFFICES ASSUME NEW n \in 0..4, RunFollows(n)'
                 PROVE  RunFollows(n) \/ (a \in Procs /\ Follows(n, exec[a]))
      OBVIOUS
    <3>1. CASE stage \in PastOf(n) BY <1>1, <3>1, TransitionsFollow
    <3>2. CASE stage \notin PastOf(n)
      <4>1. n = 4 /\ (run'.payload.repair \/ RepairVersion \in versions')
        BY <2>2, <3>2 DEF RunFollows
      <4>2. QED BY <2>2, <2>3, <4>1 DEF RunFollows, Follows
    <3>3. QED BY <3>1, <3>2
  <2>5. QED BY <1>1, <2>2, <2>4, SpeakingKeepsPaid
<1>3. QED BY <1>2, CalmKeepsPaid

LEMMA ClientsKeepPaid ==
    ASSUME LegacyInv, PaidInv, NEW c \in Clients, ResumePaused(c) \/ Retry(c) PROVE PaidInv'
<1>1. c \in Actors /\ c \notin Procs /\ run \in Run BY ProcsAreNoClients, TypesOfLegacyInv
<1>2. PICK rec : Go(c, rec) BY DEF ResumePaused, Retry
<1>3. /\ UNCHANGED <<ledger, versions>>
      /\ run'.stage = run.stage /\ (run'.payload.repair <=> run.payload.repair)
  BY <1>1 DEF ResumePaused, Retry, rows, Run
<1>4. \A n \in 0..4 : RunFollows(n)' => RunFollows(n) BY <1>3 DEF RunFollows
<1>5. QED BY <1>1, <1>2, <1>3, <1>4, PaidMoves

LEMMA AnswerExpiresKeepsPaid ==
    ASSUME PaidInv, NEW op \in Operations, AnswerExpires(op) PROVE PaidInv'
<1>1. UNCHANGED <<run, exec, ledger, versions>> BY DEF AnswerExpires
<1>2. QED BY <1>1 DEF PaidInv, RunFollows, Paid

LEMMA NextKeepsPaid == LegacyInv /\ Lines /\ PaidInv /\ [Next]_vars => PaidInv'
<1> SUFFICES ASSUME LegacyInv, Lines, PaidInv, [Next]_vars PROVE PaidInv'
  OBVIOUS
<1>1. ASSUME NEW a \in Actors, Speaks(a) PROVE PaidInv'
  BY <1>1, TransitionKeepsPaid, SaysKeepPaid DEF Speaks
<1>2. ASSUME NEW p \in Procs, Works(p) PROVE PaidInv'
  BY <1>2, ClaimStageKeepsPaid, GiveUpKeepsPaid, ExtractKeepsPaid, ReserveKeepsPaid,
     PersistBackendKeepsPaid, CallsKeepsPaid, CommitKeepsPaid, JudgeKeepsPaid, CheckLocallyKeepsPaid
     DEF Works
<1>3. ASSUME NEW p \in Procs, Finishes(p) PROVE PaidInv'
  BY <1>3, LookUpVersionKeepsPaid, ParkKeepsPaid, AppendVersionKeepsPaid, RereadRunKeepsPaid,
     NoteVersionKeepsPaid, SetCurrentKeepsPaid, BecomesReadyKeepsPaid, ResumesKeepsPaid, StartNextKeepsPaid, RecordsKeepPaid DEF Finishes
<1>4. QED BY <1>1, <1>2, <1>3, StepsAre, CalmKeepsPaid, ClientsKeepPaid, AnswerExpiresKeepsPaid

-----------------------------------------------------------------------------
(* Which versions a run makes.                                              *)

LEMMA Spans ==
    /\ Span[0] = FirstStages
    /\ Span[1] = {"V1_GENERATING", "V1_READY", "EM_AUDIT_1_RUNNING", "EM_AUDIT_1_REVIEW", "FAILED"}
    /\ Span[2] = {"V2_GENERATING", "V2_READY", "HR_AUDIT_2_RUNNING", "HR_AUDIT_2_REVIEW", "FAILED"}
    /\ Span[3] = {"V3_GENERATING", "FAILED"}
BY DEF Span

LEMMA Spaces ==
    \A m \in 0..3 :
       /\ "V4_GENERATING" \notin Span[m] /\ "none" \notin Span[m]
       /\ \A s \in GeneratingStages : s \in Span[m] => VersionOf[s] = m
       /\ \A s \in AuditStages : s \in Span[m] => m # 3 /\ s = NextOf[m]
       /\ m # 0 => Span[m] \subseteq LaterStages
<1> SUFFICES ASSUME NEW m \in 0..3
             PROVE  /\ "V4_GENERATING" \notin Span[m] /\ "none" \notin Span[m]
                    /\ \A s \in GeneratingStages : s \in Span[m] => VersionOf[s] = m
                    /\ \A s \in AuditStages : s \in Span[m] => m # 3 /\ s = NextOf[m]
                    /\ m # 0 => Span[m] \subseteq LaterStages
  OBVIOUS
<1>1. m \in {0, 1, 2, 3} OBVIOUS
<1>2. "V4_GENERATING" \notin Span[m] /\ "none" \notin Span[m]
  BY <1>1, Spans DEF FirstStages, FrontStages
<1>3. \A s \in GeneratingStages : s \in Span[m] => VersionOf[s] = m
  BY <1>1, Spans, Tables DEF FirstStages, FrontStages, GeneratingStages
<1>4. \A s \in AuditStages : s \in Span[m] => m # 3 /\ s = NextOf[m]
  BY <1>1, Spans, Tables DEF FirstStages, FrontStages, AuditStages
<1>5. m # 0 => Span[m] \subseteq LaterStages
  <2>1. Span[1] \subseteq LaterStages
    BY Spans DEF LaterStages, FrontStages, Stages, GeneratingStages, ReadyStages, RunningStages,
                 AuditStages, ReviewStages, TerminalStages
  <2>2. Span[2] \subseteq LaterStages
    BY Spans DEF LaterStages, FrontStages, Stages, GeneratingStages, ReadyStages, RunningStages,
                 AuditStages, ReviewStages, TerminalStages
  <2>3. Span[3] \subseteq LaterStages
    BY Spans DEF LaterStages, FrontStages, Stages, GeneratingStages, TerminalStages
  <2>4. QED BY <1>1, <2>1, <2>2, <2>3
<1>6. QED BY <1>2, <1>3, <1>4, <1>5

LEMMA TailSpaces ==
    /\ TailSpan \subseteq LaterStages
    /\ \A s \in GeneratingStages : s \in TailSpan => VersionOf[s] \in {3, 4}
    /\ \A s \in AuditStages : s \in TailSpan => s = NextOf[3]
    /\ "none" \notin TailSpan
<1>1. TailSpan \subseteq LaterStages
  BY DEF TailSpan, LaterStages, FrontStages, Stages, GeneratingStages, ReadyStages, RunningStages,
         AuditStages, ReviewStages, TerminalStages
<1>2. \A s \in GeneratingStages : s \in TailSpan => VersionOf[s] \in {3, 4}
  BY Tables DEF TailSpan, GeneratingStages
<1>3. \A s \in AuditStages : s \in TailSpan => s = NextOf[3] BY Tables DEF TailSpan, AuditStages
<1>4. "none" \notin TailSpan BY DEF TailSpan
<1>5. QED BY <1>1, <1>2, <1>3, <1>4

LEMMA KnowledgeMoves ==
    ASSUME LegacyInv, NEW S, KnowsOnly(S), NEW a \in Actors, NEW rec, Go(a, rec),
           \A n \in Numbers : Knows(a, rec, n) => Known(n) \/ n \in S
    PROVE  KnowsOnly(S)'
<1>1. exec \in [Actors -> Activity] BY TypesOfLegacyInv
<1>2. \A p \in Procs : exec'[p] = IF p = a THEN rec ELSE exec[p] BY <1>1, ProcsAreNoClients DEF Go
<1>3. \A n \in Numbers : Known(n)' => Known(n) \/ Knows(a, rec, n) BY <1>2 DEF Known, Knows
<1>4. \A n \in Numbers : Known(n)' => n \in S BY <1>3 DEF KnowsOnly
<1>5. QED BY <1>4 DEF KnowsOnly

LEMMA QuietMoves ==
    ASSUME LegacyInv, Quiet, NEW a \in Actors, NEW rec, Go(a, rec), app' \in LaterStages,
           a \in Clients => rec.script \in Seq(Ends)
    PROVE  Quiet'
<1>1. exec' = [exec EXCEPT ![a] = rec] /\ exec \in [Actors -> Activity] BY TypesOfLegacyInv DEF Go
<1>2. \A c \in Clients : exec'[c].script \in Seq(Ends) BY <1>1, ProcsAreNoClients DEF Quiet
<1>3. QED BY <1>2 DEF Quiet

LEMMA AgreementMoves ==
    ASSUME LegacyInv, NEW m \in 0..3, Agreed(m), NEW a \in Actors, NEW rec, Go(a, rec),
           a \in Procs => Sends(m, rec, answers'[AuditOf(m)]),
           answers[AuditOf(m)] # "none" => answers'[AuditOf(m)] = answers[AuditOf(m)],
           answers'[AuditOf(m)] # answers[AuditOf(m)] => a \in Procs /\ Reviews(m, exec[a]),
           run'.stage = ReviewOf[NextOf[m]] =>
              \/ answers'[AuditOf(m)] = "done"
              \/ /\ run.stage = ReviewOf[NextOf[m]]
                 /\ a \in Procs /\ Reviews(m, rec) => Reviews(m, exec[a])
    PROVE  Agreed(m)'
<1>1. exec' = [exec EXCEPT ![a] = rec] /\ exec \in [Actors -> Activity] BY TypesOfLegacyInv DEF Go
<1>2. ASSUME NEW p \in Procs PROVE Sends(m, exec'[p], answers'[AuditOf(m)])
  <2>1. exec'[p] = IF p = a THEN rec ELSE exec[p] BY <1>1, ProcsAreNoClients
  <2>2. Sends(m, exec[p], answers[AuditOf(m)]) BY DEF Agreed
  <2>3. Sends(m, exec[p], answers'[AuditOf(m)]) BY <2>2 DEF Sends
  <2>4. QED BY <2>1, <2>3
<1>3. run'.stage = ReviewOf[NextOf[m]] =>
          \/ answers'[AuditOf(m)] = "done"
          \/ answers'[AuditOf(m)] = "none" /\ \A p \in Procs : ~Reviews(m, exec'[p])
  <2> SUFFICES ASSUME run'.stage = ReviewOf[NextOf[m]], answers'[AuditOf(m)] # "done"
               PROVE  answers'[AuditOf(m)] = "none" /\ \A p \in Procs : ~Reviews(m, exec'[p])
    OBVIOUS
  <2>1. /\ run.stage = ReviewOf[NextOf[m]]
        /\ a \in Procs /\ Reviews(m, rec) => Reviews(m, exec[a])
    OBVIOUS
  <2>2. answers[AuditOf(m)] = "none" /\ \A p \in Procs : ~Reviews(m, exec[p]) BY <2>1 DEF Agreed
  <2>3. QED BY <1>1, <2>1, <2>2, ProcsAreNoClients
<1>4. AuditOf(m)' = AuditOf(m) /\ ReviewOf[NextOf[m]]' = ReviewOf[NextOf[m]]
  BY DEF AuditOf, ReviewOf, NextOf
<1>5. QED BY <1>2, <1>3, <1>4 DEF Agreed, Sends, Reviews

LEMMA EarlyMoves ==
    ASSUME LegacyInv, NEW m \in 0..3, Early(m), NEW a \in Actors, NEW rec, Go(a, rec),
           Inside(rec, Span[m]), run'.stage \in Span[m],
           MayAdd(a),
           m = 0 \/ (app' \in LaterStages /\ (a \in Clients => rec.script \in Seq(Ends))),
           4 \notin versions',
           m = 3 \/ Agreed(m)',
           \A n \in Numbers : Knows(a, rec, n) => Known(n) \/ n = m
    PROVE  Early(m)'
<1>1. Within(Span[m])' BY WithinMoves DEF Early
<1>2. m = 0 \/ Quiet' BY QuietMoves DEF Early
<1>3. KnowsOnly({m})'
  <2> DEFINE S == {m}
  <2>1. KnowsOnly(S) /\ \A n \in Numbers : Knows(a, rec, n) => Known(n) \/ n \in S BY DEF Early
  <2> HIDE DEF S
  <2>2. KnowsOnly(S)' BY <2>1, KnowledgeMoves
  <2>3. QED BY <2>2 DEF S
<1>4. QED BY <1>1, <1>2, <1>3 DEF Early

LEMMA LateMoves ==
    ASSUME LegacyInv, Within(TailSpan), Quiet, KnowsOnly({3, 4, RepairVersion}),
           NEW a \in Actors, NEW rec, Go(a, rec),
           Inside(rec, TailSpan), run'.stage \in TailSpan, run'.stage # "V3_GENERATING",
           MayAdd(a),
           app' \in LaterStages, a \in Clients => rec.script \in Seq(Ends),
           3 \in versions',
           \A n \in Numbers : Knows(a, rec, n) => Known(n) \/ n \in {3, 4, RepairVersion}
    PROVE  Late'
<1>1. Within(TailSpan)' BY WithinMoves
<1>2. Quiet' BY QuietMoves
<1>3. KnowsOnly({3, 4, RepairVersion})'
  <2> DEFINE S == {3, 4, RepairVersion}
  <2>1. KnowsOnly(S) /\ \A n \in Numbers : Knows(a, rec, n) => Known(n) \/ n \in S OBVIOUS
  <2> HIDE DEF S
  <2>2. KnowsOnly(S)' BY <2>1, KnowledgeMoves
  <2>3. QED BY <2>2 DEF S
<1>4. QED BY <1>1, <1>2, <1>3 DEF Late

LEMMA RestingKnowsNothing ==
    ASSUME NEW rec, Resting(rec)
    PROVE  /\ rec.copy.pending = NoOperation
           /\ \A m, reviewed : Sends(m, rec, reviewed)
           /\ \A m : ~Reviews(m, rec)
BY RestingIs DEF Sends, Reviews, Resting

LEMMA CalmKeepsLines == ASSUME Lines, Calm PROVE Lines'
<1>1. /\ app' = app /\ answers' = answers /\ versions' = versions /\ run'.stage = run.stage
      /\ run'.payload.pending = run.payload.pending
  BY DEF Calm
<1>2. \A p \in Procs : Alike(exec'[p], exec[p]) \/ Resting(exec'[p])
  BY DEF Calm, ComesToRest, Actors
<1>3. \A n \in Numbers : Known(n)' => Known(n)
  <2> SUFFICES ASSUME NEW n \in Numbers, Known(n)' PROVE Known(n)
    OBVIOUS
  <2>1. CASE run'.payload.pending = Generate(n) BY <1>1, <2>1 DEF Known
  <2>2. ASSUME NEW p \in Procs, exec'[p].copy.pending = Generate(n) PROVE Known(n)
    <3>1. Alike(exec'[p], exec[p]) BY <1>2, <2>2, RestingKnowsNothing, GenerationsAreOperations
    <3>2. QED BY <2>2, <3>1 DEF Alike, Known
  <2>3. QED BY <2>1, <2>2 DEF Known
<1>4. \A S : KnowsOnly(S) => KnowsOnly(S)' BY <1>3 DEF KnowsOnly
<1>5. Quiet => Quiet'
  <2>1. <<>> \in Seq(Ends) OBVIOUS
  <2>2. \A c \in Clients : exec[c].script \in Seq(Ends) => exec'[c].script \in Seq(Ends)
    BY <2>1, RestingIs DEF Calm, ComesToRest, Actors, Alike
  <2>3. QED BY <1>1, <2>2 DEF Quiet
<1>6. ASSUME NEW m \in 0..3, Agreed(m) PROVE Agreed(m)'
  <2>1. ASSUME NEW p \in Procs PROVE Sends(m, exec'[p], answers[AuditOf(m)])
    <3>1. Sends(m, exec[p], answers[AuditOf(m)]) BY <1>6 DEF Agreed
    <3>2. CASE Alike(exec'[p], exec[p])
      <4>1. \A x : LacksFrom(exec'[p].script, x) = LacksFrom(exec[p].script, x) BY <3>2, AlikeIs
      <4>2. QED BY <3>1, <4>1 DEF Sends
    <3>3. CASE Resting(exec'[p]) BY <3>3, RestingKnowsNothing
    <3>4. QED BY <1>2, <3>2, <3>3
  <2>2. ASSUME NEW p \in Procs PROVE Reviews(m, exec'[p]) => Reviews(m, exec[p])
    <3>1. Alike(exec'[p], exec[p]) => exec'[p].pc = exec[p].pc /\ Stage(exec'[p]) = Stage(exec[p])
      BY AlikeIs DEF Alike
    <3>2. QED BY <1>2, <3>1, RestingKnowsNothing DEF Reviews
  <2>3. Agreed(m)' BY <1>1, <1>6, <2>1, <2>2 DEF Agreed, Sends, Reviews
  <2>4. QED BY <2>3
<1>7. ASSUME NEW m \in 0..3, Early(m) PROVE Early(m)'
  <2>1. Within(Span[m])' BY <1>7, CalmKeepsWithin DEF Early
  <2>2. QED BY <1>1, <1>4, <1>5, <1>6, <1>7, <2>1 DEF Early
<1>8. ASSUME Late PROVE Late'
  <2>1. Within(TailSpan)' BY <1>8, CalmKeepsWithin DEF Late
  <2>2. QED BY <1>1, <1>4, <1>5, <1>8, <2>1 DEF Late
<1>9. QED BY <1>7, <1>8 DEF Lines

LEMMA LinesHoldInitially == Init => Lines
<1> SUFFICES ASSUME Init PROVE Lines
  OBVIOUS
<1>1. PICK stage \in Starts :
         /\ run.stage = stage /\ run.payload = NoPayload /\ app = stage
         /\ \A j \in JobIds : jobs[j].state # "absent" => j[1] = stage
         /\ versions = IF stage = "RESEARCH_QUEUED" THEN {} ELSE {n \in 0..4 : n < VersionOf[stage]}
  BY StartsAt
<1>2. stage \in {"RESEARCH_QUEUED"} \cup GeneratingStages BY <1>1, LegacyAssumption
<1>3. \A a \in Actors : exec[a] = Idle BY DEF Init
<1>4. Resting(Idle) /\ NoJob[1] = "none" /\ Idle.script = <<>> /\ Idle.adds = NoJob /\ Idle.job = NoJob
  BY IdleRests DEF NoJob, Resting
<1>5. \A S : (\A a \in Actors : Inside(exec[a], S)) BY <1>3, <1>4 DEF Inside
<1>6. \A S : KnowsOnly(S)
  <2>1. \A p \in Procs : exec[p].copy.pending = NoOperation
    BY <1>3, <1>4, RestingKnowsNothing, ProcsAreNoClients
  <2>2. \A n \in Numbers : ~Known(n)
    BY <1>1, <2>1, NoPayloadIsAPayload, GenerationsAreOperations DEF Known
  <2>3. QED BY <2>2 DEF KnowsOnly
<1>7. stage \in LaterStages => Quiet
  <2>1. <<>> \in Seq(Ends) OBVIOUS
  <2>2. QED BY <1>1, <1>3, <1>4, <2>1, ProcsAreNoClients DEF Quiet
<1>8. ASSUME NEW m \in 0..3, run.stage # ReviewOf[NextOf[m]] PROVE Agreed(m)
  BY <1>3, <1>4, <1>8, RestingKnowsNothing, ProcsAreNoClients DEF Agreed
<1>9. ASSUME NEW m \in 0..3, stage \in Span[m], stage \in GeneratingStages \cup FrontStages
      PROVE  m = 3 \/ Agreed(m)
  <2>1. m # 3 => ReviewOf[NextOf[m]] \in ReviewStages \ {"RESEARCH_REVIEW_REQUIRED"}
    <3>1. m \in {0, 1, 2, 3} OBVIOUS
    <3>2. QED BY <3>1, Tables, AuditTables DEF ReviewStages
  <2>2. stage \notin ReviewStages \ {"RESEARCH_REVIEW_REQUIRED"}
    BY <1>9 DEF ReviewStages, GeneratingStages, FrontStages
  <2>3. QED BY <1>1, <1>8, <2>1, <2>2
<1>10. ASSUME NEW m \in 0..3, stage \in Span[m], stage \in GeneratingStages \cup FrontStages,
              4 \notin versions, m = 0 \/ stage \in LaterStages
       PROVE  Early(m)
  <2>1. Within(Span[m]) BY <1>1, <1>5, <1>10 DEF Within
  <2>2. QED BY <1>6, <1>7, <1>9, <1>10, <2>1 DEF Early
<1>11. CASE stage = "RESEARCH_QUEUED"
  <2>1. stage \in Span[0] /\ stage \in FrontStages /\ 4 \notin versions
    BY <1>1, <1>11, Spans DEF FirstStages, FrontStages
  <2>2. QED BY <1>10, <2>1 DEF Lines
<1>12. CASE stage \in GeneratingStages
  <2>1. stage \in LaterStages
    BY <1>12, StagesAreStages DEF LaterStages, GeneratingStages, FrontStages
  <2>2. VersionOf[stage] \in 0..4 /\ versions = {n \in 0..4 : n < VersionOf[stage]}
    BY <1>1, <1>12, StagesOfTables DEF GeneratingStages
  <2>3. 4 \notin versions BY <2>2
  <2>4. CASE stage = "V4_GENERATING"
    <3>1. stage \in TailSpan /\ 3 \in versions /\ stage # "V3_GENERATING"
      BY <2>2, <2>4, Tables DEF TailSpan
    <3>2. Within(TailSpan) BY <1>1, <1>5, <3>1 DEF Within
    <3>3. QED BY <1>1, <1>6, <1>7, <2>1, <3>1, <3>2 DEF Lines, Late
  <2>5. CASE stage # "V4_GENERATING"
    <3>1. PICK m \in 0..3 : stage \in Span[m]
      <4>1. \/ stage = "V0_GENERATING" \/ stage = "V1_GENERATING" \/ stage = "V2_GENERATING"
            \/ stage = "V3_GENERATING"
        BY <1>12, <2>5 DEF GeneratingStages
      <4>2. {0, 1, 2, 3} \subseteq 0..3 OBVIOUS
      <4>3. QED BY <4>1, <4>2, Spans DEF FirstStages
    <3>2. QED BY <1>10, <1>12, <2>1, <2>3, <3>1 DEF Lines
  <2>6. QED BY <2>4, <2>5
<1>13. QED BY <1>2, <1>11, <1>12

LEMMA AnswerExpiresKeepsLines ==
    ASSUME LegacyInv, Lines, NEW op \in Operations, AnswerExpires(op) PROVE Lines'
<1> USE DEF AnswerExpires, At
<1>1. /\ UNCHANGED <<run, jobs, exec, app, versions>> /\ answers \in [Operations -> AllAnswers]
      /\ \A o \in Operations : answers'[o] = answers[o] \/ answers'[o] = "none"
  BY TypesOfLegacyInv DEF RowsTypeOK
<1>2. \A p \in Procs : Resting(exec[p])
  BY ActorIsTyped, ProcsAreNoClients DEF Shape, Resting, BodyPcs
<1>3. ASSUME NEW m \in 0..3, Agreed(m) PROVE Agreed(m)'
  <2>1. AuditOf(m) \in Operations BY DEF AuditOf, Operations
  <2>2. \A p \in Procs : ~Reviews(m, exec[p]) BY <1>2, RestingKnowsNothing
  <2>3. \A p \in Procs : Sends(m, exec[p], answers'[AuditOf(m)]) BY <1>2, RestingKnowsNothing
  <2>4. run.stage = ReviewOf[NextOf[m]] => answers[AuditOf(m)] \in {"done", "none"}
    BY <1>3 DEF Agreed
  <2>5. run.stage = ReviewOf[NextOf[m]] => answers'[AuditOf(m)] \in {"done", "none"}
    BY <1>1, <2>1, <2>4
  <2>6. QED BY <1>1, <2>2, <2>3, <2>5 DEF Agreed, Sends, Reviews
<1> HIDE DEF AnswerExpires
<1>4. \A S : Within(S) => Within(S)' BY <1>1 DEF Within
<1>5. (Quiet => Quiet') /\ \A S : KnowsOnly(S) => KnowsOnly(S)' BY <1>1 DEF Quiet, KnowsOnly, Known
<1>6. ASSUME NEW m \in 0..3, Early(m) PROVE Early(m)'
  <2>1. Within(Span[m])' BY <1>4, <1>6 DEF Early
  <2>2. QED BY <1>1, <1>3, <1>5, <1>6, <2>1 DEF Early
<1>7. Late => Late' BY <1>1, <1>4, <1>5 DEF Late
<1>8. QED BY <1>6, <1>7 DEF Lines

-----------------------------------------------------------------------------
(* Steps that leave the run where it is.                                    *)

LEMMA ReviewTables ==
    \A m \in 0..3 :
       /\ NextOf[m] \in AuditStages /\ AuditOf(m) \in Operations
       /\ ReviewOf[NextOf[m]] \in ReviewStages \ {"RESEARCH_REVIEW_REQUIRED"}
       /\ ReviewOf[NextOf[m]] \notin WorkStages
<1> SUFFICES ASSUME NEW m \in 0..3
             PROVE  /\ NextOf[m] \in AuditStages /\ AuditOf(m) \in Operations
                    /\ ReviewOf[NextOf[m]] \in ReviewStages \ {"RESEARCH_REVIEW_REQUIRED"}
                    /\ ReviewOf[NextOf[m]] \notin WorkStages
  OBVIOUS
<1>1. m \in {0, 1, 2, 3} OBVIOUS
<1>2. NextOf[m] \in AuditStages /\ ReviewOf[NextOf[m]] \in ReviewStages \ {"RESEARCH_REVIEW_REQUIRED"}
  BY <1>1, Tables, AuditTables DEF AuditStages, ReviewStages
<1>3. ReviewOf[NextOf[m]] \notin WorkStages
  BY <1>2 DEF ReviewStages, WorkStages, QueuedStages, GeneratingStages, RunningStages, AuditStages
<1>4. AuditOf(m) \in Operations BY DEF AuditOf, Operations
<1>5. QED BY <1>2, <1>3, <1>4

LEMMA StagesInLine ==
    ASSUME LegacyInv, NEW p \in Procs, exec[p].pc # "idle"
    PROVE  /\ \A m \in 0..3 : Early(m) => Stage(exec[p]) \in Span[m]
           /\ Late => Stage(exec[p]) \in TailSpan
<1>1. p \in Actors /\ exec[p].job[1] \in WorkStages /\ "none" \notin WorkStages
  BY ProcsAreNoClients, DeliveryHasAJob
  DEF WorkStages, QueuedStages, GeneratingStages, RunningStages, AuditStages
<1>2. \A S : Within(S) => exec[p].job[1] \in S BY <1>1 DEF Within, Inside
<1>3. ASSUME NEW S, exec[p].job[1] \in S, "RESEARCH_QUEUED" \in S => "RESEARCH_RUNNING" \in S
      PROVE  Stage(exec[p]) \in S
  BY <1>3 DEF Stage, RunningCounterpart
<1>4. ASSUME NEW m \in 0..3 PROVE "RESEARCH_QUEUED" \in Span[m] => "RESEARCH_RUNNING" \in Span[m]
  <2>1. m \in {0, 1, 2, 3} OBVIOUS
  <2>2. QED BY <2>1, Spans DEF FirstStages, FrontStages
<1>5. "RESEARCH_QUEUED" \notin TailSpan BY DEF TailSpan
<1>6. QED BY <1>2, <1>3, <1>4, <1>5 DEF Early, Late

\* Under generation, a body is about the version of its line.
LEMMA GenerationsInLine ==
    ASSUME LegacyInv, NEW p \in Procs, exec[p].pc \in BodyPcs, Generating(exec[p]),
           NEW n \in Numbers, exec[p].op = Generate(n)
    PROVE  /\ \A m \in 0..3 : Early(m) => n = m
           /\ Late => n \in {3, 4, RepairVersion}
<1>1. Stage(exec[p]) \in GeneratingStages /\ OpFits(exec[p]) /\ exec[p].pc # "idle"
      /\ (exec[p].op = Repair => 4 \in versions)
  BY InBody DEF Generating
<1>2. exec[p].op \in {Generate(VersionOf[Stage(exec[p])]), Repair}
  BY <1>1, GenerationsAreOperations DEF OpFits, OpsOf, Generate
<1>3. n = VersionOf[Stage(exec[p])] \/ (n = RepairVersion /\ 4 \in versions)
  BY <1>1, <1>2, GenerationsAreOperations
<1>4. \A m \in 0..3 : Early(m) => n = m BY <1>1, <1>3, StagesInLine, Spaces DEF Early
<1>5. Late => n \in {3, 4, RepairVersion} BY <1>1, <1>3, StagesInLine, TailSpaces
<1>6. QED BY <1>4, <1>5

LEMMA LaterIsQuiet == ASSUME Later PROVE Quiet /\ FromGeneration /\ app \in LaterStages
<1>1. Quiet /\ \E S : Within(S) /\ S \subseteq LaterStages
  <2>1. CASE Late BY <2>1, TailSpaces DEF Late
  <2>2. ASSUME NEW m \in 1..3, Early(m) PROVE Quiet /\ \E S : Within(S) /\ S \subseteq LaterStages
    BY <2>2, Spaces DEF Early
  <2>3. QED BY <2>1, <2>2 DEF Later
<1>2. PICK S : Within(S) /\ S \subseteq LaterStages BY <1>1
<1>3. Within(LaterStages) BY <1>2 DEF Within, Inside
<1>4. QED BY <1>1, <1>3 DEF FromGeneration, Quiet

LEMMA LinesStay ==
    ASSUME LegacyInv, Lines, NEW a \in Actors, NEW rec, Go(a, rec), rec.job = exec[a].job,
           rec.adds[1] \in {exec[a].adds[1], run.stage, "none"},
           run'.stage = run.stage \/ (run.stage = "RESEARCH_QUEUED" /\ run'.stage = "RESEARCH_RUNNING"),
           MayAdd(a),
           versions \subseteq versions',
           4 \in versions' =>
              4 \in versions \/ (a \in Procs /\ exec[a].pc # "idle" /\ Stage(exec[a]) = "V4_GENERATING"),
           Later => app' \in LaterStages /\ (a \in Clients => rec.script \in Seq(Ends)),
           \A m \in 0..2 :
              /\ Early(m) /\ a \in Procs => Sends(m, rec, answers'[AuditOf(m)])
              /\ \/ answers'[AuditOf(m)] = answers[AuditOf(m)]
                 \/ answers[AuditOf(m)] = "none" /\ a \in Procs /\ Reviews(m, exec[a])
              /\ run.stage = ReviewOf[NextOf[m]] /\ a \in Procs /\ Reviews(m, rec) => Reviews(m, exec[a]),
           \A n \in Numbers : Knows(a, rec, n) => Known(n) \/ Makes(a, n)
    PROVE  Lines'
<1>1. ASSUME NEW S, Within(S) PROVE Inside(rec, S) BY <1>1 DEF Within, Inside
<1>2. ASSUME NEW m \in 0..3, Early(m) PROVE Early(m)'
  <2>1. Inside(rec, Span[m]) /\ run.stage \in Span[m] BY <1>1, <1>2 DEF Early, Within
  <2>2. run'.stage \in Span[m]
    <3>1. run.stage = "RESEARCH_QUEUED" => m = 0 BY <2>1, Spaces DEF LaterStages, FrontStages
    <3>2. QED BY <2>1, <3>1, Spans DEF FirstStages, FrontStages
  <2>3. 4 \notin versions'
    <3>1. a \in Procs /\ exec[a].pc # "idle" => Stage(exec[a]) \in Span[m] BY <1>2, StagesInLine
    <3>2. "V4_GENERATING" \notin Span[m] /\ 4 \notin versions BY <1>2, Spaces DEF Early
    <3>3. QED BY <3>1, <3>2
  <2>4. m = 0 \/ (app' \in LaterStages /\ (a \in Clients => rec.script \in Seq(Ends)))
    BY <1>2 DEF Later
  <2>5. m = 3 \/ Agreed(m)'
    <3> SUFFICES ASSUME m # 3 PROVE Agreed(m)'
      OBVIOUS
    <3>1. m \in 0..2 /\ Agreed(m) BY <1>2 DEF Early
    <3>2. a \in Procs => Sends(m, rec, answers'[AuditOf(m)]) BY <1>2, <3>1
    <3>3. \/ answers'[AuditOf(m)] = answers[AuditOf(m)]
          \/ answers[AuditOf(m)] = "none" /\ a \in Procs /\ Reviews(m, exec[a])
      BY <3>1
    <3>4. run'.stage = ReviewOf[NextOf[m]] => run.stage = ReviewOf[NextOf[m]]
      <4>1. "RESEARCH_RUNNING" \in WorkStages BY DEF WorkStages, RunningStages
      <4>2. QED BY <4>1, ReviewTables
    <3>5. run.stage = ReviewOf[NextOf[m]] /\ a \in Procs /\ Reviews(m, rec) => Reviews(m, exec[a])
      BY <3>1
    <3>6. QED BY <3>1, <3>2, <3>3, <3>4, <3>5, AgreementMoves
  <2>6. \A n \in Numbers : Knows(a, rec, n) => Known(n) \/ n = m
    BY <1>2, GenerationsInLine DEF Makes
  <2>7. QED BY <1>2, <2>1, <2>2, <2>3, <2>4, <2>5, <2>6, EarlyMoves
<1>3. ASSUME Late PROVE Late'
  <2>1. Inside(rec, TailSpan) /\ run.stage \in TailSpan /\ run.stage # "V3_GENERATING" /\ 3 \in versions
        /\ Later
    BY <1>1, <1>3 DEF Late, Within, Later
  <2>2. run'.stage = run.stage BY <2>1 DEF TailSpan
  <2>3. \A n \in Numbers : Knows(a, rec, n) => Known(n) \/ n \in {3, 4, RepairVersion}
    BY <1>3, GenerationsInLine DEF Makes
  <2>4. QED BY <1>3, <2>1, <2>2, <2>3, LateMoves DEF Late
<1>4. QED BY <1>2, <1>3 DEF Lines

\* What a body that goes on takes with it.
LEMMA BodyStaysInLine ==
    ASSUME LegacyInv, Lines, NEW p \in Procs, exec[p].pc \in BodyPcs, NEW rec, Go(p, rec),
           rec.job = exec[p].job, rec.adds = exec[p].adds, rec.script = <<>>,
           rec.copy.pending = exec[p].copy.pending \/ rec.copy.pending \in {run.payload.pending, NoOperation},
           run'.stage = run.stage, UNCHANGED <<jobs, app, answers>>,
           versions \subseteq versions',
           4 \in versions' => 4 \in versions \/ Stage(exec[p]) = "V4_GENERATING",
           \A n \in Numbers :
              run'.payload.pending = Generate(n) => Known(n) \/ Makes(p, n)
    PROVE  Lines'
<1>1. p \in Actors /\ p \notin Clients /\ exec[p].pc # "idle" BY InBody, ProcsAreNoClients
<1>2. \A m, reviewed : Sends(m, rec, reviewed) BY DEF Sends, LacksFrom
<1>3. \A m : Reviews(m, rec) => Reviews(m, exec[p]) BY DEF Reviews, Stage
<1>4. \A n \in Numbers : Knows(p, rec, n) => Known(n) \/ Makes(p, n)
  BY GenerationsAreOperations DEF Knows, Known
<1>5. Later => app' \in LaterStages BY LaterIsQuiet
<1>6. QED BY <1>1, <1>2, <1>3, <1>4, <1>5, LinesStay

\* What a body leaves behind it as it ends.
LEMMA EndStaysInLine ==
    ASSUME LegacyInv, Lines, NEW p \in Procs, exec[p].pc # "idle", NEW script, NEW copy,
           Go(p, Then(p, script, copy)),
           copy.pending \in {NoOperation, run.payload.pending, exec[p].copy.pending},
           run'.payload.pending \in {NoOperation, run.payload.pending, exec[p].copy.pending},
           run'.stage = run.stage, UNCHANGED <<jobs, answers, versions>>,
           Later => app' \in LaterStages,
           \A m \in 0..2 :
              /\ LacksFrom(script, <<"move", ProducerOf[NextOf[m]]>>) \/ answers[AuditOf(m)] = "mismatched"
              /\ LacksFrom(script, <<"move", ReviewOf[NextOf[m]]>>) \/ answers[AuditOf(m)] = "done"
    PROVE  Lines'
<1> DEFINE rec == Then(p, script, copy)
<1>1. p \in Actors /\ p \notin Clients BY ProcsAreNoClients
<1>2. /\ Go(p, rec) /\ rec.pc = "script" /\ rec.job = exec[p].job /\ rec.adds = NoJob
      /\ rec.script = script /\ rec.copy = copy /\ NoJob[1] = "none"
  BY ThenIs DEF NoJob
<1> HIDE DEF rec
<1>3. \A m \in 0..2 : Sends(m, rec, answers[AuditOf(m)]) BY <1>2 DEF Sends
<1>4. \A m : ~Reviews(m, rec) BY <1>2 DEF Reviews, BodyPcs
<1>5. \A n \in Numbers : Knows(p, rec, n) => Known(n)
  BY <1>2, GenerationsAreOperations DEF Knows, Known
<1>6. \A m \in 0..2 : AuditOf(m)' = AuditOf(m) BY DEF AuditOf
<1>7. QED BY <1>1, <1>2, <1>3, <1>4, <1>5, LinesStay

\* What an activity that works off its script does beside it.
LEMMA SpeakingStaysInLine ==
    ASSUME LegacyInv, Lines, NEW a \in Actors, exec[a].pc \in {"script", "enqueue"},
           NEW rec, Go(a, rec), SpeaksOn(rec, exec[a]), rec.adds \in {NoJob, exec[a].adds},
           MayAdd(a),
           UNCHANGED <<run, answers, versions>>, Later => app' \in LaterStages
    PROVE  Lines'
<1>1. /\ rec.job = exec[a].job /\ rec.copy = exec[a].copy /\ rec.pc \in {"script", "enqueue"}
      /\ NoJob[1] = "none"
  BY DEF SpeaksOn, NoJob
<1>2. \A x : LacksFrom(exec[a].script, x) => LacksFrom(rec.script, x) BY SpeakingOnIs
<1>3. ASSUME NEW m \in 0..2, Early(m), a \in Procs PROVE Sends(m, rec, answers[AuditOf(m)])
  <2>1. Sends(m, exec[a], answers[AuditOf(m)]) BY <1>3 DEF Early, Agreed
  <2>2. QED BY <1>2, <2>1 DEF Sends
<1>4. \A m : ~Reviews(m, rec) BY <1>1 DEF Reviews, BodyPcs
<1>5. \A n \in Numbers : Knows(a, rec, n) => Known(n) BY <1>1 DEF Knows, Known
<1>6. Later /\ a \in Clients => rec.script \in Seq(Ends) BY SpeakingOnIs, LaterIsQuiet DEF Quiet
<1>7. QED BY <1>1, <1>3, <1>4, <1>5, <1>6, LinesStay

-----------------------------------------------------------------------------
(* The bodies keep the line of the run.                                     *)

LEMMA BodyGoesInLine ==
    ASSUME LegacyInv, Lines, NEW p \in Procs, exec[p].pc \in BodyPcs, NEW pc,
           Go(p, [exec[p] EXCEPT !.pc = pc]), run'.stage = run.stage, UNCHANGED <<jobs, app, answers>>,
           versions \subseteq versions',
           4 \in versions' => 4 \in versions \/ Stage(exec[p]) = "V4_GENERATING",
           \A n \in Numbers : run'.payload.pending = Generate(n) => Known(n) \/ Makes(p, n)
    PROVE  Lines'
<1> DEFINE rec == [exec[p] EXCEPT !.pc = pc]
<1>1. /\ Go(p, rec) /\ rec.job = exec[p].job /\ rec.adds = exec[p].adds /\ rec.script = <<>>
      /\ rec.copy = exec[p].copy
  BY InBody DEF Activity
<1> HIDE DEF rec
<1>2. QED BY <1>1, BodyStaysInLine

LEMMA FailedQaMoves == \A s : LacksFrom(FailedQa, <<"move", s>>)
<1> SUFFICES ASSUME NEW s PROVE LacksFrom(FailedQa, <<"move", s>>)
  OBVIOUS
<1>1. /\ <<"put", "FINAL_QA_FAILED">> \in Instructions /\ <<"app", "FINAL_QA_FAILED">> \in Instructions
      /\ <<"end", "permanent">> \in Instructions
  BY StagesAreStages DEF Instructions
<1>2. QED BY <1>1, LacksThree DEF FailedQa

\* Steps that touch neither the stage nor the payload of the run, nor the versions.
LEMMA QuietStepsKeepLines ==
    ASSUME LegacyInv, Lines, NEW p \in Procs,
           \/ Reserve(p) \/ LookUpVersion(p) \/ SetCurrent(p) \/ RecordAudit(p) \/ RecordFindings(p)
    PROVE  Lines'
<1> USE DEF Reserve, LookUpVersion, SetCurrent, RecordAudit, RecordFindings, At
<1>1. exec[p].pc \in BodyPcs BY DEF BodyPcs
<1>2. UNCHANGED <<run, jobs, app, answers, versions>> BY DEF rows
<1>3. PICK pc : Go(p, [exec[p] EXCEPT !.pc = pc]) OBVIOUS
<1>4. \A n \in Numbers : run'.payload.pending = Generate(n) => Known(n) BY <1>2 DEF Known
<1>5. QED BY <1>1, <1>2, <1>3, <1>4, BodyGoesInLine

LEMMA CommitKeepsLines == ASSUME LegacyInv, Lines, NEW p \in Procs, Commit(p) PROVE Lines'
<1> USE DEF Commit, At
<1>1. exec[p].pc \in BodyPcs /\ exec[p].pc # "idle" /\ p \in Actors BY InBody DEF BodyPcs
<1>2. UNCHANGED <<run, jobs, app, answers, versions>> OBVIOUS
<1>3. CASE ledger[exec[p].op] = "released"
  <2>1. Calm BY <1>1, <1>3, ThrownIsCalm
  <2>2. QED BY <2>1, CalmKeepsLines
<1>4. CASE ledger[exec[p].op] # "released"
  <2>1. PICK pc : Go(p, [exec[p] EXCEPT !.pc = pc]) BY <1>4
  <2>2. \A n \in Numbers : run'.payload.pending = Generate(n) => Known(n) BY <1>2 DEF Known
  <2>3. QED BY <1>1, <1>2, <2>1, <2>2, BodyGoesInLine
<1>5. QED BY <1>3, <1>4

LEMMA WritesBackKeepLines ==
    ASSUME LegacyInv, Lines, NEW p \in Procs,
           PersistBackend(p) \/ Park(p) \/ NoteVersion(p)
    PROVE  Lines'
<1> USE DEF PersistBackend, Park, NoteVersion, At
<1>1. exec[p].pc \in BodyPcs BY DEF BodyPcs
<1>2. exec[p].copy \in Payload /\ run \in Run /\ exec[p].pc \in PcsOf(Stage(exec[p]))
  BY <1>1, InBody, TypesOfLegacyInv
<1>3. UNCHANGED <<jobs, app, answers, versions>> BY DEF rows
<1>4. /\ [exec[p].copy EXCEPT !.backend = TRUE].pending = exec[p].copy.pending
      /\ [exec[p].copy EXCEPT !.pending = exec[p].op].pending = exec[p].op
  BY <1>2 DEF Payload
<1>5. run'.stage = run.stage BY <1>2 DEF Run
<1>6. \/ run'.payload.pending \in {run.payload.pending, exec[p].copy.pending}
      \/ exec[p].pc = "park" /\ run'.payload.pending = exec[p].op
  BY <1>2, <1>4 DEF Run
<1>7. exec[p].pc = "park" => Generating(exec[p]) BY <1>2 DEF PcsOf, Generating
<1>8. \A n \in Numbers : run'.payload.pending = Generate(n) => Known(n) \/ Makes(p, n)
  BY <1>1, <1>6, <1>7 DEF Known, Makes
<1>9. PICK pc : Go(p, [exec[p] EXCEPT !.pc = pc]) OBVIOUS
<1>10. QED BY <1>1, <1>3, <1>5, <1>8, <1>9, BodyGoesInLine

LEMMA AppendVersionKeepsLines ==
    ASSUME LegacyInv, Lines, NEW p \in Procs, AppendVersion(p) PROVE Lines'
<1> USE DEF AppendVersion, At
<1>1. /\ exec[p].pc = "append" /\ exec[p].pc \in BodyPcs
      /\ exec[p].op \in OpsOf(Stage(exec[p])) /\ Stage(exec[p]) \in BodyStages
  BY InBody, BodyHasAnOperation DEF BodyPcs
<1>2. Stage(exec[p]) \in GeneratingStages BY <1>1, InBody DEF PcsOf
<1>3. 4 \in versions' => 4 \in versions \/ Stage(exec[p]) = "V4_GENERATING"
  BY <1>1, <1>2, OpsOfStages DEF Number
<1>4. \A n \in Numbers : run'.payload.pending = Generate(n) => Known(n) BY DEF Known
<1>5. QED BY <1>1, <1>3, <1>4, BodyGoesInLine

LEMMA CheckLocallyKeepsLines ==
    ASSUME LegacyInv, Lines, NEW p \in Procs, CheckLocally(p) PROVE Lines'
<1> USE DEF CheckLocally, At
<1>1. exec[p].pc \in BodyPcs /\ exec[p] \in Activity /\ exec[p].script = <<>> /\ exec[p].pc # "idle"
  BY InBody DEF BodyPcs
<1>2. UNCHANGED <<run, jobs, app, answers, versions>> BY DEF rows
<1>3. CASE Go(p, [exec[p] EXCEPT !.pc = "reserve",
                                 !.op = OperationAt("FINAL_QA_RUNNING", FALSE, Latest)])
  <2> DEFINE rec == [exec[p] EXCEPT !.pc = "reserve",
                                    !.op = OperationAt("FINAL_QA_RUNNING", FALSE, Latest)]
  <2>1. /\ Go(p, rec) /\ rec.job = exec[p].job /\ rec.adds = exec[p].adds /\ rec.script = <<>>
        /\ rec.copy = exec[p].copy
    BY <1>1, <1>3 DEF Activity
  <2> HIDE DEF rec
  <2>2. \A n \in Numbers : run'.payload.pending = Generate(n) => Known(n) BY <1>2 DEF Known
  <2>3. QED BY <1>1, <1>2, <2>1, <2>2, BodyStaysInLine
<1>4. CASE Go(p, Then(p, FailedQa, exec[p].copy))
  <2> DEFINE copy == exec[p].copy
  <2>1. Go(p, Then(p, FailedQa, copy)) BY <1>4
  <2>2. copy.pending = exec[p].copy.pending OBVIOUS
  <2> HIDE DEF copy
  <2>3. \A s : LacksFrom(FailedQa, <<"move", s>>) BY FailedQaMoves
  <2>4. Later => app' \in LaterStages BY <1>2, LaterIsQuiet
  <2>5. QED BY <1>1, <1>2, <2>1, <2>2, <2>3, <2>4, EndStaysInLine
<1>5. QED BY <1>3, <1>4

-----------------------------------------------------------------------------
(* The ends of the bodies keep the line of the run.                         *)

LEMMA SilentEndStaysInLine ==
    ASSUME LegacyInv, Lines, NEW p \in Procs, exec[p].pc # "idle", NEW script, NEW copy,
           Go(p, Then(p, script, copy)), NoMoves(script),
           copy.pending \in {NoOperation, run.payload.pending, exec[p].copy.pending},
           run'.payload.pending \in {NoOperation, run.payload.pending, exec[p].copy.pending},
           run'.stage = run.stage, UNCHANGED <<jobs, app, answers, versions>>
    PROVE  Lines'
<1>1. \A m \in 0..2 : /\ LacksFrom(script, <<"move", ProducerOf[NextOf[m]]>>)
                      /\ LacksFrom(script, <<"move", ReviewOf[NextOf[m]]>>)
  BY DEF NoMoves
<1>2. Later => app' \in LaterStages BY LaterIsQuiet
<1>3. QED BY <1>1, <1>2, EndStaysInLine

LEMMA ExtractKeepsLines == ASSUME LegacyInv, Lines, NEW p \in Procs, Extract(p) PROVE Lines'
<1> USE DEF Extract, At
<1>1. /\ exec[p].pc = "extract" /\ exec[p].pc \in BodyPcs /\ exec[p].pc # "idle" /\ p \in Actors
  BY InBody DEF BodyPcs
<1>2. Stage(exec[p]) = "RESEARCH_RUNNING" /\ UNCHANGED <<run, jobs, answers, versions>>
  BY <1>1, InBody DEF PcsOf
<1>3. ~Later BY <1>1, <1>2, StagesOfLineage, LaterIsQuiet
<1>4. CASE app' = app /\ Go(p, GoesOn(p))
  <2>1. CASE Calm BY <2>1, CalmKeepsLines
  <2>2. CASE ~Calm
    <3>1. Go(p, [exec[p] EXCEPT !.pc = "reserve"]) BY <1>1, <1>4, <2>2, ExtractGoesOn
    <3>2. \A n \in Numbers : run'.payload.pending = Generate(n) => Known(n) BY <1>2 DEF Known
    <3>3. QED BY <1>1, <1>2, <1>4, <3>1, <3>2, BodyGoesInLine
  <2>3. QED BY <2>1, <2>2
<1>5. CASE Go(p, Pauses(p))
  <2> DEFINE a == <<"pause", "RESEARCH_REVIEW_REQUIRED">>
             z == <<"end", "resolved">>
             script == <<a, z>>
  <2>1. a \in Instructions /\ z \in Instructions BY DEF Instructions, Stages, ReviewStages
  <2>2. \A s : a # <<"move", s>> /\ z # <<"move", s>> OBVIOUS
  <2>3. Go(p, Then(p, script, NoPayload)) BY <1>5 DEF Pauses
  <2> HIDE DEF a, z
  <2>4. \A s : LacksFrom(script, <<"move", s>>) BY <2>1, <2>2, LacksTwo
  <2> HIDE DEF script
  <2>5. NoPayload.pending = NoOperation BY NoPayloadIsAPayload
  <2>6. QED BY <1>1, <1>2, <1>3, <2>3, <2>4, <2>5, EndStaysInLine
<1>6. QED BY <1>4, <1>5

LEMMA RereadRunKeepsLines ==
    ASSUME LegacyInv, Lines, NEW p \in Procs, RereadRun(p) PROVE Lines'
<1> USE DEF RereadRun, At
<1>1. exec[p] \in Activity /\ exec[p].script = <<>> /\ exec[p].pc \in BodyPcs BY InBody DEF BodyPcs
<1> DEFINE rec == [exec[p] EXCEPT !.pc = "note", !.copy = run.payload]
<1>2. /\ Go(p, rec) /\ rec.job = exec[p].job /\ rec.adds = exec[p].adds /\ rec.script = <<>>
      /\ rec.copy.pending = run.payload.pending
  BY <1>1 DEF Activity
<1> HIDE DEF rec
<1>3. \A n \in Numbers : run'.payload.pending = Generate(n) => Known(n) BY DEF Known
<1>4. QED BY <1>1, <1>2, <1>3, BodyStaysInLine DEF rows

LEMMA BecomesReadyKeepsLines ==
    ASSUME LegacyInv, Lines, NEW p \in Procs, BecomesReady(p) PROVE Lines'
<1>1. PICK copy : GoesOnWith(p, copy) BY BecomesReadyIs
<1>2. copy.pending = NoOperation BY <1>1 DEF GoesOnWith
<1>3. ASSUME NEW script, Go(p, Then(p, script, copy)), NoMoves(script) PROVE Lines'
  BY <1>2, <1>3, BecomesReadyIs, SilentEndStaysInLine
<1>4. ASSUME NEW rec, Go(p, rec), rec.copy = copy, rec.job = exec[p].job, rec.adds = exec[p].adds,
             rec.script = <<>>
      PROVE  Lines'
  <2>1. \A n \in Numbers : run'.payload.pending = Generate(n) => Known(n)
    BY BecomesReadyIs DEF Known
  <2>2. QED BY <1>2, <1>4, <2>1, BecomesReadyIs, BodyStaysInLine
<1>5. QED BY <1>1, <1>3, <1>4 DEF GoesOnWith

LEMMA StartNextKeepsLines == ASSUME LegacyInv, Lines, NEW p \in Procs, StartNext(p) PROVE Lines'
BY StartNextIs, SilentEndStaysInLine

LEMMA ResumesKeepsLines == ASSUME LegacyInv, Lines, NEW p \in Procs, Resumes(p) PROVE Lines'
<1> USE DEF Resumes, At
<1>1. /\ p \in Actors /\ p \notin Clients /\ exec[p].pc = "script" /\ exec[p] \in Activity
  BY ProcsAreNoClients, InScript
<1> DEFINE rec == [exec[p] EXCEPT !.pc = "next", !.script = <<>>]
<1>2. /\ Go(p, rec) /\ rec.job = exec[p].job /\ rec.adds = exec[p].adds /\ rec.script = <<>>
      /\ rec.copy = exec[p].copy /\ rec.pc = "next" /\ UNCHANGED <<run, jobs, app, answers, versions>>
  BY <1>1 DEF Activity, rows
<1> HIDE DEF rec
<1>3. Stage(exec[p]) \in GeneratingStages /\ Stage(rec) = Stage(exec[p])
  <2>1. exec[p].script # <<>> /\ Head(exec[p].script) \in Allowed(exec[p]) BY <1>1, InScript
  <2>2. Head(exec[p].script)[1] = "next" OBVIOUS
  <2>3. Head(exec[p].script) \notin Ends \cup Givings BY <2>2 DEF Ends, Givings
  <2>4. Head(exec[p].script) \in After(Stage(exec[p])) BY <2>1, <2>3 DEF Allowed
  <2>5. Stage(exec[p]) \in BodyStages \cup {"none"} BY <1>1, AllowedIsInstructions
  <2>6. Stage(exec[p]) \in GeneratingStages BY <2>2, <2>4, <2>5, AfterIsInstructions
  <2>7. QED BY <1>2, <2>6 DEF Stage
<1>4. \A m \in 0..3 : ~Reviews(m, rec)
  BY <1>3, ReviewTables DEF Reviews, AuditStages, GeneratingStages
<1>5. \A m, reviewed : Sends(m, rec, reviewed) BY <1>2 DEF Sends, LacksFrom
<1>6. \A n \in Numbers : Knows(p, rec, n) => Known(n) BY <1>2 DEF Knows, Known
<1>7. \A m \in 0..2 : ~Reviews(m, rec) BY <1>4
<1>8. Later => app' \in LaterStages BY <1>2, LaterIsQuiet
<1>9. QED BY <1>1, <1>2, <1>5, <1>6, <1>7, <1>8, LinesStay

LEMMA GiveUpKeepsLines == ASSUME LegacyInv, Lines, NEW p \in Procs, GiveUp(p) PROVE Lines'
<1> USE DEF GiveUp, At
<1>1. exec[p].pc # "idle" /\ p \in Actors /\ p \notin Clients
      /\ UNCHANGED <<run, jobs, app, ledger, answers, versions>>
  BY ProcsAreNoClients DEF rows
<1>2. CASE run.stage = "FAILED" \/ run.status = "failed"
  <2>1. Go(p, Rest(p, "resolved")) /\ "resolved" \in RestPcs BY <1>2 DEF RestPcs
  <2>2. Calm BY <1>1, <2>1, PlainRestIsCalm
  <2>3. QED BY <2>2, CalmKeepsLines
<1>3. CASE ~(run.stage = "FAILED" \/ run.status = "failed")
  <2> DEFINE a == <<"refund", "run">>
             b == <<"put", "FAILED">>
             c == <<"app", "FAILED">>
             z == <<"end", "resolved">>
             script == <<a, b, c, z>>
             rec == [Then(p, script, run.payload) EXCEPT !.giving = TRUE]
  <2>1. a \in Instructions /\ b \in Instructions /\ c \in Instructions /\ z \in Instructions
    BY DEF Instructions, Stages, TerminalStages
  <2>2. \A s : /\ a # <<"move", s>> /\ b # <<"move", s>> /\ c # <<"move", s>> /\ z # <<"move", s>>
    OBVIOUS
  <2>3. Go(p, rec) BY <1>3
  <2> HIDE DEF a, b, c, z
  <2>4. \A s : LacksFrom(script, <<"move", s>>) BY <2>1, <2>2, LacksFour
  <2> HIDE DEF script
  <2>5. /\ rec.pc = "script" /\ rec.job = exec[p].job /\ rec.adds = NoJob
        /\ rec.script = script /\ rec.copy = run.payload /\ NoJob[1] = "none"
    BY DEF Then, Rest, Idle, NoJob
  <2> HIDE DEF rec
  <2>6. (\A m : ~Reviews(m, rec)) /\ \A m, reviewed : Sends(m, rec, reviewed)
    BY <2>4, <2>5 DEF Reviews, BodyPcs, Sends
  <2>7. \A n \in Numbers : Knows(p, rec, n) => Known(n) BY <1>1, <2>5 DEF Knows, Known
  <2>8. Later => app' \in LaterStages BY <1>1, LaterIsQuiet
  <2>9. QED BY <1>1, <2>3, <2>5, <2>6, <2>7, <2>8, LinesStay
<1>4. QED BY <1>2, <1>3

-----------------------------------------------------------------------------
(* Judgements, calls and claims keep the line of the run.                   *)

LEMMA AuditsAreApart ==
    \A s \in AuditStages, m \in 0..3 :
       /\ ReviewOf[s] # ProducerOf[NextOf[m]] /\ ProducerOf[s] # ReviewOf[NextOf[m]]
       /\ ReviewOf[s] = ReviewOf[NextOf[m]] => s = NextOf[m]
       /\ ProducerOf[s] = ProducerOf[NextOf[m]] => s = NextOf[m]
       /\ Reviewed[NextOf[m]] = m
<1>1. \A m \in 0..3 : m \in {0, 1, 2, 3} OBVIOUS
<1>2. QED BY <1>1, Tables, AuditTables DEF AuditStages

LEMMA JudgeKeepsLines ==
    ASSUME Whole, Lines, NEW p \in Procs, Judge(p) PROVE Lines'
<1> USE DEF Judge, At
<1>1. /\ LegacyInv /\ exec[p].pc = "judge" /\ exec[p].pc \in BodyPcs /\ exec[p].pc # "idle"
      /\ StageAt(p) = Stage(exec[p]) /\ exec[p].op \in OpsOf(Stage(exec[p]))
      /\ exec[p].answer # "none" /\ exec[p].answer \in Answers(exec[p].op)
      /\ answers[exec[p].op] = exec[p].answer /\ p \in Actors
      /\ run \in Run /\ exec[p].copy \in Payload
  BY WholeIs, JudgementIs, InBody, TypesOfLegacyInv
<1>2. UNCHANGED <<jobs, app, answers, versions>> /\ NoPayload.pending = NoOperation
  BY NoPayloadIsAPayload DEF rows
<1>3. \A kind \in {"move", "pause", "app", "put"}, s \in Stages : <<kind, s>> \in Instructions
  BY DEF Instructions
<1> DEFINE z == <<"end", "resolved">>
<1>4. z \in Instructions /\ \A s : z # <<"move", s>> BY DEF Instructions
<1> HIDE DEF z
<1>5. ASSUME NEW script, UNCHANGED run, Go(p, Then(p, script, NoPayload)),
             \A s : s \notin FrontStages \cup {"V0_GENERATING"} => LacksFrom(script, <<"move", s>>)
      PROVE  Lines'
  <2>1. \A m \in 0..2 : /\ ProducerOf[NextOf[m]] \notin FrontStages \cup {"V0_GENERATING"}
                        /\ ReviewOf[NextOf[m]] \notin FrontStages \cup {"V0_GENERATING"}
    <3>1. \A m \in 0..2 : m \in {0, 1, 2} OBVIOUS
    <3>2. QED BY <3>1, Tables, AuditTables DEF FrontStages
  <2>2. Later => app' \in LaterStages BY <1>2, LaterIsQuiet
  <2>3. QED BY <1>1, <1>2, <1>5, <2>1, <2>2, EndStaysInLine
<1>6. CASE Stage(exec[p]) = "RESEARCH_RUNNING" /\ UNCHANGED run
           /\ Go(p, Then(p, ResearchScript(exec[p].answer), NoPayload))
  <2> DEFINE script == ResearchScript(exec[p].answer)
  <2>1. \A s : s \notin FrontStages \cup {"V0_GENERATING"} => LacksFrom(script, <<"move", s>>)
    BY FrontScriptsLack
  <2>2. Go(p, Then(p, script, NoPayload)) BY <1>6
  <2> HIDE DEF script
  <2>3. QED BY <1>5, <1>6, <2>1, <2>2
<1>7. CASE Stage(exec[p]) = "EVIDENCE_MATCHING_RUNNING" /\ UNCHANGED run
           /\ Go(p, Then(p, MatchScript, NoPayload))
  <2>1. \A s : s \notin FrontStages \cup {"V0_GENERATING"} => LacksFrom(MatchScript, <<"move", s>>)
    BY FrontScriptsLack
  <2>2. QED BY <1>5, <1>7, <2>1
<1>8. CASE Stage(exec[p]) \in AuditStages /\ UNCHANGED run
           /\ Go(p, Then(p, AuditScript(Stage(exec[p]), exec[p].answer), NoPayload))
  <2> DEFINE stage == Stage(exec[p])
             target == IF exec[p].answer = "done" THEN ReviewOf[stage] ELSE ProducerOf[stage]
             script == AuditScript(stage, exec[p].answer)
  <2>1. \A s : s # target => LacksFrom(script, <<"move", s>>) BY <1>8, AuditScriptLacks
  <2>2. ASSUME NEW m \in 0..2
        PROVE  /\ target # ProducerOf[NextOf[m]] \/ answers[AuditOf(m)] = "mismatched"
               /\ target # ReviewOf[NextOf[m]] \/ answers[AuditOf(m)] = "done"
    <3>1. m \in 0..3 OBVIOUS
    <3>2. CASE stage = NextOf[m]
      <4>1. exec[p].op = AuditOf(m)
        BY <1>1, <1>8, <3>1, <3>2, AuditsAreApart DEF OpsOf, AuditStages, GeneratingStages, AuditOf
      <4>2. answers[AuditOf(m)] = exec[p].answer /\ exec[p].answer \in {"done", "mismatched"}
        BY <1>1, <4>1 DEF Answers, AuditOf
      <4>3. QED BY <1>8, <3>1, <4>2, AuditsAreApart
    <3>3. CASE stage # NextOf[m] BY <1>8, <3>1, <3>3, AuditsAreApart
    <3>4. QED BY <3>2, <3>3
  <2> HIDE DEF target
  <2>3. \A m \in 0..2 :
          /\ LacksFrom(script, <<"move", ProducerOf[NextOf[m]]>>) \/ answers[AuditOf(m)] = "mismatched"
          /\ LacksFrom(script, <<"move", ReviewOf[NextOf[m]]>>) \/ answers[AuditOf(m)] = "done"
    BY <2>1, <2>2
  <2>4. Later => app' \in LaterStages BY <1>2, LaterIsQuiet
  <2>5. Go(p, Then(p, script, NoPayload)) BY <1>8
  <2> HIDE DEF script, stage
  <2>6. QED BY <1>1, <1>2, <1>8, <2>3, <2>4, <2>5, EndStaysInLine
<1>9. CASE Stage(exec[p]) = "FINAL_QA_RUNNING" /\ JudgeQa(p)
  <2> DEFINE script == << <<"put", "V4_GENERATING">>, <<"app", "V4_GENERATING">>, z >>
  <2>1. NoMoves(ReadyScript) /\ NoMoves(script)
    <3>1. /\ \A t \in {"FINAL_READY", "V4_GENERATING"} :
                <<"put", t>> \in Instructions /\ <<"app", t>> \in Instructions
          /\ <<"render", "documents">> \in Instructions
      BY <1>3, StagesAreStages DEF Instructions
    <3>2. NoMoves(script) BY <1>4, <3>1, LacksThree DEF NoMoves
    <3>3. NoMoves(ReadyScript) BY <1>4, <3>1, LacksFour DEF NoMoves, ReadyScript, z
    <3>4. QED BY <3>2, <3>3
  <2>2. ASSUME NEW copy, NEW said, NoMoves(said), Go(p, Then(p, said, copy)), UNCHANGED run,
               copy = exec[p].copy
        PROVE  Lines'
    BY <1>1, <1>2, <2>2, SilentEndStaysInLine
  <2>3. CASE Go(p, Then(p, ReadyScript, exec[p].copy)) /\ UNCHANGED run BY <2>1, <2>2, <2>3
  <2>4. CASE Go(p, Then(p, FailedQa, exec[p].copy)) /\ UNCHANGED run
    BY <2>2, <2>4, FailedQaMoves DEF NoMoves
  <2>5. CASE Go(p, Thrown(p, "permanent")) /\ UNCHANGED run
    <3>1. Calm BY <1>1, <1>2, <2>5, ThrownIsCalm DEF rows
    <3>2. QED BY <3>1, CalmKeepsLines
  <2>6. CASE StartRepair(p)
    <3> DEFINE payload == [exec[p].copy EXCEPT !.claims = NoClaims, !.repair = TRUE]
    <3>1. run' = [run EXCEPT !.payload = payload] /\ Go(p, Then(p, script, payload))
      BY <2>6 DEF StartRepair, z
    <3>2. payload.pending = exec[p].copy.pending BY <1>1 DEF Payload
    <3> HIDE DEF payload, script
    <3>3. run'.stage = run.stage /\ run'.payload = payload BY <1>1, <3>1 DEF Run
    <3>4. QED BY <1>1, <1>2, <2>1, <3>1, <3>2, <3>3, SilentEndStaysInLine
  <2>7. QED BY <1>9, <2>3, <2>4, <2>5, <2>6 DEF JudgeQa, z
<1>10. QED BY <1>1, <1>6, <1>7, <1>8, <1>9

-----------------------------------------------------------------------------
(* Calls, claims and the clients keep the line of the run.                  *)

\* A body that reviews is about the audit of its stage.
LEMMA ReviewersAreOfTheAudit ==
    ASSUME LegacyInv, NEW p \in Procs, exec[p].pc \in BodyPcs, exec[p].pc # "look",
           exec[p].pc # "next", NEW m \in 0..3, exec[p].op = AuditOf(m)
    PROVE  Reviews(m, exec[p])
<1>1. exec[p].op \in OpsOf(Stage(exec[p])) /\ Stage(exec[p]) \in BodyStages
  BY BodyHasAnOperation, InBody
<1>2. Stage(exec[p]) \in AuditStages BY <1>1, OpsOfStages DEF AuditOf
<1>3. exec[p].op = <<"audit", Reviewed[Stage(exec[p])]>>
  BY <1>1, <1>2 DEF OpsOf, AuditStages, GeneratingStages
<1>4. Reviewed[Stage(exec[p])] = m BY <1>3 DEF AuditOf
<1>5. \A s \in AuditStages : Reviewed[s] = m => s = NextOf[m]
  <2>1. m \in {0, 1, 2, 3} OBVIOUS
  <2>2. QED BY <2>1, Tables, AuditTables DEF AuditStages
<1>6. QED BY <1>2, <1>4, <1>5 DEF Reviews

LEMMA CallsKeepsLines == ASSUME LegacyInv, Lines, NEW p \in Procs, Calls(p) PROVE Lines'
<1> USE DEF Calls, At
<1>1. /\ exec[p].pc = "call" /\ exec[p].pc \in BodyPcs /\ exec[p].pc # "idle" /\ p \in Actors
      /\ exec[p] \in Activity /\ exec[p].script = <<>> /\ p \notin Clients
      /\ answers \in [Operations -> AllAnswers] /\ exec[p].op \in Operations /\ NoJob[1] = "none"
  BY InBody, BodyHasAnOperation, TypesOfLegacyInv, ProcsAreNoClients DEF BodyPcs, RowsTypeOK, NoJob
<1>2. UNCHANGED <<run, jobs, app, versions>> OBVIOUS
<1>3. \A op \in Operations :
         answers'[op] = answers[op] \/ (answers[op] = "none" /\ op = exec[p].op)
  BY <1>1
<1>4. \A m \in 0..2 :
         \/ answers'[AuditOf(m)] = answers[AuditOf(m)]
         \/ answers[AuditOf(m)] = "none" /\ p \in Procs /\ Reviews(m, exec[p])
  <2> TAKE m \in 0..2
  <2>1. m \in 0..3 /\ AuditOf(m) \in Operations BY ReviewTables
  <2>2. AuditOf(m) = exec[p].op => Reviews(m, exec[p]) BY <1>1, <2>1, ReviewersAreOfTheAudit
  <2>3. QED BY <1>3, <2>1, <2>2
<1>5. Later => app' \in LaterStages BY <1>2, LaterIsQuiet
<1> HIDE DEF Calls
<1>6. CASE Go(p, Receives(p))
  <2> DEFINE rec == Receives(p)
  <2>1. /\ rec.job = exec[p].job /\ rec.adds = exec[p].adds /\ rec.copy = exec[p].copy
        /\ rec.script = <<>>
    BY <1>1 DEF Receives, Activity
  <2>2. Go(p, rec) BY <1>6
  <2> HIDE DEF rec
  <2>3. \A m, reviewed : Sends(m, rec, reviewed) BY <2>1 DEF Sends, LacksFrom
  <2>4. \A m : Reviews(m, rec) => Reviews(m, exec[p]) BY <1>1, <2>1 DEF Reviews, Stage
  <2>5. \A n \in Numbers : Knows(p, rec, n) => Known(n) BY <1>2, <2>1 DEF Knows, Known
  <2>6. QED BY <1>1, <1>2, <1>4, <1>5, <2>1, <2>2, <2>3, <2>4, <2>5, LinesStay
<1>7. CASE Go(p, Thrown(p, "retryable"))
  <2> DEFINE rec == Thrown(p, "retryable")
  <2>1. Resting(rec) /\ rec.job = exec[p].job BY <1>1, ThrownFits
  <2>2. rec.adds = NoJob BY RestIs DEF Thrown, Rest, Idle
  <2>3. Go(p, rec) BY <1>7
  <2> HIDE DEF rec
  <2>4. /\ rec.copy.pending = NoOperation /\ \A m, reviewed : Sends(m, rec, reviewed)
        /\ \A m : ~Reviews(m, rec)
    BY <2>1, RestingKnowsNothing
  <2>5. \A n \in Numbers : Knows(p, rec, n) => Known(n)
    BY <1>2, <2>4, GenerationsAreOperations DEF Knows, Known
  <2>6. QED BY <1>1, <1>2, <1>4, <1>5, <2>1, <2>2, <2>3, <2>4, <2>5, LinesStay
<1>8. QED BY <1>6, <1>7 DEF Calls

LEMMA ClaimStageKeepsLines == ASSUME LegacyInv, Lines, NEW p \in Procs, ClaimStage(p) PROVE Lines'
<1>1. p \in Actors /\ p \notin Clients /\ exec[p].pc # "idle" /\ Stage(exec[p]) \in BodyStages
  BY ClaimStageIs
<1>2. CASE ~Calm
  <2>1. PICK rec : Claims(p, rec) BY <1>2, ClaimStageIs
  <2>2. /\ Go(p, rec) /\ rec.job = exec[p].job /\ rec.adds = exec[p].adds /\ rec.copy = run'.payload
        /\ run'.payload.pending = run.payload.pending /\ run'.stage = Stage(exec[p])
        /\ run.stage = run'.stage \/ (run.stage = "RESEARCH_QUEUED" /\ run'.stage = "RESEARCH_RUNNING")
        /\ UNCHANGED <<jobs, app, ledger, answers, versions>>
    BY <2>1 DEF Claims
  <2>3. \A m, reviewed : Sends(m, rec, reviewed) BY <1>1, <2>1, ClaimedBodyIs DEF Sends
  <2>4. \A m \in 0..2 : run.stage # ReviewOf[NextOf[m]]
    <3>1. run.stage \in WorkStages
      BY <1>1, <2>2 DEF BodyStages, WorkStages, QueuedStages, RunningStages
    <3>2. \A m \in 0..2 : m \in 0..3 OBVIOUS
    <3>3. QED BY <3>1, <3>2, ReviewTables
  <2>5. \A n \in Numbers : Knows(p, rec, n) => Known(n) BY <2>2 DEF Knows, Known
  <2>6. Later => app' \in LaterStages BY <2>2, LaterIsQuiet
  <2>7. QED BY <1>1, <2>2, <2>3, <2>4, <2>5, <2>6, LinesStay
<1>3. QED BY <1>2, CalmKeepsLines

LEMMA SaysKeepLines ==
    ASSUME LegacyInv, Lines, NEW a \in Actors,
           WriteApplication(a) \/ Enqueue(a) \/ Refund(a) \/ EnqueueDocuments(a)
    PROVE  Lines'
<1> USE DEF WriteApplication, Enqueue, Refund, EnqueueDocuments, At
<1>1. exec[a].pc \in {"script", "enqueue"} /\ exec[a] \in Activity
      /\ (exec[a].pc = "enqueue" => exec[a].adds \in JobIds)
  BY InScript
<1>2. UNCHANGED <<run, answers, versions>> BY DEF rows
<1>3. Later => app' \in LaterStages
  <2>1. CASE WriteApplication(a) BY <2>1, LaterIsQuiet, LaterInstructions
  <2>2. CASE ~WriteApplication(a) BY <2>2, LaterIsQuiet
  <2>3. QED BY <2>1, <2>2
<1>4. CASE Go(a, [exec[a] EXCEPT !.script = Tail(@)]) /\ UNCHANGED jobs
  <2> DEFINE rec == [exec[a] EXCEPT !.script = Tail(@)]
  <2>1. Go(a, rec) /\ SpeaksOn(rec, exec[a]) /\ rec.adds = exec[a].adds
    BY <1>1, <1>4 DEF SpeaksOn, Activity
  <2> HIDE DEF rec
  <2>2. QED BY <1>1, <1>2, <1>3, <1>4, <2>1, SpeakingStaysInLine
<1>5. CASE Enqueue(a)
  <2> DEFINE rec == [exec[a] EXCEPT !.pc = "script", !.adds = NoJob]
  <2>1. Go(a, rec) /\ SpeaksOn(rec, exec[a]) /\ rec.adds = NoJob
    BY <1>1, <1>5 DEF SpeaksOn, Activity
  <2> HIDE DEF rec
  <2>2. MayAdd(a) BY <1>1, <1>5
  <2>3. QED BY <1>1, <1>2, <1>3, <2>1, <2>2, SpeakingStaysInLine
<1>6. QED BY <1>4, <1>5

LEMMA ClientsStayInLine ==
    ASSUME LegacyInv, Lines, NEW c \in Clients, NEW rec, Go(c, rec), rec.job = exec[c].job,
           rec.adds[1] \in {run.stage, "none"}, Later => rec.script \in Seq(Ends),
           run'.stage = run.stage, run'.payload = run.payload,
           UNCHANGED <<jobs, app, answers, versions>>
    PROVE  Lines'
<1>1. c \in Actors /\ c \notin Procs BY ProcsAreNoClients
<1>2. \A n \in Numbers : Knows(c, rec, n) => Known(n) BY <1>1 DEF Knows, Known
<1>3. Later => app' \in LaterStages BY LaterIsQuiet
<1>4. QED BY <1>1, <1>2, <1>3, LinesStay

LEMMA ResumePausedKeepsLines ==
    ASSUME LegacyInv, Lines, NEW c \in Clients, ResumePaused(c) PROVE Lines'
<1> USE DEF ResumePaused
<1>1. exec[c].job = NoJob BY IdleClient
<1>2. PICK script : Go(c, Then(c, script, NoPayload)) OBVIOUS
<1> DEFINE rec == Then(c, script, NoPayload)
<1>3. Go(c, rec) /\ rec.job = NoJob /\ rec.adds[1] = "none" BY <1>1, <1>2, ThenIs DEF NoJob
<1> HIDE DEF rec
<1>4. ~Later BY LaterIsQuiet DEF LaterStages, FrontStages
<1>5. UNCHANGED <<run, jobs, app, answers, versions>> BY DEF rows
<1>6. QED BY <1>1, <1>3, <1>4, <1>5, ClientsStayInLine

LEMMA RetryKeepsLines == ASSUME LegacyInv, Lines, NEW c \in Clients, Retry(c) PROVE Lines'
<1> USE DEF Retry
<1>1. run \in Run /\ exec[c].job = NoJob BY TypesOfLegacyInv, IdleClient
<1>2. run'.stage = run.stage /\ run'.payload = run.payload /\ UNCHANGED <<jobs, app, answers, versions>>
  BY <1>1 DEF Run, rows
<1>3. PICK rec : /\ Go(c, rec) /\ rec.job = NoJob /\ rec.adds[1] \in {run.stage, "none"}
                 /\ rec.script \in Seq(Ends)
  BY RetryIs
<1>4. QED BY <1>1, <1>2, <1>3, ClientsStayInLine

-----------------------------------------------------------------------------
(* Transitions keep the line of the run.                                    *)

LEMMA MovingIs ==
    ASSUME LegacyInv, NEW a \in Actors, exec[a].pc = "script", NEW rec, NEW stage, Moves(a, rec, stage)
    PROVE  /\ \A S : Within(S) /\ stage \in S => Inside(rec, S)
           /\ \A m, reviewed : Sends(m, exec[a], reviewed) => Sends(m, rec, reviewed)
           /\ \A m : ~Reviews(m, rec)
           /\ \A n \in Numbers : Knows(a, rec, n) => Known(n)
           /\ a \in Clients /\ exec[a].script \in Seq(Ends) => rec.script \in Seq(Ends)
<1> USE DEF Moves
<1>1. /\ rec.job = exec[a].job /\ rec.copy = exec[a].copy /\ rec.pc \in {"script", "enqueue"}
  BY DEF SpeaksOn
<1>2. /\ \A x : LacksFrom(exec[a].script, x) => LacksFrom(rec.script, x)
      /\ exec[a].script \in Seq(Ends) => rec.script \in Seq(Ends)
  BY SpeakingOnIs
<1>3. \A S : Within(S) /\ stage \in S => Inside(rec, S) BY <1>1 DEF Within, Inside
<1>4. \A m, reviewed : Sends(m, exec[a], reviewed) => Sends(m, rec, reviewed) BY <1>2 DEF Sends
<1>5. \A m : ~Reviews(m, rec) BY <1>1 DEF Reviews, BodyPcs
<1>6. a \in Clients => exec[a].copy.pending = NoOperation BY ActorIsTyped DEF ClientShape
<1>7. \A n \in Numbers : Knows(a, rec, n) => Known(n)
  BY <1>1, <1>6, GenerationsAreOperations DEF Knows, Known, Actors
<1>8. QED BY <1>2, <1>3, <1>4, <1>5, <1>7

LEMMA EarlyRunMoves ==
    ASSUME LegacyInv, NEW m \in 0..3, Early(m), NEW a \in Actors, exec[a].pc = "script",
           NEW rec, NEW stage, Moves(a, rec, stage), stage \in Span[m],
           m # 3 /\ stage = ReviewOf[NextOf[m]] => answers[AuditOf(m)] = "done"
    PROVE  Early(m)'
<1>1. /\ Go(a, rec) /\ run'.stage = stage /\ UNCHANGED <<jobs, app, answers, versions>> BY DEF Moves
<1>2. Inside(rec, Span[m]) /\ 4 \notin versions' BY <1>1, MovingIs DEF Early
<1>3. m = 0 \/ (app' \in LaterStages /\ (a \in Clients => rec.script \in Seq(Ends)))
  BY <1>1, MovingIs DEF Early, Quiet
<1>4. m = 3 \/ Agreed(m)'
  <2> SUFFICES ASSUME m # 3 PROVE Agreed(m)'
    OBVIOUS
  <2>1. Agreed(m) BY DEF Early
  <2>2. answers'[AuditOf(m)] = answers[AuditOf(m)] BY <1>1
  <2>3. a \in Procs => Sends(m, rec, answers'[AuditOf(m)]) BY <2>1, <2>2, MovingIs DEF Agreed
  <2>4. run'.stage = ReviewOf[NextOf[m]] => answers'[AuditOf(m)] = "done" BY <1>1, <2>2
  <2>5. QED BY <1>1, <2>1, <2>2, <2>3, <2>4, AgreementMoves
<1>5. \A n \in Numbers : Knows(a, rec, n) => Known(n) \/ n = m BY MovingIs
<1>6. QED BY <1>1, <1>2, <1>3, <1>4, <1>5, EarlyMoves

LEMMA LateRunMoves ==
    ASSUME LegacyInv, Within(TailSpan), Quiet, KnowsOnly({3, 4, RepairVersion}), 3 \in versions,
           NEW a \in Actors, exec[a].pc = "script", NEW rec, NEW stage, Moves(a, rec, stage),
           stage \in TailSpan, stage # "V3_GENERATING"
    PROVE  Late'
<1>1. /\ Go(a, rec) /\ run'.stage = stage /\ UNCHANGED <<jobs, app, answers, versions>> BY DEF Moves
<1>2. /\ Inside(rec, TailSpan) /\ 3 \in versions' /\ app' \in LaterStages
      /\ a \in Clients => rec.script \in Seq(Ends)
  BY <1>1, MovingIs DEF Quiet
<1>3. \A n \in Numbers : Knows(a, rec, n) => Known(n) \/ n \in {3, 4, RepairVersion} BY MovingIs
<1>4. QED BY <1>1, <1>2, <1>3, LateMoves

\* A run started at research moves among the first stages.
LEMMA FirstRunMoves ==
    ASSUME LegacyInv, Early(0), NEW a \in Actors, exec[a].pc = "script",
           Head(exec[a].script)[1] \in {"move", "pause", "put"},
           CanTransition(run.stage, Head(exec[a].script)[2]),
           NEW rec, Moves(a, rec, Head(exec[a].script)[2])
    PROVE  Lines'
<1> DEFINE stage == Head(exec[a].script)[2]
<1>1. /\ AuditOf(0) = FirstAudit /\ Span[0] = FirstStages
      /\ NextOf[0] = "HR_AUDIT_1_RUNNING" /\ ReviewOf[NextOf[0]] = "HR_AUDIT_1_REVIEW"
      /\ ProducerOf[NextOf[0]] = "V1_GENERATING"
  BY Spans, Tables, AuditTables DEF AuditOf, FirstAudit
<1>2. /\ \A r, reviewed : Sends(0, r, reviewed) <=> Goes(r, reviewed)
      /\ \A r : Reviews(0, r) <=> Auditing(r)
  BY <1>1 DEF Sends, Goes, Reviews, Auditing
<1>3. FromResearch BY <1>1, <1>2 DEF Early, Agreed, FromResearch
<1>4. stage \in FirstStages /\ (stage = "HR_AUDIT_1_REVIEW" => answers[FirstAudit] = "done")
  BY <1>3, FirstTransitions
<1>5. Moves(a, rec, stage) OBVIOUS
<1> HIDE DEF stage
<1>6. Early(0)' BY <1>1, <1>4, <1>5, EarlyRunMoves
<1>7. QED BY <1>6 DEF Lines

\* Where the next transition of a run started later leads: the ends of its body.
LEMMA LaterTargets ==
    ASSUME LegacyInv, Later, NEW a \in Actors, exec[a].pc = "script",
           Head(exec[a].script)[1] \in {"move", "pause", "put"}
    PROVE  LET x == Head(exec[a].script)
               stage == Stage(exec[a]) IN
           /\ a \in Procs /\ exec[a].script # <<>> /\ exec[a].pc # "idle"
           /\ \/ x[2] = "FAILED"
              \/ stage \in GeneratingStages /\ x[2] \in {ReadyOf[VersionOf[stage]], NextOf[VersionOf[stage]]}
              \/ /\ stage \in AuditStages
                 /\ x = <<"move", ReviewOf[stage]>> \/ x = <<"move", ProducerOf[stage]>>
              \/ /\ stage = "FINAL_QA_RUNNING"
                 /\ x[2] \in {"FINAL_READY", "FINAL_QA_FAILED", "V4_GENERATING"}
<1> DEFINE x == Head(exec[a].script)
           stage == Stage(exec[a])
<1>1. /\ a \in Procs
      /\ exec[a].giving => x[2] = "FAILED"
      /\ ~exec[a].giving =>
            /\ stage \in GeneratingStages \cup AuditStages \cup {"FINAL_QA_RUNNING"}
            /\ stage = "FINAL_QA_RUNNING" => x[2] \in {"FINAL_READY", "FINAL_QA_FAILED", "V4_GENERATING"}
  BY LaterIsQuiet, LaterInstructions
<1>2. /\ ~exec[a].giving => x \in After(stage)
      /\ exec[a].script # <<>> /\ exec[a].pc # "idle"
  BY NextInstruction
<1>3. ASSUME ~exec[a].giving, stage \in GeneratingStages
      PROVE  x[2] \in {ReadyOf[VersionOf[stage]], NextOf[VersionOf[stage]]}
  <2> DEFINE ready == ReadyOf[VersionOf[stage]]
             next == NextOf[VersionOf[stage]]
  <2>1. x \in ({"put", "app"} \X {ready, next}) \cup {<<"next", "stage">>} BY <1>2, <1>3 DEF After
  <2> HIDE DEF ready, next
  <2>2. x[2] \in {ready, next} BY <2>1
  <2>3. QED BY <2>2 DEF ready, next
<1>4. ASSUME ~exec[a].giving, stage \in AuditStages
      PROVE  x = <<"move", ReviewOf[stage]>> \/ x = <<"move", ProducerOf[stage]>>
  <2> DEFINE review == ReviewOf[stage]
             producer == ProducerOf[stage]
  <2>1. x \in {"move", "app"} \X {review, producer}
    BY <1>2, <1>4 DEF After, AuditStages, GeneratingStages
  <2> HIDE DEF review, producer
  <2>2. x = <<"move", review>> \/ x = <<"move", producer>> BY <2>1
  <2>3. QED BY <2>2 DEF review, producer
<1> HIDE DEF x, stage
<1>5. QED BY <1>1, <1>2, <1>3, <1>4 DEF x, stage

LEMMA SpanTables ==
    /\ \A m \in 0..3 : "FAILED" \in Span[m] /\ "FINAL_QA_RUNNING" \notin Span[m]
    /\ \A m \in 1..2 : /\ ReadyOf[m] \in Span[m] /\ NextOf[m] \in Span[m]
                       /\ ReviewOf[NextOf[m]] \in Span[m] /\ ProducerOf[NextOf[m]] \notin Span[m]
                       /\ ReadyOf[m] # ReviewOf[NextOf[m]] /\ NextOf[m] # ReviewOf[NextOf[m]]
                       /\ "FAILED" # ReviewOf[NextOf[m]]
    /\ ReadyOf[3] \in PastOf(3) /\ NextOf[3] \in PastOf(3)
    /\ Span[3] \subseteq TailSpan /\ "FAILED" \in TailSpan
    /\ {ReadyOf[3], NextOf[3], ReadyOf[4], NextOf[4], ReviewOf[NextOf[3]], ProducerOf[NextOf[3]],
        "FINAL_READY", "FINAL_QA_FAILED", "V4_GENERATING"} \subseteq TailSpan \ {"V3_GENERATING"}
<1>1. \A m \in 0..3 : "FAILED" \in Span[m] /\ "FINAL_QA_RUNNING" \notin Span[m]
  <2>1. \A m \in 0..3 : m \in {0, 1, 2, 3} OBVIOUS
  <2>2. QED BY <2>1, Spans DEF FirstStages, FrontStages
<1>2. \A m \in 1..2 : /\ ReadyOf[m] \in Span[m] /\ NextOf[m] \in Span[m]
                      /\ ReviewOf[NextOf[m]] \in Span[m] /\ ProducerOf[NextOf[m]] \notin Span[m]
                      /\ ReadyOf[m] # ReviewOf[NextOf[m]] /\ NextOf[m] # ReviewOf[NextOf[m]]
                      /\ "FAILED" # ReviewOf[NextOf[m]]
  <2>1. \A m \in 1..2 : m \in {1, 2} OBVIOUS
  <2>2. QED BY <2>1, Spans, Tables, AuditTables
<1>3. QED BY <1>1, <1>2, Spans, Pasts, Tables, AuditTables DEF TailSpan

\* A version's generation starts only from the review before it (or over again).
LEMMA ProducersFollowReviews ==
    ASSUME NEW m \in 1..2, NEW from, CanTransition(from, ProducerOf[NextOf[m]])
    PROVE  from = ProducerOf[NextOf[m]] \/ from = ReviewOf[NextOf[m]]
<1>1. m = 1 \/ m = 2 OBVIOUS
<1>2. CASE m = 1
  <2>1. ProducerOf[NextOf[m]] = "V2_GENERATING" /\ ReviewOf[NextOf[m]] = "EM_AUDIT_1_REVIEW"
    BY <1>2, Tables, AuditTables
  <2>2. QED BY <2>1 DEF CanTransition, Transitions, Forward, Resumable, AuditStages
<1>3. CASE m = 2
  <2>1. ProducerOf[NextOf[m]] = "V3_GENERATING" /\ ReviewOf[NextOf[m]] = "HR_AUDIT_2_REVIEW"
    BY <1>3, Tables, AuditTables
  <2>2. QED BY <2>1 DEF CanTransition, Transitions, Forward, Resumable, AuditStages
<1>4. QED BY <1>1, <1>2, <1>3

\* A run started at V1 or V2 stops at the review of its version.
LEMMA MiddleRunMoves ==
    ASSUME LegacyInv, NEW m \in 1..2, Early(m), NEW a \in Actors, exec[a].pc = "script",
           Head(exec[a].script)[1] \in {"move", "pause", "put"},
           CanTransition(run.stage, Head(exec[a].script)[2]),
           NEW rec, Moves(a, rec, Head(exec[a].script)[2])
    PROVE  Lines'
<1> DEFINE x == Head(exec[a].script)
           stage == Stage(exec[a])
           target == x[2]
<1>1. m \in 0..3 /\ m \in 1..3 /\ m # 3 /\ Later BY DEF Later
<1>2. /\ a \in Procs /\ exec[a].script # <<>> /\ exec[a].pc # "idle"
      /\ \/ target = "FAILED"
         \/ stage \in GeneratingStages /\ target \in {ReadyOf[VersionOf[stage]], NextOf[VersionOf[stage]]}
         \/ /\ stage \in AuditStages
            /\ x = <<"move", ReviewOf[stage]>> \/ x = <<"move", ProducerOf[stage]>>
         \/ stage = "FINAL_QA_RUNNING"
  BY <1>1, LaterTargets
<1>3. stage \in Span[m] BY <1>1, <1>2, StagesInLine
<1>4. /\ stage \in GeneratingStages => VersionOf[stage] = m
      /\ stage \in AuditStages => stage = NextOf[m]
      /\ stage # "FINAL_QA_RUNNING"
  BY <1>1, <1>3, Spaces, SpanTables
<1>5. Agreed(m) /\ Sends(m, exec[a], answers[AuditOf(m)]) /\ run.stage \in Span[m]
  BY <1>1, <1>2 DEF Early, Agreed, Within
<1>6. Moves(a, rec, target) /\ CanTransition(run.stage, target) OBVIOUS
<1> HIDE DEF stage
<1>7. x # <<"move", ProducerOf[NextOf[m]]>>
  <2> SUFFICES ASSUME x = <<"move", ProducerOf[NextOf[m]]>> PROVE FALSE
    OBVIOUS
  <2>1. answers[AuditOf(m)] = "mismatched" BY <1>2, <1>5, HeadIsThere DEF Sends
  <2>2. run.stage = ProducerOf[NextOf[m]] \/ run.stage = ReviewOf[NextOf[m]]
    BY <1>6, ProducersFollowReviews
  <2>3. run.stage # ProducerOf[NextOf[m]] BY <1>5, SpanTables
  <2>4. QED BY <1>5, <2>1, <2>2, <2>3 DEF Agreed
<1>8. x = <<"move", ReviewOf[NextOf[m]]>> => answers[AuditOf(m)] = "done"
  BY <1>2, <1>5, HeadIsThere DEF Sends
<1>9. target \in Span[m] /\ (target = ReviewOf[NextOf[m]] => answers[AuditOf(m)] = "done")
  <2>1. CASE target = "FAILED" BY <1>1, <2>1, SpanTables
  <2>2. CASE stage \in GeneratingStages /\ target \in {ReadyOf[VersionOf[stage]], NextOf[VersionOf[stage]]}
    BY <1>4, <2>2, SpanTables
  <2>3. CASE stage \in AuditStages /\ (x = <<"move", ReviewOf[stage]>> \/ x = <<"move", ProducerOf[stage]>>)
    BY <1>4, <1>7, <1>8, <2>3, SpanTables
  <2>4. QED BY <1>2, <1>4, <2>1, <2>2, <2>3
<1> HIDE DEF target
<1>10. Early(m)' BY <1>1, <1>6, <1>9, EarlyRunMoves
<1>11. QED BY <1>1, <1>10 DEF Lines

\* A run started at V3 goes on with V4 once it has V3, and then to its end.
LEMMA LastRunMoves ==
    ASSUME LegacyInv, PaidInv, Early(3) \/ Late, NEW a \in Actors, exec[a].pc = "script",
           Head(exec[a].script)[1] \in {"move", "pause", "put"},
           NEW rec, Moves(a, rec, Head(exec[a].script)[2])
    PROVE  Lines'
<1> DEFINE x == Head(exec[a].script)
           stage == Stage(exec[a])
           target == x[2]
<1>1. Later /\ 3 \in 1..3 /\ 3 \in 0..3 /\ 3 \in 0..4 BY DEF Later
<1>2. /\ a \in Procs /\ exec[a].pc # "idle"
      /\ \/ target = "FAILED"
         \/ stage \in GeneratingStages /\ target \in {ReadyOf[VersionOf[stage]], NextOf[VersionOf[stage]]}
         \/ stage \in AuditStages /\ target \in {ReviewOf[stage], ProducerOf[stage]}
         \/ /\ stage = "FINAL_QA_RUNNING"
            /\ target \in {"FINAL_READY", "FINAL_QA_FAILED", "V4_GENERATING"}
  BY <1>1, LaterTargets
<1>3. (Early(3) => stage \in Span[3]) /\ (Late => stage \in TailSpan) BY <1>1, <1>2, StagesInLine
<1>4. Moves(a, rec, target) OBVIOUS
<1>5. CASE Early(3)
  <2>1. /\ stage \in GeneratingStages => VersionOf[stage] = 3
        /\ stage \notin AuditStages /\ stage # "FINAL_QA_RUNNING"
    BY <1>1, <1>3, <1>5, Spaces, SpanTables
  <2>2. CASE target = "FAILED"
    <3>1. target \in Span[3] BY <1>1, <2>2, SpanTables
    <3> HIDE DEF target
    <3>2. Early(3)' BY <1>1, <1>4, <1>5, <3>1, EarlyRunMoves
    <3>3. QED BY <1>1, <3>2 DEF Lines
  <2>3. CASE target \in {ReadyOf[3], NextOf[3]}
    <3>1. target \in PastOf(3) /\ target \in TailSpan /\ target # "V3_GENERATING"
      BY <2>3, SpanTables
    <3>2. Follows(3, exec[a]) BY <1>1, <3>1, TransitionsFollow
    <3>3. 3 \in versions BY <1>1, <1>2, <3>2 DEF PaidInv, Paid
    <3>4. Within(TailSpan) BY <1>1, <1>5, SpanTables DEF Early, Within, Inside
    <3>5. Quiet /\ KnowsOnly({3, 4, RepairVersion}) BY <1>5 DEF Early, KnowsOnly
    <3> HIDE DEF target
    <3>6. Late' BY <1>4, <3>1, <3>3, <3>4, <3>5, LateRunMoves
    <3>7. QED BY <3>6 DEF Lines
  <2> HIDE DEF target, stage
  <2>4. QED BY <1>2, <2>1, <2>2, <2>3
<1>6. CASE Late
  <2>1. /\ stage \in GeneratingStages => VersionOf[stage] \in {3, 4}
        /\ stage \in AuditStages => stage = NextOf[3]
    BY <1>3, <1>6, TailSpaces
  <2> HIDE DEF target, stage
  <2>2. target \in TailSpan /\ target # "V3_GENERATING" BY <1>2, <2>1, SpanTables
  <2>3. Late' BY <1>4, <1>6, <2>2, LateRunMoves DEF Late
  <2>4. QED BY <2>3 DEF Lines
<1>7. QED BY <1>5, <1>6

LEMMA TransitionKeepsLines ==
    ASSUME LegacyInv, PaidInv, Lines, NEW a \in Actors, Transition(a) PROVE Lines'
<1> DEFINE stage == Head(exec[a].script)[2]
<1>1. exec[a].pc = "script" /\ Head(exec[a].script)[1] \in {"move", "pause", "put"} BY TransitionIs
<1>2. CASE ~Calm
  <2>1. PICK rec : Moves(a, rec, stage) BY <1>2, TransitionIs
  <2>2. CanTransition(run.stage, stage) BY <1>2, TransitionIs
  <2>3. CASE Early(0) BY <1>1, <2>1, <2>2, <2>3, FirstRunMoves
  <2>4. ASSUME NEW m \in 1..2, Early(m) PROVE Lines' BY <1>1, <2>1, <2>2, <2>4, MiddleRunMoves
  <2>5. CASE Early(3) \/ Late BY <1>1, <2>1, <2>5, LastRunMoves
  <2>6. \A m \in 0..3 : m = 0 \/ m \in 1..2 \/ m = 3 OBVIOUS
  <2>7. QED BY <2>3, <2>4, <2>5, <2>6 DEF Lines
<1>3. QED BY <1>2, CalmKeepsLines

\* Every step of the specification keeps the lines.
LEMMA NextKeepsLines == Whole /\ PaidInv /\ Lines /\ [Next]_vars => Lines'
<1> SUFFICES ASSUME Whole, PaidInv, Lines, [Next]_vars PROVE Lines'
  OBVIOUS
<1>0. LegacyInv BY WholeIs
<1>1. ASSUME NEW a \in Actors, Speaks(a) PROVE Lines'
  BY <1>0, <1>1, TransitionKeepsLines, SaysKeepLines DEF Speaks
<1>2. ASSUME NEW p \in Procs, Works(p) PROVE Lines'
  BY <1>0, <1>2, ClaimStageKeepsLines, GiveUpKeepsLines, ExtractKeepsLines, CallsKeepsLines,
     CommitKeepsLines, JudgeKeepsLines, CheckLocallyKeepsLines, WritesBackKeepLines,
     QuietStepsKeepLines DEF Works
<1>3. ASSUME NEW p \in Procs, Finishes(p) PROVE Lines'
  BY <1>0, <1>3, WritesBackKeepLines, QuietStepsKeepLines, AppendVersionKeepsLines,
     RereadRunKeepsLines, BecomesReadyKeepsLines, ResumesKeepsLines, StartNextKeepsLines DEF Finishes
<1>4. QED
  BY <1>0, <1>1, <1>2, <1>3, StepsAre, CalmKeepsLines, ResumePausedKeepsLines, RetryKeepsLines,
     AnswerExpiresKeepsLines

\* VersionsArePaid: a run that has gone past a version, to its V<n>_READY and beyond, has that
\* version and has committed its reservation (finalizeResumeGenerationPersistence commits before
\* the run moves), whichever delivery moves the run.
THEOREM VersionsStayPaid == LPSpec => []VersionsArePaid
<1>1. Init => Whole /\ PaidInv /\ Lines
  BY WholeHoldsInitially, PaidHoldsInitially, LinesHoldInitially
<1>2. Whole /\ PaidInv /\ Lines /\ [Next]_vars => Whole' /\ PaidInv' /\ Lines'
  BY NextKeepsWhole, NextKeepsPaid, NextKeepsLines, WholeIs
<1>3. PaidInv => VersionsArePaid BY DEF PaidInv, VersionsArePaid, RunFollows, Paid, Generate
<1>4. QED BY <1>1, <1>2, <1>3, PTL DEF LPSpec

-----------------------------------------------------------------------------
(* A parked result is taken up, not asked for again.                        *)

LEMMA ParkedIs ==
    ASSUME ParkInv, NEW p \in Procs
    PROVE  /\ ParkFits(exec[p]) /\ PayloadFits(run.payload) /\ PayloadFits(exec[p].copy)
           /\ \A n \in Numbers : Lost(n) => run.payload.pending = Generate(n) /\ Marks(n, exec[p])
           /\ \A n \in Numbers : Forgot(n) => Asks(n, exec[p])
BY DEF ParkInv, Marked, ParkFits

LEMMA ParkMoves ==
    ASSUME LegacyInv, ParkInv, NEW a \in Actors, NEW rec, Go(a, rec),
           versions \subseteq versions',
           \A op \in Operations : answers[op] # "none" => answers'[op] # "none",
           PayloadFits(run'.payload), a \in Procs => ParkFits(rec), a \in Clients => ~rec.giving,
           \A n \in Numbers : StaysParked(a, rec, n)
    PROVE  ParkInv'
<1>1. exec \in [Actors -> Activity] BY TypesOfLegacyInv
<1>2. /\ \A p \in Procs : exec'[p] = IF p = a THEN rec ELSE exec[p]
      /\ \A c \in Clients : exec'[c] = IF c = a THEN rec ELSE exec[c]
  BY <1>1, ProcsAreNoClients DEF Go
<1>3. /\ \A p \in Procs : ParkFits(exec[p])
      /\ \A c \in Clients : ~exec[c].giving
      /\ \A n \in Numbers : Lost(n) => Marked(n)
      /\ \A n \in Numbers : Forgot(n) => \A p \in Procs : Asks(n, exec[p])
  BY DEF ParkInv
<1>4. \A p \in Procs : ParkFits(exec'[p]) BY <1>2, <1>3
<1>5. \A c \in Clients : ~exec'[c].giving BY <1>2, <1>3
<1>6. ASSUME NEW n \in Numbers, Lost(n)' PROVE Marked(n)'
  <2>1. answers'[Generate(n)] = "none" /\ n \notin versions' /\ (Known(n) \/ Knows(a, rec, n))
    BY <1>2, <1>6 DEF Lost, Known, Knows
  <2>2. Lost(n) BY <2>1, GenerationsAreOperations DEF StaysParked, Lost
  <2>3. run'.payload.pending = Generate(n) /\ (a \in Procs => Marks(n, rec))
    BY <2>1, <2>2 DEF StaysParked
  <2>4. \A p \in Procs : Marks(n, exec[p]) BY <1>3, <2>2 DEF Marked
  <2>5. \A p \in Procs : Marks(n, exec'[p]) BY <1>2, <2>3, <2>4
  <2>6. QED BY <2>3, <2>5 DEF Marked
<1>7. ASSUME NEW n \in Numbers, Forgot(n)' PROVE \A p \in Procs : Asks(n, exec'[p])
  <2>1. answers'[Generate(n)] = "none" /\ n \in versions' /\ answers[Generate(n)] = "none"
    BY <1>7, GenerationsAreOperations DEF Forgot
  <2>2. a \in Procs => Asks(n, rec) BY <2>1 DEF StaysParked
  <2>3. \A p \in Procs : Asks(n, exec[p]) BY <1>3, <2>1 DEF StaysParked, Forgot
  <2>4. QED BY <1>2, <2>2, <2>3
<1>8. QED BY <1>4, <1>5, <1>6, <1>7 DEF ParkInv

LEMMA RestingParksNothing ==
    ASSUME NEW rec, Resting(rec)
    PROVE  /\ ParkFits(rec) /\ ~rec.giving
           /\ \A n : Marks(n, rec) /\ Asks(n, rec) /\ rec.copy.pending # Generate(n)
<1>1. /\ rec.pc \notin BodyPcs /\ ~Ending(rec) /\ rec.op # Repair /\ rec.op = NoOperation
      /\ ~rec.giving /\ rec.copy.pending = NoOperation
  BY RestingIs DEF Resting
<1>2. rec.pc \notin {"park", "append"} /\ NoOperation # Repair /\ \A n : NoOperation # Generate(n)
  BY <1>1 DEF BodyPcs, NoOperation, Repair, Generate
<1>3. QED BY <1>1, <1>2 DEF ParkFits, PayloadFits, Marks, Asks

LEMMA CalmKeepsPark == ASSUME ParkInv, Calm PROVE ParkInv'
<1>1. /\ answers' = answers /\ versions' = versions
      /\ run'.payload.pending = run.payload.pending
      /\ run'.payload.repair <=> run.payload.repair
  BY DEF Calm
<1>2. \A a \in Actors : Alike(exec'[a], exec[a]) \/ Resting(exec'[a]) BY DEF Calm, ComesToRest
<1>3. ASSUME NEW a \in Actors, Alike(exec'[a], exec[a])
      PROVE  /\ ParkFits(exec[a]) => ParkFits(exec'[a])
             /\ exec'[a].giving = exec[a].giving /\ exec'[a].copy.pending = exec[a].copy.pending
             /\ \A n : Marks(n, exec[a]) => Marks(n, exec'[a])
             /\ \A n : Asks(n, exec[a]) => Asks(n, exec'[a])
  <2>1. Stage(exec'[a]) = Stage(exec[a]) /\ Ending(exec'[a]) = Ending(exec[a]) BY <1>3, AlikeIs
  <2>2. /\ exec'[a].pc = exec[a].pc /\ exec'[a].op = exec[a].op /\ exec'[a].answer = exec[a].answer
        /\ exec'[a].giving = exec[a].giving /\ exec'[a].copy.pending = exec[a].copy.pending
        /\ exec'[a].copy.repair <=> exec[a].copy.repair
    BY <1>3 DEF Alike
  <2>3. QED BY <2>1, <2>2 DEF ParkFits, PayloadFits, Marks, Asks, Generating
<1>4. /\ PayloadFits(run.payload)
      /\ \A p \in Procs : ParkFits(exec[p])
      /\ \A c \in Clients : ~exec[c].giving
      /\ \A n \in Numbers : Lost(n) => Marked(n)
      /\ \A n \in Numbers : Forgot(n) => \A p \in Procs : Asks(n, exec[p])
  BY DEF ParkInv
<1>5. PayloadFits(run'.payload) BY <1>1, <1>4 DEF PayloadFits
<1>6. \A p \in Procs : ParkFits(exec'[p]) BY <1>2, <1>3, <1>4, RestingParksNothing DEF Actors
<1>7. \A c \in Clients : ~exec'[c].giving BY <1>2, <1>3, <1>4, RestingParksNothing DEF Actors
<1>8. ASSUME NEW n \in Numbers, Lost(n)' PROVE Marked(n)'
  <2>1. \A p \in Procs : exec'[p].copy.pending = Generate(n) => exec[p].copy.pending = Generate(n)
    BY <1>2, <1>3, RestingParksNothing DEF Actors
  <2>2. Lost(n) BY <1>1, <1>8, <2>1 DEF Lost, Known
  <2>3. run.payload.pending = Generate(n) /\ \A p \in Procs : Marks(n, exec[p])
    BY <1>4, <2>2 DEF Marked
  <2>4. \A p \in Procs : Marks(n, exec'[p]) BY <1>2, <1>3, <2>3, RestingParksNothing DEF Actors
  <2>5. QED BY <1>1, <2>3, <2>4 DEF Marked
<1>9. ASSUME NEW n \in Numbers, Forgot(n)' PROVE \A p \in Procs : Asks(n, exec'[p])
  <2>1. \A p \in Procs : Asks(n, exec[p]) BY <1>1, <1>4, <1>9 DEF Forgot
  <2>2. QED BY <1>2, <1>3, <2>1, RestingParksNothing DEF Actors
<1>10. QED BY <1>5, <1>6, <1>7, <1>8, <1>9 DEF ParkInv

LEMMA ParkHoldsInitially == Init => ParkInv
<1> SUFFICES ASSUME Init PROVE ParkInv
  OBVIOUS
<1>1. /\ \A a \in Actors : exec[a] = Idle
      /\ answers = [op \in Operations |-> "none"]
  BY DEF Init
<1>2. run.payload = NoPayload BY DEF Init
<1>3. Resting(Idle) /\ NoPayload.pending = NoOperation /\ ~NoPayload.repair
  BY IdleRests, NoPayloadIsAPayload
<1>4. PayloadFits(run.payload) BY <1>2, <1>3 DEF PayloadFits, NoOperation, Repair
<1>5. /\ \A p \in Procs : ParkFits(exec[p])
      /\ \A c \in Clients : ~exec[c].giving
      /\ \A n \in Numbers, p \in Procs : Asks(n, exec[p]) /\ exec[p].copy.pending # Generate(n)
  BY <1>1, <1>3, RestingParksNothing DEF Actors
<1>6. \A n \in Numbers : ~Lost(n) BY <1>2, <1>3, <1>5, GenerationsAreOperations DEF Lost, Known
<1>7. QED BY <1>4, <1>5, <1>6 DEF ParkInv

LEMMA AnswerExpiresKeepsPark ==
    ASSUME LegacyInv, ParkInv, NEW op \in Operations, AnswerExpires(op) PROVE ParkInv'
<1> USE DEF AnswerExpires, At
<1>1. UNCHANGED <<run, exec, versions>> OBVIOUS
<1>2. \A p \in Procs : Resting(exec[p])
  <2> TAKE p \in Procs
  <2>1. exec[p].pc = "idle" /\ Shape(exec[p]) /\ exec[p] \in Activity
    BY ActorIsTyped, ProcsAreNoClients
  <2>2. QED BY <2>1 DEF Shape, Resting, BodyPcs
<1>3. /\ PayloadFits(run.payload) /\ \A p \in Procs : ParkFits(exec[p])
      /\ \A c \in Clients : ~exec[c].giving
  BY DEF ParkInv
<1>4. \A n \in Numbers, p \in Procs :
         Marks(n, exec[p]) /\ Asks(n, exec[p]) /\ exec[p].copy.pending # Generate(n)
  BY <1>2, RestingParksNothing
<1>5. \A n \in Numbers : Lost(n)' => Marked(n)' BY <1>1, <1>4 DEF Lost, Known, Marked
<1>6. \A n \in Numbers : \A p \in Procs : Asks(n, exec'[p]) BY <1>1, <1>4
<1>7. QED BY <1>1, <1>3, <1>5, <1>6 DEF ParkInv

LEMMA GeneratingBody ==
    ASSUME LegacyInv, NEW p \in Procs, exec[p].pc \in BodyPcs, NEW n, exec[p].op = Generate(n)
    PROVE  Generating(exec[p]) /\ exec[p].op \in OpsOf(Stage(exec[p])) /\ n \in Numbers
<1>1. OpFits(exec[p]) /\ Stage(exec[p]) \in BodyStages BY InBody
<1>2. exec[p].op # NoOperation /\ exec[p].op[1] = "generate" /\ exec[p].op[2] = n
  BY DEF Generate, NoOperation
<1>3. exec[p].op \in OpsOf(Stage(exec[p])) BY <1>1, <1>2 DEF OpFits
<1>4. QED BY <1>1, <1>2, <1>3, OpsOfStages DEF Generating, Numbers

\* A body takes its next step, with its copy of the payload.
LEMMA BodyKeepsPark ==
    ASSUME LegacyInv, ParkInv, NEW p \in Procs, exec[p].pc \in BodyPcs, NEW rec, Go(p, rec),
           rec.job = exec[p].job, rec.script = <<>>, rec.copy = exec[p].copy, ParkFits(rec),
           \/ run'.payload.pending = run.payload.pending
              /\ (run'.payload.repair <=> run.payload.repair)
           \/ run'.payload.pending = exec[p].copy.pending
              /\ (run'.payload.repair <=> exec[p].copy.repair),
           \A op \in Operations : answers[op] # "none" => answers'[op] # "none",
           UNCHANGED versions,
           Generating(rec) => rec.op = exec[p].op,
           \A n \in Numbers :
              Generating(rec) /\ n \notin versions /\ exec[p].op = Generate(n)
              /\ exec[p].copy.pending = Generate(n) /\ exec[p].pc \in ToAppend
              => rec.pc \in ToAppend,
           \A n \in Numbers :
              n \in versions /\ answers'[Generate(n)] = "none" /\ Asks(n, exec[p]) => Asks(n, rec)
    PROVE  ParkInv'
<1>1. p \in Actors /\ p \notin Clients /\ Stage(rec) = Stage(exec[p]) /\ ~Ending(rec)
  BY ProcsAreNoClients DEF Stage, Ending
<1>2. PayloadFits(run'.payload) BY ParkedIs DEF PayloadFits
<1>3. Generating(rec) <=> Generating(exec[p]) BY <1>1 DEF Generating
<1>4. ASSUME NEW n \in Numbers PROVE StaysParked(p, rec, n)
  <2>1. Knows(p, rec, n) => Known(n) BY DEF Knows, Known
  <2>2. ASSUME Lost(n) PROVE run'.payload.pending = Generate(n) /\ Marks(n, rec)
    <3>1. run.payload.pending = Generate(n) /\ Marks(n, exec[p]) BY <2>2, ParkedIs
    <3>2. exec[p].copy.pending = Generate(n) /\ n \notin versions BY <2>2, <3>1 DEF Marks, Lost
    <3>3. Generating(rec) => rec.op = Generate(n) /\ rec.pc \in ToAppend
      BY <1>3, <3>1, <3>2 DEF Marks
    <3>4. QED BY <1>1, <3>1, <3>2, <3>3 DEF Marks
  <2>3. ASSUME answers'[Generate(n)] = "none", n \in versions PROVE Asks(n, rec)
    <3>1. Forgot(n) BY <2>3, GenerationsAreOperations DEF Forgot
    <3>2. QED BY <2>3, <3>1, ParkedIs
  <2>4. QED BY <2>1, <2>2, <2>3 DEF StaysParked
<1>5. QED BY <1>1, <1>2, <1>4, ParkMoves

\* A step that changes the place of a body in its text and not what it carries.
LEMMA PlaceKeepsPark ==
    ASSUME LegacyInv, ParkInv, NEW p \in Procs, exec[p].pc \in BodyPcs, exec[p].pc # "next",
           NEW pc, pc \notin {"park", "call"},
           Go(p, [exec[p] EXCEPT !.pc = pc]),
           \/ run'.payload.pending = run.payload.pending
              /\ (run'.payload.repair <=> run.payload.repair)
           \/ run'.payload.pending = exec[p].copy.pending
              /\ (run'.payload.repair <=> exec[p].copy.repair),
           UNCHANGED <<answers, versions>>,
           pc = "append" => exec[p].copy.pending = exec[p].op,
           pc = "reserve" /\ Generating(exec[p]) => exec[p].op[2] \notin versions,
           pc = "backend" => exec[p].pc = "reserve",
           exec[p].op = Repair /\ exec[p].pc \in Finalizing \ {"reread"} =>
              pc \in Finalizing \ {"reread"},
           \A n \in Numbers :
              Generating(exec[p]) /\ n \notin versions /\ exec[p].op = Generate(n)
              /\ exec[p].pc \in ToAppend => pc \in ToAppend
    PROVE  ParkInv'
<1> DEFINE rec == [exec[p] EXCEPT !.pc = pc]
<1>1. /\ Go(p, rec) /\ rec.pc = pc /\ rec.job = exec[p].job /\ rec.script = <<>>
      /\ rec.op = exec[p].op /\ rec.copy = exec[p].copy /\ rec.answer = exec[p].answer
  BY InBody DEF Activity
<1> HIDE DEF rec
<1>2. Generating(rec) <=> Generating(exec[p]) BY <1>1 DEF Generating, Stage
<1>3. ParkFits(rec) BY <1>1, ParkedIs DEF ParkFits
<1>4. ASSUME NEW n \in Numbers, n \in versions, Asks(n, exec[p]) PROVE Asks(n, rec)
  <2> SUFFICES ASSUME rec.op = Generate(n) PROVE
                  rec.pc \notin {"call", "park"}
                  /\ (rec.pc \in {"reserve", "backend"} => rec.copy.pending = Generate(n))
    BY DEF Asks
  <2>0. exec[p].op = Generate(n) BY <1>1
  <2>1. Generating(exec[p]) /\ exec[p].op[2] = n BY <2>0, GeneratingBody, GenerationsAreOperations
  <2>2. QED BY <1>1, <1>4, <2>1 DEF Asks
<1>5. QED BY <1>1, <1>2, <1>3, <1>4, BodyKeepsPark

LEMMA PlacesKeepPark ==
    ASSUME LegacyInv, ParkInv, NEW p \in Procs,
           Reserve(p) \/ LookUpVersion(p) \/ SetCurrent(p) \/ RecordAudit(p) \/ RecordFindings(p)
    PROVE  ParkInv'
<1> USE DEF Reserve, LookUpVersion, SetCurrent, RecordAudit, RecordFindings, At
<1>1. /\ exec[p].pc \in BodyPcs /\ exec[p].pc # "next"
      /\ UNCHANGED <<run, answers, versions>>
  BY DEF BodyPcs, rows
<1>2. PICK pc : Go(p, [exec[p] EXCEPT !.pc = pc])
      /\ \/ exec[p].pc = "reserve" /\ pc = "backend"
         \/ exec[p].pc = "look" /\ pc = "reserve" /\ exec[p].op[2] \notin versions
         \/ exec[p].pc = "look" /\ pc = "point" /\ exec[p].op[2] \in versions
         \/ exec[p].pc = "point" /\ pc = "commit"
         \/ exec[p].pc \in {"record", "findings"} /\ pc \in {"findings", "commit"}
  BY DEF Number
<1>3. \A n \in Numbers :
         Generating(exec[p]) /\ n \notin versions /\ exec[p].op = Generate(n)
         /\ exec[p].pc \in ToAppend => pc \in ToAppend
  BY <1>2, GenerationsAreOperations DEF ToAppend
<1>4. QED BY <1>1, <1>2, <1>3, PlaceKeepsPark

LEMMA PersistBackendKeepsPark ==
    ASSUME LegacyInv, ParkInv, NEW p \in Procs, PersistBackend(p) PROVE ParkInv'
<1> USE DEF PersistBackend, At
<1>1. /\ exec[p].pc = "backend" /\ exec[p].pc \in BodyPcs /\ exec[p].pc # "next"
      /\ exec[p].copy \in Payload /\ run \in Run /\ UNCHANGED <<answers, versions>>
  BY InBody, TypesOfLegacyInv DEF BodyPcs, rows
<1>2. /\ [exec[p].copy EXCEPT !.backend = TRUE].pending = exec[p].copy.pending
      /\ [exec[p].copy EXCEPT !.backend = TRUE].repair = exec[p].copy.repair
  BY <1>1 DEF Payload
<1>3. \/ run'.payload.pending = run.payload.pending
         /\ (run'.payload.repair <=> run.payload.repair)
      \/ run'.payload.pending = exec[p].copy.pending
         /\ (run'.payload.repair <=> exec[p].copy.repair)
  BY <1>1, <1>2 DEF Run
<1> DEFINE pc == IF exec[p].copy.pending = exec[p].op THEN "append" ELSE "call"
           rec == [exec[p] EXCEPT !.pc = pc]
<1>4. /\ Go(p, rec) /\ rec.pc = pc /\ rec.job = exec[p].job /\ rec.script = <<>>
      /\ rec.op = exec[p].op /\ rec.copy = exec[p].copy
  BY <1>1, InBody DEF Activity
<1> HIDE DEF rec
<1>5. ParkFits(rec) BY <1>1, <1>4, ParkedIs DEF ParkFits
<1>6. \A n \in Numbers :
         exec[p].op = Generate(n) /\ exec[p].copy.pending = Generate(n) => rec.pc \in ToAppend
  BY <1>4 DEF ToAppend
<1>7. \A n \in Numbers : Asks(n, exec[p]) => Asks(n, rec) BY <1>1, <1>4 DEF Asks
<1>8. QED BY <1>1, <1>3, <1>4, <1>5, <1>6, <1>7, BodyKeepsPark

\* Once a generation asks, no result is left parked from before.
LEMMA NothingIsLost ==
    ASSUME ParkInv, NEW p \in Procs, exec[p].pc \in BodyPcs, Generating(exec[p]),
           exec[p].pc \notin ToAppend
    PROVE  \A n \in Numbers : ~Lost(n)
BY ParkedIs DEF Marks

LEMMA ParkKeepsPark == ASSUME Whole, ParkInv, NEW p \in Procs, Park(p) PROVE ParkInv'
<1> USE DEF Park, At
<1>1. /\ LegacyInv /\ exec[p].pc = "park" /\ exec[p].pc \in BodyPcs /\ p \in Actors
      /\ p \notin Clients
  BY WholeIs, ProcsAreNoClients DEF BodyPcs
<1>2. /\ exec[p].copy \in Payload /\ run \in Run /\ exec[p] \in Activity
      /\ UNCHANGED <<answers, versions>>
  BY <1>1, InBody, TypesOfLegacyInv DEF rows
<1> DEFINE payload == [exec[p].copy EXCEPT !.pending = exec[p].op]
           rec == [exec[p] EXCEPT !.pc = "append"]
<1>3. /\ payload.pending = exec[p].op /\ payload.repair = exec[p].copy.repair BY <1>2 DEF Payload
<1>4. run'.payload = payload BY <1>2 DEF Run
<1>5. /\ Go(p, rec) /\ rec.pc = "append" /\ rec.op = exec[p].op /\ rec.copy = exec[p].copy
      /\ rec.answer = exec[p].answer
  BY <1>2 DEF Activity
<1> HIDE DEF payload, rec
<1>6. /\ exec[p].answer # "none" /\ PayloadFits(exec[p].copy)
      /\ (exec[p].op = Repair => exec[p].copy.repair)
  BY <1>1, ParkedIs DEF ParkFits
<1>7. answers[exec[p].op] # "none" BY <1>6, WholeIs DEF AnswerFits
<1>8. PayloadFits(run'.payload) BY <1>3, <1>4, <1>6 DEF PayloadFits
<1>9. ParkFits(rec) BY <1>5, <1>6 DEF ParkFits
<1>10. \A n \in Numbers : ~Lost(n) BY <1>1, GeneratingSteps, NothingIsLost DEF ToAppend
<1>11. \A n \in Numbers : StaysParked(p, rec, n)
  <2> TAKE n \in Numbers
  <2>1. Knows(p, rec, n) => Known(n) \/ answers'[Generate(n)] # "none"
    BY <1>2, <1>3, <1>4, <1>5, <1>7 DEF Knows, Known
  <2>2. Asks(n, rec) BY <1>5 DEF Asks
  <2>3. QED BY <1>2, <1>10, <2>1, <2>2 DEF StaysParked
<1>12. QED BY <1>1, <1>2, <1>5, <1>8, <1>9, <1>11, ParkMoves

LEMMA CommitKeepsPark == ASSUME LegacyInv, ParkInv, NEW p \in Procs, Commit(p) PROVE ParkInv'
<1> USE DEF Commit, At
<1>1. /\ exec[p].pc = "commit" /\ exec[p].pc \in BodyPcs /\ exec[p].pc # "idle"
      /\ exec[p].pc \notin ToAppend /\ exec[p].pc # "next" /\ p \in Actors
  BY InBody DEF BodyPcs, ToAppend
<1>2. UNCHANGED <<run, jobs, app, answers, versions>> OBVIOUS
<1>3. CASE ledger[exec[p].op] = "released"
  <2>1. Calm BY <1>1, <1>3, ThrownIsCalm
  <2>2. QED BY <2>1, CalmKeepsPark
<1>4. CASE ledger[exec[p].op] # "released"
  <2>1. PICK pc : Go(p, [exec[p] EXCEPT !.pc = pc])
                  /\ pc \in {"ready", "judge"} /\ (exec[p].op = Repair => pc = "ready")
    BY <1>4 DEF Repair
  <2>2. QED BY <1>1, <1>2, <2>1, PlaceKeepsPark
<1>5. QED BY <1>3, <1>4

LEMMA AppendVersionKeepsPark ==
    ASSUME Whole, ParkInv, NEW p \in Procs, AppendVersion(p) PROVE ParkInv'
<1> USE DEF AppendVersion, At
<1>1. /\ LegacyInv /\ exec[p].pc = "append" /\ exec[p].pc \in BodyPcs /\ p \in Actors
      /\ p \notin Clients /\ exec[p] \in Activity
  BY WholeIs, InBody, ProcsAreNoClients DEF BodyPcs
<1>2. Generating(exec[p]) /\ Stage(exec[p]) \in BodyStages BY <1>1, GeneratingSteps, InBody
<1> DEFINE k == exec[p].op[2]
<1>3. k \in Numbers /\ exec[p].op = Generate(k)
  <2>1. exec[p].op \in OpsOf(Stage(exec[p])) BY <1>1, BodyHasAnOperation
  <2>2. QED BY <1>2, <2>1, OpsOfStages DEF Generating, Numbers, Generate
<1> DEFINE rec == [exec[p] EXCEPT !.pc = IF Number(p) = RepairVersion THEN "reread" ELSE "point"]
<1>4. /\ Go(p, rec) /\ rec.pc \in {"reread", "point"} /\ rec.op = exec[p].op /\ rec.copy = exec[p].copy
      /\ UNCHANGED <<run, answers>> /\ versions' = versions \cup {k}
  BY <1>1 DEF Activity, Number
<1> HIDE DEF rec
<1>5. /\ ParkFits(exec[p]) /\ PayloadFits(run.payload)
      /\ \A n \in Numbers : Lost(n) => Marks(n, exec[p])
  BY ParkedIs
<1>6. ParkFits(rec) BY <1>1, <1>4, <1>5 DEF ParkFits
<1>7. ASSUME answers[Generate(k)] = "none", k \notin versions
      PROVE  \A q \in Procs : Asks(k, exec[q])
  <2>1. exec[p].answer = "none" BY <1>3, <1>7, WholeIs DEF AnswerFits
  <2>2. exec[p].copy.pending = Generate(k) BY <1>1, <1>3, <1>5, <2>1 DEF ParkFits
  <2>3. Lost(k) BY <1>7, <2>2 DEF Lost, Known
  <2> TAKE q \in Procs
  <2>4. Marks(k, exec[q]) BY <1>3, <2>3, ParkedIs
  <2>5. CASE exec[q].pc \notin BodyPcs BY <2>5 DEF Asks, BodyPcs
  <2>6. CASE exec[q].pc \in BodyPcs /\ exec[q].op = Generate(k)
    <3>1. Generating(exec[q]) BY <1>1, <2>6, GeneratingBody
    <3>2. QED BY <2>4, <2>6, <3>1 DEF Marks, Asks, ToAppend
  <2>7. QED BY <2>5, <2>6 DEF Asks
<1>8. \A n \in Numbers : StaysParked(p, rec, n)
  <2> TAKE n \in Numbers
  <2>1. Knows(p, rec, n) => Known(n) BY <1>4 DEF Knows, Known
  <2>2. Lost(n) => n \in versions'
    <3>1. Lost(n) => exec[p].op = Generate(n) BY <1>1, <1>2, <1>5 DEF Marks
    <3>2. QED BY <1>3, <1>4, <3>1, GenerationsAreOperations
  <2>3. Asks(n, rec) BY <1>4 DEF Asks
  <2>4. n \in versions' /\ n \notin versions => n = k BY <1>4
  <2>5. answers'[Generate(n)] = answers[Generate(n)] BY <1>4
  <2>6. QED BY <1>7, <2>1, <2>2, <2>3, <2>4, <2>5 DEF StaysParked
<1>9. PayloadFits(run'.payload) BY <1>4, <1>5
<1>10. QED BY <1>1, <1>4, <1>6, <1>8, <1>9, ParkMoves

LEMMA NotesKeepPark ==
    ASSUME LegacyInv, ParkInv, NEW p \in Procs, RereadRun(p) \/ NoteVersion(p) PROVE ParkInv'
<1> USE DEF RereadRun, NoteVersion, At
<1>1. /\ Generating(exec[p]) /\ exec[p].pc \in BodyPcs /\ exec[p].pc \notin ToAppend
      /\ exec[p].pc # "next" /\ exec[p] \in Activity /\ run \in Run /\ p \in Actors
      /\ p \notin Clients /\ UNCHANGED <<answers, versions>>
  BY GeneratingSteps, InBody, TypesOfLegacyInv, ProcsAreNoClients DEF ToAppend, rows
<1>2. CASE RereadRun(p)
  <2> DEFINE rec == [exec[p] EXCEPT !.pc = "note", !.copy = run.payload]
  <2>1. Go(p, rec) /\ rec.pc = "note" /\ rec.copy = run.payload /\ UNCHANGED run
    BY <1>1, <1>2 DEF Activity
  <2> HIDE DEF rec
  <2>2. PayloadFits(run'.payload) /\ ParkFits(rec) BY <2>1, ParkedIs DEF ParkFits
  <2>3. \A n \in Numbers : StaysParked(p, rec, n)
    BY <1>1, <2>1, NothingIsLost DEF StaysParked, Knows, Known, Asks
  <2>4. QED BY <1>1, <2>1, <2>2, <2>3, ParkMoves
<1>3. CASE NoteVersion(p)
  <2>1. run'.payload = exec[p].copy /\ Go(p, [exec[p] EXCEPT !.pc = "point"]) BY <1>1, <1>3 DEF Run
  <2>2. QED BY <1>1, <2>1, PlaceKeepsPark
<1>4. QED BY <1>2, <1>3

LEMMA CallsKeepsPark == ASSUME LegacyInv, ParkInv, NEW p \in Procs, Calls(p) PROVE ParkInv'
<1> USE DEF Calls, At
<1>1. /\ exec[p].pc = "call" /\ exec[p].pc \in BodyPcs /\ exec[p].pc # "idle" /\ p \in Actors
      /\ exec[p] \in Activity /\ exec[p].script = <<>> /\ p \notin Clients
      /\ answers \in [Operations -> AllAnswers] /\ exec[p].op \in Operations
      /\ exec[p].pc \notin ToAppend /\ UNCHANGED <<run, versions>>
  BY InBody, BodyHasAnOperation, TypesOfLegacyInv, ProcsAreNoClients
  DEF BodyPcs, RowsTypeOK, ToAppend
<1>2. "none" \notin Answers(exec[p].op) BY DEF Answers
<1>3. answers'[exec[p].op] # "none" BY <1>1, <1>2
<1>4. \A op \in Operations : answers[op] # "none" => answers'[op] # "none" BY <1>1, <1>2
<1> HIDE DEF Calls
<1>5. CASE Go(p, Receives(p))
  <2> DEFINE rec == Receives(p)
  <2>1. /\ Go(p, rec) /\ rec.job = exec[p].job /\ rec.script = <<>> /\ rec.copy = exec[p].copy
        /\ rec.op = exec[p].op /\ rec.answer = answers'[exec[p].op]
        /\ rec.pc \in {"park", "record", "commit"}
    BY <1>1, <1>5 DEF Receives, AfterCall, Activity
  <2> HIDE DEF rec
  <2>2. ParkFits(rec) BY <1>1, <1>3, <2>1, ParkedIs DEF ParkFits
  <2>3. \A n \in Numbers : answers'[Generate(n)] = "none" => Asks(n, rec) BY <1>3, <2>1 DEF Asks
  <2>4. QED BY <1>1, <1>4, <2>1, <2>2, <2>3, BodyKeepsPark
<1>6. CASE Go(p, Thrown(p, "retryable"))
  <2> DEFINE rec == Thrown(p, "retryable")
  <2>1. Go(p, rec) /\ Resting(rec) BY <1>1, <1>6, ThrownFits
  <2> HIDE DEF rec
  <2>2. \A n \in Numbers : StaysParked(p, rec, n)
    <3> TAKE n \in Numbers
    <3>1. /\ Marks(n, rec) /\ Asks(n, rec) /\ rec.copy.pending # Generate(n)
          /\ Lost(n) => run.payload.pending = Generate(n)
      BY <2>1, RestingParksNothing, ParkedIs
    <3>2. QED BY <1>1, <3>1 DEF StaysParked, Knows, Known
  <2>3. ParkFits(rec) /\ PayloadFits(run'.payload) BY <1>1, <2>1, RestingParksNothing, ParkedIs
  <2>4. QED BY <1>1, <1>4, <2>1, <2>2, <2>3, ParkMoves
<1>7. QED BY <1>5, <1>6 DEF Calls

\* A body comes to its end.
LEMMA ThenParks ==
    ASSUME LegacyInv, ParkInv, NEW p \in Procs, exec[p].pc \in BodyPcs, NEW script, NEW copy,
           Go(p, Then(p, script, copy)), UNCHANGED <<answers, versions>>,
           Generating(exec[p]) => exec[p].pc \in {"ready", "next"},
           PayloadFits(copy), PayloadFits(run'.payload),
           copy.pending \in {NoOperation, run.payload.pending, exec[p].copy.pending},
           run'.payload.pending \in {NoOperation, run.payload.pending, exec[p].copy.pending},
           ~Generating(exec[p]) =>
              run'.payload.pending \in {run.payload.pending, exec[p].copy.pending},
           Stage(exec[p]) = "FINAL_QA_RUNNING" => copy.pending = exec[p].copy.pending
    PROVE  ParkInv'
<1> DEFINE rec == Then(p, script, copy)
<1>1. /\ Go(p, rec) /\ rec.pc = "script" /\ rec.op = NoOperation /\ ~rec.giving
      /\ rec.copy = copy /\ Stage(rec) = Stage(exec[p])
  BY ThenIs
<1> HIDE DEF rec
<1>2. p \in Actors /\ p \notin Clients /\ NoOperation # Repair
      /\ \A n : NoOperation # Generate(n)
  BY ProcsAreNoClients DEF NoOperation, Repair, Generate
<1>3. ParkFits(rec) BY <1>1, <1>2 DEF ParkFits
<1>4. \A n \in Numbers : StaysParked(p, rec, n)
  <2> TAKE n \in Numbers
  <2>1. Knows(p, rec, n) => Known(n) BY <1>1, <1>2 DEF Knows, Known
  <2>2. Asks(n, rec) BY <1>1, <1>2 DEF Asks
  <2>3. ASSUME Lost(n) PROVE run'.payload.pending = Generate(n) /\ Marks(n, rec)
    <3>1. ~Generating(exec[p]) BY <2>3, NothingIsLost DEF ToAppend
    <3>2. run.payload.pending = Generate(n) /\ exec[p].copy.pending = Generate(n)
      BY <2>3, ParkedIs DEF Marks
    <3>3. rec.pc \notin BodyPcs /\ ~Generating(rec) BY <1>1, <3>1 DEF BodyPcs, Generating
    <3>4. QED BY <1>1, <3>1, <3>2, <3>3 DEF Marks
  <2>4. QED BY <2>1, <2>2, <2>3 DEF StaysParked
<1>5. QED BY <1>1, <1>2, <1>3, <1>4, ParkMoves

LEMMA ExtractKeepsPark == ASSUME LegacyInv, ParkInv, NEW p \in Procs, Extract(p) PROVE ParkInv'
<1> USE DEF Extract, At
<1>1. /\ exec[p].pc = "extract" /\ exec[p].pc \in BodyPcs /\ exec[p].pc # "idle" /\ p \in Actors
  BY InBody DEF BodyPcs
<1>2. Stage(exec[p]) = "RESEARCH_RUNNING" /\ UNCHANGED <<run, jobs, ledger, answers, versions>>
  BY <1>1, InBody DEF PcsOf
<1>3. ~Generating(exec[p]) BY <1>2 DEF Generating, GeneratingStages
<1>4. CASE app' = app /\ Go(p, GoesOn(p))
  <2>1. CASE Calm BY <2>1, CalmKeepsPark
  <2>2. CASE ~Calm
    <3>1. Go(p, [exec[p] EXCEPT !.pc = "reserve"]) BY <1>1, <1>4, <2>2, ExtractGoesOn
    <3>2. QED BY <1>1, <1>2, <1>3, <3>1, PlaceKeepsPark
  <2>3. QED BY <2>1, <2>2
<1>5. CASE Go(p, Pauses(p))
  <2>1. PICK script : Go(p, Then(p, script, NoPayload)) BY <1>5 DEF Pauses
  <2>2. NoPayload.pending = NoOperation /\ NoOperation # Repair
    BY NoPayloadIsAPayload DEF NoOperation, Repair
  <2>3. PayloadFits(NoPayload) /\ PayloadFits(run'.payload) BY <1>2, <2>2, ParkedIs DEF PayloadFits
  <2>4. QED BY <1>1, <1>2, <1>3, <2>1, <2>2, <2>3, ThenParks
<1>6. QED BY <1>4, <1>5

LEMMA CheckLocallyKeepsPark ==
    ASSUME LegacyInv, ParkInv, NEW p \in Procs, CheckLocally(p) PROVE ParkInv'
<1> USE DEF CheckLocally, At
<1>1. /\ exec[p].pc = "look" /\ exec[p].pc \in BodyPcs /\ exec[p].op = NoOperation
      /\ exec[p] \in Activity /\ exec[p].script = <<>> /\ exec[p].pc # "next"
      /\ UNCHANGED <<run, answers, versions>>
  BY InBody DEF BodyPcs, rows
<1>2. Stage(exec[p]) = "FINAL_QA_RUNNING" BY <1>1, InBody, OpsOfStages DEF OpFits
<1>3. ~Generating(exec[p]) BY <1>2 DEF Generating, GeneratingStages
<1>4. PayloadFits(exec[p].copy) /\ PayloadFits(run'.payload) BY <1>1, ParkedIs
<1>5. CASE Go(p, [exec[p] EXCEPT !.pc = "reserve",
                                 !.op = OperationAt("FINAL_QA_RUNNING", FALSE, Latest)])
  <2> DEFINE op == OperationAt("FINAL_QA_RUNNING", FALSE, Latest)
             rec == [exec[p] EXCEPT !.pc = "reserve", !.op = op]
  <2>1. op # Repair /\ \A n : op # Generate(n)
    BY DEF OperationAt, Repair, Generate, GeneratingStages, AuditStages
  <2>2. /\ rec.pc = "reserve" /\ rec.job = exec[p].job /\ rec.op = op /\ rec.copy = exec[p].copy
        /\ rec.script = <<>>
    BY <1>1 DEF Activity
  <2>3. Go(p, rec) BY <1>5
  <2> HIDE DEF op, rec
  <2>4. ~Generating(rec) BY <1>3, <2>2 DEF Stage, Generating
  <2>5. ParkFits(rec) /\ \A n \in Numbers : Asks(n, rec) BY <1>4, <2>1, <2>2 DEF ParkFits, Asks
  <2>6. QED BY <1>1, <2>2, <2>3, <2>4, <2>5, BodyKeepsPark
<1>6. CASE Go(p, Then(p, FailedQa, exec[p].copy))
  <2> DEFINE copy == exec[p].copy
  <2>1. Go(p, Then(p, FailedQa, copy)) /\ PayloadFits(copy) /\ copy.pending = exec[p].copy.pending
    BY <1>4, <1>6
  <2> HIDE DEF copy
  <2>2. QED BY <1>1, <1>3, <1>4, <2>1, ThenParks
<1>7. QED BY <1>5, <1>6

\* The repair is announced in the copy, which keeps what is parked.
LEMMA StartRepairParks ==
    ASSUME LegacyInv, ParkInv, NEW p \in Procs, exec[p].pc \in BodyPcs,
           Stage(exec[p]) = "FINAL_QA_RUNNING", StartRepair(p), UNCHANGED <<answers, versions>>
    PROVE  ParkInv'
<1> DEFINE payload == [exec[p].copy EXCEPT !.claims = NoClaims, !.repair = TRUE]
<1>1. run \in Run /\ exec[p].copy \in Payload /\ ~Generating(exec[p])
  BY TypesOfLegacyInv, InBody DEF Generating, GeneratingStages
<1>2. payload.repair /\ payload.pending = exec[p].copy.pending BY <1>1 DEF Payload
<1>3. run'.payload = payload BY <1>1 DEF StartRepair, Run
<1>4. PICK script : Go(p, Then(p, script, payload)) BY DEF StartRepair
<1> HIDE DEF payload
<1>5. PayloadFits(payload) BY <1>2 DEF PayloadFits
<1>6. QED BY <1>1, <1>2, <1>3, <1>4, <1>5, ThenParks

LEMMA JudgeKeepsPark == ASSUME LegacyInv, ParkInv, NEW p \in Procs, Judge(p) PROVE ParkInv'
<1> USE DEF Judge, At
<1>1. /\ exec[p].pc = "judge" /\ exec[p].pc \in BodyPcs /\ exec[p].pc # "idle" /\ p \in Actors
      /\ StageAt(p) = Stage(exec[p])
  BY InBody DEF BodyPcs
<1>2. ~Generating(exec[p]) /\ UNCHANGED <<jobs, app, ledger, answers, versions>>
  <2>1. exec[p].pc \in PcsOf(Stage(exec[p])) BY <1>1, InBody
  <2>2. QED BY <1>1, <2>1 DEF PcsOf, Generating, rows
<1>3. PayloadFits(NoPayload) /\ NoPayload.pending = NoOperation
      /\ PayloadFits(exec[p].copy) /\ PayloadFits(run.payload)
  BY NoPayloadIsAPayload, ParkedIs DEF PayloadFits, NoOperation, Repair
<1>4. CASE UNCHANGED run /\ Stage(exec[p]) # "FINAL_QA_RUNNING"
           /\ \E script : Go(p, Then(p, script, NoPayload))
  BY <1>1, <1>2, <1>3, <1>4, ThenParks
<1>5. CASE Stage(exec[p]) = "FINAL_QA_RUNNING" /\ JudgeQa(p)
  <2>1. CASE StartRepair(p) BY <1>1, <1>2, <1>5, <2>1, StartRepairParks
  <2>2. CASE Go(p, Thrown(p, "permanent")) /\ UNCHANGED run
    <3>1. Calm BY <1>1, <1>2, <2>2, ThrownIsCalm
    <3>2. QED BY <3>1, CalmKeepsPark
  <2>3. CASE UNCHANGED run /\ \E script : Go(p, Then(p, script, exec[p].copy))
    <3> DEFINE copy == exec[p].copy
    <3>1. PICK script : Go(p, Then(p, script, copy)) BY <2>3
    <3>2. PayloadFits(copy) /\ copy.pending = exec[p].copy.pending BY <1>3
    <3> HIDE DEF copy
    <3>3. QED BY <1>1, <1>2, <1>3, <2>3, <3>1, <3>2, ThenParks
  <2>4. QED BY <1>5, <2>1, <2>2, <2>3 DEF JudgeQa
<1>6. QED BY <1>1, <1>4, <1>5 DEF AuditStages

\* A finalization goes on to its last part.
LEMMA NextParks ==
    ASSUME LegacyInv, ParkInv, NEW p \in Procs, NEW rec, Go(p, rec), rec.pc = "next",
           PayloadFits(rec.copy), rec.copy.pending \in {NoOperation, exec[p].copy.pending},
           UNCHANGED <<run, answers, versions>>, \A n \in Numbers : ~Lost(n)
    PROVE  ParkInv'
<1>1. p \in Actors /\ p \notin Clients /\ \A n : NoOperation # Generate(n)
  BY ProcsAreNoClients DEF NoOperation, Generate
<1>2. ParkFits(rec) /\ PayloadFits(run'.payload) BY ParkedIs DEF ParkFits
<1>3. \A n \in Numbers : StaysParked(p, rec, n)
  <2> TAKE n \in Numbers
  <2>1. (Knows(p, rec, n) => Known(n)) /\ Asks(n, rec) BY <1>1 DEF Knows, Known, Asks
  <2>2. QED BY <2>1 DEF StaysParked
<1>4. QED BY <1>1, <1>2, <1>3, ParkMoves

LEMMA BecomesReadyKeepsPark ==
    ASSUME LegacyInv, ParkInv, NEW p \in Procs, BecomesReady(p) PROVE ParkInv'
<1>1. PICK copy : GoesOnWith(p, copy) BY BecomesReadyIs
<1>2. copy.pending = NoOperation /\ PayloadFits(copy) /\ PayloadFits(run.payload)
  BY <1>1, ParkedIs DEF GoesOnWith, PayloadFits, NoOperation, Repair
<1>3. ASSUME NEW script, Go(p, Then(p, script, copy)) PROVE ParkInv'
  BY <1>2, <1>3, BecomesReadyIs, ThenParks
<1>4. ASSUME NEW rec, Go(p, rec), rec.pc = "next", rec.copy = copy PROVE ParkInv'
  <2>1. \A n \in Numbers : ~Lost(n) BY BecomesReadyIs, NothingIsLost DEF ToAppend
  <2>2. QED BY <1>2, <1>4, <2>1, BecomesReadyIs, NextParks
<1>5. QED BY <1>1, <1>3, <1>4 DEF GoesOnWith

LEMMA StartNextKeepsPark == ASSUME LegacyInv, ParkInv, NEW p \in Procs, StartNext(p) PROVE ParkInv'
<1>1. PICK script, copy : Go(p, Then(p, script, copy)) /\ copy.pending = NoOperation BY StartNextIs
<1>2. PayloadFits(copy) /\ PayloadFits(run'.payload)
  BY <1>1, StartNextIs, ParkedIs DEF PayloadFits, NoOperation, Repair
<1>3. QED BY <1>1, <1>2, StartNextIs, ThenParks

LEMMA ResumesKeepsPark == ASSUME LegacyInv, ParkInv, NEW p \in Procs, Resumes(p) PROVE ParkInv'
<1> USE DEF Resumes, At
<1>1. /\ p \in Actors /\ exec[p].pc = "script" /\ exec[p] \in Activity
      /\ exec[p].script # <<>> /\ Head(exec[p].script) \in Allowed(exec[p])
      /\ Head(exec[p].script)[1] = "next"
  BY ProcsAreNoClients, InScript
<1> DEFINE rec == [exec[p] EXCEPT !.pc = "next", !.script = <<>>]
<1>2. /\ Go(p, rec) /\ rec.copy = exec[p].copy /\ rec.pc = "next"
      /\ UNCHANGED <<run, answers, versions>>
  BY <1>1 DEF Activity, rows
<1> HIDE DEF rec
<1>3. Head(exec[p].script) \notin Ends \cup Givings BY <1>1 DEF Ends, Givings
<1>4. ~exec[p].giving /\ Head(exec[p].script) \in After(Stage(exec[p])) BY <1>1, <1>3 DEF Allowed
<1>5. Stage(exec[p]) \in BodyStages \cup {"none"} BY <1>1, AllowedIsInstructions
<1>6. Generating(exec[p]) /\ Ending(exec[p])
  BY <1>1, <1>4, <1>5, AfterIsInstructions DEF Generating, Ending
<1>7. \A n \in Numbers : ~Lost(n) BY <1>6, ParkedIs DEF Marks
<1>8. PayloadFits(rec.copy) BY <1>2, ParkedIs
<1>9. QED BY <1>2, <1>7, <1>8, NextParks

\* A run that is given up keeps what is parked.
LEMMA GiveUpKeepsPark == ASSUME LegacyInv, ParkInv, NEW p \in Procs, GiveUp(p) PROVE ParkInv'
<1> USE DEF GiveUp, At
<1>1. exec[p].pc # "idle" /\ p \in Actors /\ p \notin Clients
      /\ UNCHANGED <<run, jobs, app, ledger, answers, versions>>
  BY ProcsAreNoClients DEF rows
<1>2. CASE run.stage = "FAILED" \/ run.status = "failed"
  <2>1. Go(p, Rest(p, "resolved")) /\ "resolved" \in RestPcs BY <1>2 DEF RestPcs
  <2>2. Calm BY <1>1, <2>1, PlainRestIsCalm
  <2>3. QED BY <2>2, CalmKeepsPark
<1>3. CASE ~(run.stage = "FAILED" \/ run.status = "failed")
  <2>1. PICK script : Go(p, [Then(p, script, run.payload) EXCEPT !.giving = TRUE]) BY <1>3
  <2> DEFINE rec == [Then(p, script, run.payload) EXCEPT !.giving = TRUE]
  <2>2. /\ Go(p, rec) /\ rec.pc = "script" /\ rec.op = NoOperation /\ rec.giving
        /\ rec.copy = run.payload
    BY <2>1 DEF Then, Rest, Idle
  <2> HIDE DEF rec
  <2>3. rec.pc \notin BodyPcs /\ ~Ending(rec) /\ NoOperation # Repair
        /\ \A n : NoOperation # Generate(n)
    BY <2>2 DEF BodyPcs, Ending, NoOperation, Repair, Generate
  <2>4. PayloadFits(run'.payload) /\ ParkFits(rec) BY <1>1, <2>2, <2>3, ParkedIs DEF ParkFits
  <2>5. \A n \in Numbers : StaysParked(p, rec, n)
    <3> TAKE n \in Numbers
    <3>1. (Knows(p, rec, n) => Known(n)) /\ Asks(n, rec) BY <1>1, <2>2, <2>3 DEF Knows, Known, Asks
    <3>2. ASSUME Lost(n) PROVE run'.payload.pending = Generate(n) /\ Marks(n, rec)
      <4>1. run.payload.pending = Generate(n) BY <3>2, ParkedIs
      <4>2. QED BY <1>1, <2>2, <2>3, <4>1 DEF Marks
    <3>3. QED BY <1>1, <3>1, <3>2 DEF StaysParked
  <2>6. QED BY <1>1, <2>2, <2>4, <2>5, ParkMoves
<1>4. QED BY <1>2, <1>3

-----------------------------------------------------------------------------
(* Claims and transitions keep what is parked.                              *)

LEMMA GenerationOfAStage ==
    ASSUME NEW stage \in GeneratingStages, NEW repairing \in BOOLEAN
    PROVE  OperationAt(stage, repairing, 4)
             = Generate(IF repairing THEN RepairVersion ELSE VersionOf[stage])
<1>1. stage \notin AuditStages /\ stage \notin {"RESEARCH_RUNNING", "EVIDENCE_MATCHING_RUNNING"}
  BY DEF AuditStages, GeneratingStages
<1>2. OperationAt(stage, repairing, 4)
        = <<"generate", IF repairing THEN RepairVersion ELSE VersionOf[stage]>>
  BY <1>1 DEF OperationAt
<1>3. QED BY <1>2 DEF Generate

\* The body that claims a generation's stage is about the parked result, if its answer ran out.
LEMMA LostIsAskedFor ==
    ASSUME LegacyInv, Lines, ParkInv, run.stage \in GeneratingStages, NEW n \in Numbers, Lost(n)
    PROVE  OperationAt(run.stage, run.payload.repair, 4) = Generate(n)
<1>1. /\ run.payload.pending = Generate(n) /\ PayloadFits(run.payload)
      /\ n \notin versions /\ Known(n)
  BY DEF ParkInv, Marked, Lost
<1>2. run.payload.repair \in BOOLEAN /\ (run.payload.repair => 4 \in versions)
  BY TypesOfLegacyInv, PayloadFields DEF RunFollowsV4, Run
<1> DEFINE number == IF run.payload.repair THEN RepairVersion ELSE VersionOf[run.stage]
<1>3. OperationAt(run.stage, run.payload.repair, 4) = Generate(number) BY <1>2, GenerationOfAStage
<1>4. ASSUME NEW m \in 0..3, Early(m) PROVE number = n
  <2>1. n = m /\ ~run.payload.repair /\ run.stage \in Span[m]
    BY <1>1, <1>2, <1>4 DEF Early, KnowsOnly, Within
  <2>2. VersionOf[run.stage] = m BY <2>1, Spaces
  <2>3. QED BY <2>1, <2>2
<1>5. ASSUME Late PROVE number = n
  <2>1. n \in {4, RepairVersion} /\ run.stage = "V4_GENERATING"
    BY <1>1, <1>5 DEF Late, KnowsOnly, Within, TailSpan, GeneratingStages
  <2>2. VersionOf[run.stage] = 4 BY <2>1, Tables
  <2>3. CASE run.payload.repair BY <1>1, <1>2, <2>1, <2>3
  <2>4. CASE ~run.payload.repair
    <3>1. run.payload.pending # Repair BY <1>1, <2>4 DEF PayloadFits
    <3>2. n # RepairVersion BY <1>1, <3>1, GenerationsAreOperations
    <3>3. QED BY <2>1, <2>2, <2>4, <3>2
  <2>5. QED BY <2>3, <2>4
<1>6. QED BY <1>3, <1>4, <1>5 DEF Lines

LEMMA ClaimStageKeepsPark ==
    ASSUME LegacyInv, Lines, ParkInv, NEW p \in Procs, ClaimStage(p) PROVE ParkInv'
<1> DEFINE stage == Stage(exec[p])
<1>1. p \in Actors /\ p \notin Clients /\ stage \in BodyStages BY ClaimStageIs
<1>2. CASE ~Calm
  <2>1. PICK rec : Claims(p, rec) BY <1>2, ClaimStageIs
  <2>2. /\ Go(p, rec) /\ rec.copy = run'.payload
        /\ rec.pc \in {"extract", "look", "reserve"} /\ (stage \in GeneratingStages => rec.pc = "look")
        /\ rec.op = IF stage = "FINAL_QA_RUNNING" THEN NoOperation
                    ELSE OperationAt(stage, run.payload.repair, 4)
        /\ run.stage = stage \/ stage = "RESEARCH_RUNNING"
        /\ run'.payload.repair = run.payload.repair /\ run'.payload.pending = run.payload.pending
        /\ UNCHANGED <<answers, versions>>
    BY <2>1 DEF Claims
  <2>3. /\ ~Ending(rec) /\ (Generating(rec) <=> stage \in GeneratingStages)
        /\ rec.op = Repair => run.payload.repair
        /\ stage # "FINAL_QA_RUNNING" => rec.op \in OpsOf(stage)
    BY <1>1, <2>1, ClaimedBodyIs DEF Generating
  <2>4. ASSUME NEW n \in Numbers, rec.op = Generate(n) PROVE stage \in GeneratingStages
    <3>1. rec.op # NoOperation /\ rec.op[1] = "generate" BY <2>4, GenerationsAreOperations
    <3>2. QED BY <1>1, <2>2, <2>3, <3>1, OpsOfStages
  <2>5. ASSUME stage \in GeneratingStages
        PROVE  run.stage = stage /\ rec.op = OperationAt(run.stage, run.payload.repair, 4)
    BY <2>2, <2>5 DEF GeneratingStages
  <2>6. PayloadFits(run'.payload) /\ ParkFits(rec)
    <3>1. PayloadFits(run.payload) BY ParkedIs
    <3>2. QED BY <2>2, <2>3, <3>1 DEF PayloadFits, ParkFits
  <2>7. \A n \in Numbers : StaysParked(p, rec, n)
    <3> TAKE n \in Numbers
    <3>1. Knows(p, rec, n) => Known(n) BY <2>2 DEF Knows, Known
    <3>2. Asks(n, rec) BY <2>2, <2>4 DEF Asks
    <3>3. ASSUME Lost(n) PROVE run'.payload.pending = Generate(n) /\ Marks(n, rec)
      <4>1. run'.payload.pending = Generate(n) BY <2>2, <3>3, ParkedIs
      <4>2. Generating(rec) => rec.op = Generate(n) /\ rec.pc = "look"
        BY <2>2, <2>3, <2>5, <3>3, LostIsAskedFor
      <4>3. QED BY <2>2, <2>3, <4>1, <4>2 DEF Marks, ToAppend
    <3>4. QED BY <2>2, <3>1, <3>2, <3>3 DEF StaysParked
  <2>8. QED BY <1>1, <2>2, <2>6, <2>7, ParkMoves
<1>3. QED BY <1>2, CalmKeepsPark

LEMMA SpeakingKeepsPark ==
    ASSUME LegacyInv, ParkInv, NEW a \in Actors, exec[a].pc \in {"script", "enqueue"},
           NEW rec, Go(a, rec), SpeaksOn(rec, exec[a]), UNCHANGED <<answers, versions>>,
           \/ run'.payload = run.payload
           \/ /\ a \in Procs /\ run'.payload = exec[a].copy
              /\ \A n \in Numbers : Lost(n) => exec[a].copy.pending = Generate(n)
    PROVE  ParkInv'
<1>1. /\ rec.op = NoOperation /\ rec.copy = exec[a].copy /\ rec.giving = exec[a].giving
      /\ rec.pc \notin BodyPcs /\ rec.pc \notin {"park", "append"} /\ Stage(rec) = Stage(exec[a])
      /\ Ending(rec) => Ending(exec[a])
  BY InScript DEF SpeaksOn, BodyPcs, Stage, Ending
<1>2. NoOperation # Repair /\ \A n : NoOperation # Generate(n) BY DEF NoOperation, Repair, Generate
<1>3. a \in Procs => ParkFits(rec) /\ PayloadFits(exec[a].copy) BY <1>1, <1>2, ParkedIs DEF ParkFits
<1>4. PayloadFits(run.payload) /\ \A c \in Clients : ~exec[c].giving BY DEF ParkInv
<1>5. \A n \in Numbers : StaysParked(a, rec, n)
  <2> TAKE n \in Numbers
  <2>1. Knows(a, rec, n) => Known(n) BY <1>1 DEF Knows, Known
  <2>2. Asks(n, rec) BY <1>1, <1>2 DEF Asks
  <2>3. ASSUME Lost(n) PROVE run'.payload.pending = Generate(n) /\ (a \in Procs => Marks(n, rec))
    <3>1. run.payload.pending = Generate(n) BY <2>3 DEF ParkInv, Marked
    <3>2. a \in Procs => Marks(n, exec[a]) BY <2>3, ParkedIs
    <3>3. a \in Procs => Marks(n, rec) BY <1>1, <3>2 DEF Marks, Generating
    <3>4. QED BY <2>3, <3>1, <3>3
  <2>4. QED BY <2>1, <2>2, <2>3 DEF StaysParked
<1>6. QED BY <1>1, <1>3, <1>4, <1>5, ParkMoves

LEMMA SaysKeepPark ==
    ASSUME LegacyInv, ParkInv, NEW a \in Actors,
           WriteApplication(a) \/ Enqueue(a) \/ Refund(a) \/ EnqueueDocuments(a)
    PROVE  ParkInv'
<1> USE DEF WriteApplication, Enqueue, Refund, EnqueueDocuments, At
<1>1. /\ exec[a].pc \in {"script", "enqueue"} /\ exec[a] \in Activity
      /\ UNCHANGED <<run, answers, versions>>
  BY InScript DEF rows
<1>2. PICK rec : Go(a, rec) /\ rec \in {[exec[a] EXCEPT !.script = Tail(@)],
                                        [exec[a] EXCEPT !.pc = "script", !.adds = NoJob]}
  OBVIOUS
<1>3. SpeaksOn(rec, exec[a]) BY <1>1, <1>2 DEF SpeaksOn, Activity
<1>4. QED BY <1>1, <1>2, <1>3, SpeakingKeepsPark

LEMMA TransitionKeepsPark ==
    ASSUME LegacyInv, ParkInv, NEW a \in Actors, Transition(a) PROVE ParkInv'
<1> DEFINE kind == Head(exec[a].script)[1]
<1>1. exec[a].pc = "script" /\ exec[a].pc # "idle" /\ kind \in {"move", "pause", "put"}
  BY TransitionIs
<1>2. CASE ~Calm
  <2>1. PICK rec : Moves(a, rec, Head(exec[a].script)[2]) BY <1>2, TransitionIs
  <2>2. /\ Go(a, rec) /\ SpeaksOn(rec, exec[a]) /\ UNCHANGED <<answers, versions>>
        /\ run'.payload = IF kind = "put" THEN exec[a].copy ELSE run.payload
    BY <1>2, <2>1, TransitionIs DEF Moves
  <2>3. ASSUME kind = "put"
        PROVE  a \in Procs /\ \A n \in Numbers : Lost(n) => exec[a].copy.pending = Generate(n)
    <3>1. CASE exec[a].giving
      <4>1. a \in Procs BY <3>1 DEF ParkInv, Actors
      <4>2. QED BY <3>1, <4>1, ParkedIs DEF Marks
    <3>2. CASE ~exec[a].giving
      <4> DEFINE of == Stage(exec[a])
      <4>1. /\ Ending(exec[a]) /\ Head(exec[a].script) \in After(of)
            /\ a \in Clients => of = "none"
        BY <1>1, <3>2, NextInstruction
      <4>2. of \in GeneratingStages \/ of = "FINAL_QA_RUNNING"
        <5>1. ASSUME of \notin GeneratingStages, of # "FINAL_QA_RUNNING" PROVE FALSE
          <6>1. Head(exec[a].script)[1] \in {"move", "app", "pause"} BY <4>1, <5>1 DEF After
          <6>2. QED BY <2>3, <6>1
        <5>2. QED BY <5>1
      <4>3. a \in Procs BY <4>1, <4>2 DEF Actors, GeneratingStages
      <4>4. QED BY <4>1, <4>2, <4>3, ParkedIs DEF Marks, Generating
    <3>3. QED BY <3>1, <3>2
  <2>4. QED BY <1>1, <2>2, <2>3, SpeakingKeepsPark
<1>3. QED BY <1>2, CalmKeepsPark

LEMMA ClientsKeepPark ==
    ASSUME LegacyInv, ParkInv, NEW c \in Clients, ResumePaused(c) \/ Retry(c) PROVE ParkInv'
<1>1. c \in Actors /\ c \notin Procs /\ run \in Run BY ProcsAreNoClients, TypesOfLegacyInv
<1>2. /\ UNCHANGED <<answers, versions>> /\ run'.payload = run.payload
  BY <1>1 DEF ResumePaused, Retry, rows, Run
<1>3. PICK rec : Go(c, rec) /\ ~rec.giving
  <2>1. ASSUME NEW script, Go(c, Then(c, script, NoPayload)) PROVE \E rec : Go(c, rec) /\ ~rec.giving
    BY <2>1, ThenIs
  <2>2. Retry(c) => \E rec : Go(c, rec) /\ ~rec.giving BY RetryIs
  <2>3. QED BY <2>1, <2>2 DEF ResumePaused
<1>4. PayloadFits(run'.payload) BY <1>2 DEF ParkInv
<1>5. \A n \in Numbers : StaysParked(c, rec, n)
  <2> TAKE n \in Numbers
  <2>1. Knows(c, rec, n) => Known(n) BY <1>1, <1>2 DEF Knows, Known
  <2>2. Lost(n) => run'.payload.pending = Generate(n) BY <1>2 DEF ParkInv, Marked
  <2>3. QED BY <1>1, <1>2, <2>1, <2>2 DEF StaysParked
<1>6. QED BY <1>1, <1>2, <1>3, <1>4, <1>5, ParkMoves

\* Every step of the specification keeps what is parked.
LEMMA NextKeepsPark == Whole /\ Lines /\ ParkInv /\ [Next]_vars => ParkInv'
<1> SUFFICES ASSUME Whole, Lines, ParkInv, [Next]_vars PROVE ParkInv'
  OBVIOUS
<1>0. LegacyInv BY WholeIs
<1>1. ASSUME NEW a \in Actors, Speaks(a) PROVE ParkInv'
  BY <1>0, <1>1, TransitionKeepsPark, SaysKeepPark DEF Speaks
<1>2. ASSUME NEW p \in Procs, Works(p) PROVE ParkInv'
  BY <1>0, <1>2, ClaimStageKeepsPark, GiveUpKeepsPark, ExtractKeepsPark, CallsKeepsPark,
     CommitKeepsPark, JudgeKeepsPark, CheckLocallyKeepsPark, PersistBackendKeepsPark, PlacesKeepPark
     DEF Works
<1>3. ASSUME NEW p \in Procs, Finishes(p) PROVE ParkInv'
  BY <1>0, <1>3, ParkKeepsPark, PlacesKeepPark, AppendVersionKeepsPark, NotesKeepPark, BecomesReadyKeepsPark,
     ResumesKeepsPark, StartNextKeepsPark DEF Finishes
<1>4. QED
  BY <1>0, <1>1, <1>2, <1>3, StepsAre, CalmKeepsPark, ClientsKeepPark, AnswerExpiresKeepsPark

\* An operation is carried out only by a call about it.
LEMMA OnlyCallsAreAnswered ==
    ASSUME LegacyInv, [Next]_vars, NEW op \in Operations, answers[op] = "none", answers'[op] # "none"
    PROVE  \E p \in Procs : exec[p].pc = "call" /\ exec[p].op = op
<1>1. ~Calm /\ answers' # answers BY DEF Calm
<1>2. \A a \in Actors : ~Speaks(a)
  BY <1>1 DEF Speaks, Transition, Enqueue, WriteApplication, Refund, EnqueueDocuments, rows
<1>3. \A c \in Clients : ~(ResumePaused(c) \/ Retry(c)) BY <1>1 DEF ResumePaused, Retry, rows
<1>4. \A o \in Operations : ~AnswerExpires(o) BY TypesOfLegacyInv DEF AnswerExpires, RowsTypeOK
<1>5. \A p \in Procs : ~Finishes(p)
  BY <1>1 DEF Finishes, LookUpVersion, Park, AppendVersion, RereadRun, NoteVersion, SetCurrent, BecomesReady, Resumes,
     StartNext, RecordAudit, RecordFindings, rows
<1>6. PICK p \in Procs : Works(p) BY <1>1, <1>2, <1>3, <1>4, <1>5, StepsAre
<1>7. ~(\/ ClaimStage(p) \/ GiveUp(p) \/ Extract(p) \/ Reserve(p) \/ PersistBackend(p)
        \/ Commit(p) \/ Judge(p) \/ CheckLocally(p))
  BY <1>1 DEF ClaimStage, GiveUp, Extract, Reserve, PersistBackend, Commit, Judge, CheckLocally, rows
<1>8. Calls(p) BY <1>6, <1>7 DEF Works
<1>9. QED BY <1>8, TypesOfLegacyInv DEF Calls, At, RowsTypeOK

LEMMA ParkedIsNotAskedAgain ==
    ASSUME Whole, ParkInv, [Next]_vars, NEW op \in Operations,
           run.payload.pending = op \/ (op[1] = "generate" /\ op[2] \in versions)
    PROVE  ~(answers[op] = "none" /\ answers'[op] # "none")
<1> SUFFICES ASSUME answers[op] = "none", answers'[op] # "none" PROVE FALSE
  OBVIOUS
<1>1. LegacyInv /\ run \in Run /\ versions \subseteq Numbers
  BY WholeIs, TypesOfLegacyInv DEF RowsTypeOK, Numbers
<1>2. PICK p \in Procs : exec[p].pc = "call" /\ exec[p].op = op BY <1>1, OnlyCallsAreAnswered
<1>3. PICK n \in Numbers : op = Generate(n)
  <2>1. run.payload.pending \in ({"generate"} \X (0..RepairVersion)) \cup {NoOperation}
    BY <1>1 DEF Run, Payload
  <2>2. NoOperation \notin Operations BY DEF NoOperation, Operations
  <2>3. CASE run.payload.pending = op BY <2>1, <2>2, <2>3 DEF Numbers, Generate
  <2>4. CASE op[1] = "generate" BY <2>4 DEF Operations, Numbers, Generate
  <2>5. QED BY <2>3, <2>4
<1>4. exec[p].pc \in BodyPcs /\ exec[p].pc \notin ToAppend BY <1>2 DEF BodyPcs, ToAppend
<1>5. Generating(exec[p]) BY <1>1, <1>2, <1>3, <1>4, GeneratingBody
<1>6. ~Lost(n) BY <1>4, <1>5, ParkedIs DEF Marks
<1>7. n \in versions BY <1>3, <1>6, GenerationsAreOperations DEF Lost, Known
<1>8. Asks(n, exec[p]) BY <1>3, <1>7, ParkedIs DEF Forgot
<1>9. QED BY <1>2, <1>3, <1>8 DEF Asks

\* ParkedIsNotPaidAgain: a generation whose result is parked in the run's payload, or whose
\* version is there, is not carried out again by the Python service, even after the service has
\* forgotten its answer: each later delivery starts from the parked result or finds the version.
THEOREM ParkedStaysPaid == LPSpec => ParkedIsNotPaidAgain
<1>1. Init => Whole /\ PaidInv /\ Lines /\ ParkInv
  BY WholeHoldsInitially, PaidHoldsInitially, LinesHoldInitially, ParkHoldsInitially
<1>2. Whole /\ PaidInv /\ Lines /\ ParkInv /\ [Next]_vars => Whole' /\ PaidInv' /\ Lines' /\ ParkInv'
  BY NextKeepsWhole, NextKeepsPaid, NextKeepsLines, NextKeepsPark, WholeIs
<1>3. Whole /\ ParkInv /\ [Next]_vars =>
        [\A op \in Operations :
            run.payload.pending = op \/ (op[1] = "generate" /\ op[2] \in versions)
            => ~(answers[op] = "none" /\ answers'[op] # "none")]_vars
  BY ParkedIsNotAskedAgain
<1>4. QED BY <1>1, <1>2, <1>3, PTL DEF LPSpec, ParkedIsNotPaidAgain

=============================================================================
