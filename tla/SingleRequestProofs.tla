-------------------------- MODULE SingleRequestProofs --------------------------
(***************************************************************************)
(* What SingleRequest promises about paid calls, charges, versions and     *)
(* finished runs, for any number of activities, deliveries, timeouts and   *)
(* crashes.  The first part does not need the engine: whatever the queue   *)
(* does, the rows alone keep it.  The second shows that the pipeline is an *)
(* instance of the engine, and with what the engine keeps, that a run      *)
(* which is ready has everything.                                          *)
(***************************************************************************)
EXTENDS SingleRequest, WorkflowEngineProofs

DataTypeOK ==
    /\ body \in [Procs -> Body]
    /\ allowance \in [state : {"ready", "dispatched", "uncertain", "response_saved"},
                      digest : Findings \cup {"none"}, response : Results \cup {"none"}]
    /\ op.research \in Findings \cup {"none"}
    /\ provider \in [sent : Nat, open : Nat]
    /\ usage \in [status : {"absent", "reserved", "committed", "released"}, cost : BOOLEAN]
    /\ version \in Results \cup {"none"}

\* The allowance leaves "ready" with the first call and never returns there.
AllowanceIsSpent ==
    /\ provider.sent <= 1
    /\ provider.open <= provider.sent
    /\ provider.sent > 0 => allowance.state # "ready"

\* A response is saved when the one call has come back.
ResponseIsOfTheCall ==
    allowance.response # "none" => provider.sent = 1 /\ provider.open = 0

Holding == {"patch", "commit", "check", "version", "attach"}

\* Whoever holds a result holds the saved response, and beyond the check a good one.
ResultIsTheResponse ==
    \A p \in Procs :
        /\ body[p].step \in Holding =>
              body[p].result = allowance.response /\ body[p].result # "none"
        /\ body[p].step \in {"version", "attach"} => body[p].result = "good"

DataInv ==
    /\ DataTypeOK
    /\ AllowanceIsSpent
    /\ ResponseIsOfTheCall
    /\ ResultIsTheResponse
    /\ VersionIsTheResponse
    /\ ChargeIsBacked

LEMMA DataInvHoldsInitially == SRInit => DataInv
BY DEF SRInit, DataInv, DataTypeOK, AllowanceIsSpent, ResponseIsOfTheCall, ResultIsTheResponse,
       VersionIsTheResponse, ChargeIsBacked, NotStarted, Body, Steps, Results, Holding

\* A step that only moves p, to a step before it holds a result or with what it held.
LEMMA MovingKeepsDataInv ==
    ASSUME DataInv, NEW p \in Procs,
           UNCHANGED <<allowance, provider, usage, version>>,
           op'.research \in Findings \cup {"none"},
           NEW b \in Body, body' = [body EXCEPT ![p] = b],
           \/ b.step \notin Holding
           \/ b.result = allowance.response /\ b.result # "none"
              /\ (b.step \in {"version", "attach"} => b.result = "good")
    PROVE  DataInv'
<1> USE DEF DataInv
<1>1. DataTypeOK'
  BY DEF DataTypeOK
<1>2. AllowanceIsSpent' /\ ResponseIsOfTheCall' /\ VersionIsTheResponse' /\ ChargeIsBacked'
  BY DEF AllowanceIsSpent, ResponseIsOfTheCall, VersionIsTheResponse, ChargeIsBacked
<1>3. ResultIsTheResponse'
  BY DEF ResultIsTheResponse, DataTypeOK, Holding
<1>4. QED
  BY <1>1, <1>2, <1>3

LEMMA DataInvIsInductive == DataInv /\ [SRNext]_allVars => DataInv'
<1> SUFFICES ASSUME DataInv, [SRNext]_allVars
             PROVE  DataInv'
  OBVIOUS
<1> USE DEF Body, Steps, Results, Holding, In, GoTo, Receives, Throws, Finishes, NotStarted
<1>1. ASSUME NEW p \in Procs,
             \/ LookUpResearch(p) \/ Gather(p) \/ PatchResearch(p)
             \/ ReadOperation(p) \/ Refused(p) \/ AbortsWaiting(p)
             \/ FinalQa(p) \/ EnqueueRender(p) \/ CallFails(p) \/ AttachVersion(p)
      PROVE  DataInv'
  <2>1. UNCHANGED <<allowance, provider, usage, version>>
    BY <1>1 DEF LookUpResearch, Gather, PatchResearch, ReadOperation, Refused, AbortsWaiting,
                FinalQa, EnqueueRender, CallFails, AttachVersion
  <2>2. op'.research \in Findings \cup {"none"}
    <3>1. CASE PatchResearch(p)
      BY <3>1 DEF PatchResearch, DataInv, DataTypeOK
    <3>2. CASE AttachVersion(p)
      BY <3>2 DEF AttachVersion, DataInv, DataTypeOK
    <3>3. CASE UNCHANGED op
      BY <3>3 DEF DataInv, DataTypeOK
    <3>4. QED
      BY <1>1, <3>1, <3>2, <3>3 DEF LookUpResearch, Gather, ReadOperation, Refused, AbortsWaiting,
                FinalQa, EnqueueRender, CallFails
  <2>3. PICK b \in Body : b.step \notin Holding /\ body' = [body EXCEPT ![p] = b]
    BY <1>1 DEF LookUpResearch, Gather, PatchResearch, ReadOperation, Refused, AbortsWaiting,
                FinalQa, EnqueueRender, CallFails, AttachVersion, DataInv, DataTypeOK
  <2>4. QED
    BY <2>1, <2>2, <2>3, MovingKeepsDataInv
<1>2. ASSUME NEW p \in Procs, Reserve(p)
      PROVE  DataInv'
  BY <1>2 DEF Reserve, DataInv, DataTypeOK, AllowanceIsSpent, ResponseIsOfTheCall, ResultIsTheResponse,
         VersionIsTheResponse, ChargeIsBacked
<1>3. ASSUME NEW p \in Procs, Consume(p)
      PROVE  DataInv'
  <2> USE DEF DataInv, DataTypeOK
  <2>1. allowance.state = "ready" /\ provider.sent = 0 /\ provider.open = 0
    BY <1>3 DEF Consume, MayDispatch, AllowanceIsSpent
  <2>2. allowance.response = "none"
    BY <2>1 DEF ResponseIsOfTheCall
  <2>3. /\ provider' = [sent |-> 1, open |-> 1]
        /\ allowance' = [allowance EXCEPT !.state = "dispatched", !.digest = body[p].research]
        /\ UNCHANGED <<op, usage, version>>
    BY <1>3, <2>1, <2>2 DEF Consume
  <2>4. body' = [body EXCEPT ![p] = [body[p] EXCEPT !.step = "await"]]
    BY <1>3 DEF Consume
  <2>5. DataTypeOK'
    BY <2>3, <2>4
  <2>6. AllowanceIsSpent' /\ ResponseIsOfTheCall' /\ VersionIsTheResponse' /\ ChargeIsBacked'
    BY <2>2, <2>3 DEF AllowanceIsSpent, ResponseIsOfTheCall, VersionIsTheResponse, ChargeIsBacked
  <2>7. ResultIsTheResponse'
    BY <2>2, <2>3, <2>4 DEF ResultIsTheResponse
  <2>8. QED
    BY <2>5, <2>6, <2>7
<1>4. ASSUME NEW p \in Procs, Replay(p)
      PROVE  DataInv'
  BY <1>4 DEF Replay, DataInv, DataTypeOK, AllowanceIsSpent, ResponseIsOfTheCall, ResultIsTheResponse,
         VersionIsTheResponse, ChargeIsBacked
<1>5. ASSUME NEW p \in Procs, NEW result \in Results, Lands(p, result)
      PROVE  DataInv'
  <2> USE DEF DataInv, DataTypeOK
  <2>1. provider.sent = 1 /\ provider.open = 1
    BY <1>5 DEF Lands, AllowanceIsSpent
  <2>2. allowance.response = "none" /\ version = "none" /\ usage.status # "committed"
    BY <2>1 DEF ResponseIsOfTheCall, VersionIsTheResponse, ChargeIsBacked
  <2>3. /\ provider' = [sent |-> 1, open |-> 0]
        /\ allowance' = [allowance EXCEPT !.state = "response_saved", !.response = result]
        /\ UNCHANGED <<op, usage, version>>
    BY <1>5, <2>1 DEF Lands
  <2>4. Receives(p, result) \/ body' = body
    BY <1>5 DEF Lands
  <2>5. \A q \in Procs : body[q].step \notin Holding
    BY <2>2 DEF ResultIsTheResponse
  <2>6. DataTypeOK'
    <3>1. body' \in [Procs -> Body]
      BY <2>4
    <3>2. QED
      BY <2>3, <3>1
  <2>7. AllowanceIsSpent' /\ ResponseIsOfTheCall' /\ VersionIsTheResponse' /\ ChargeIsBacked'
    BY <2>2, <2>3 DEF AllowanceIsSpent, ResponseIsOfTheCall, VersionIsTheResponse, ChargeIsBacked
  <2>8. ResultIsTheResponse'
    BY <2>3, <2>4, <2>5 DEF ResultIsTheResponse
  <2>9. QED
    BY <2>6, <2>7, <2>8
<1>6. ASSUME NEW p \in Procs, FailsToLand(p)
      PROVE  DataInv'
  BY <1>6 DEF FailsToLand, DataInv, DataTypeOK, AllowanceIsSpent, ResponseIsOfTheCall, ResultIsTheResponse,
         VersionIsTheResponse, ChargeIsBacked
<1>7. ASSUME NEW p \in Procs, LostInFlight(p)
      PROVE  DataInv'
  BY <1>7 DEF LostInFlight, DataInv, DataTypeOK, AllowanceIsSpent, ResponseIsOfTheCall, ResultIsTheResponse,
         VersionIsTheResponse, ChargeIsBacked
<1>8. ASSUME NEW p \in Procs, PatchValidation(p)
      PROVE  DataInv'
  BY <1>8 DEF PatchValidation, DataInv, DataTypeOK, AllowanceIsSpent, ResponseIsOfTheCall, ResultIsTheResponse,
         VersionIsTheResponse, ChargeIsBacked
<1>9. ASSUME NEW p \in Procs, Commit(p)
      PROVE  DataInv'
  <2>1. UNCHANGED <<op, allowance, provider, version>>
    BY <1>9 DEF Commit
  <2>2. allowance.response # "none" /\ body[p].result = allowance.response
    BY <1>9 DEF Commit, DataInv, ResultIsTheResponse
  <2>3. CASE usage.status = "released"
    <3>1. body' = [body EXCEPT ![p] = NotStarted] /\ UNCHANGED usage
      BY <1>9, <2>3 DEF Commit
    <3>2. NotStarted \in Body /\ NotStarted.step \notin Holding
      OBVIOUS
    <3>3. QED
      BY <2>1, <3>1, <3>2, MovingKeepsDataInv DEF DataInv, DataTypeOK
  <2>4. CASE usage.status # "released"
    <3>1. /\ body' = [body EXCEPT ![p].step = "check"]
          /\ usage' = [status |-> "committed", cost |-> TRUE]
      BY <1>9, <2>4 DEF Commit
    <3>2. DataTypeOK'
      BY <2>1, <3>1 DEF DataInv, DataTypeOK
    <3>3. AllowanceIsSpent' /\ ResponseIsOfTheCall' /\ VersionIsTheResponse' /\ ChargeIsBacked'
      BY <2>1, <2>2, <3>1
      DEF DataInv, AllowanceIsSpent, ResponseIsOfTheCall, VersionIsTheResponse, ChargeIsBacked
    <3>4. ResultIsTheResponse'
      BY <2>1, <2>2, <3>1 DEF DataInv, DataTypeOK, ResultIsTheResponse
    <3>5. QED
      BY <3>2, <3>3, <3>4 DEF DataInv
  <2>5. QED
    BY <2>3, <2>4
<1>10. ASSUME NEW p \in Procs, CheckDraft(p)
      PROVE  DataInv'
  BY <1>10 DEF CheckDraft, DataInv, DataTypeOK, AllowanceIsSpent, ResponseIsOfTheCall, ResultIsTheResponse,
         VersionIsTheResponse, ChargeIsBacked
<1>11. ASSUME NEW p \in Procs, AppendVersion(p)
      PROVE  DataInv'
  BY <1>11 DEF AppendVersion, DataInv, DataTypeOK, AllowanceIsSpent, ResponseIsOfTheCall, ResultIsTheResponse,
         VersionIsTheResponse, ChargeIsBacked
<1>12. ASSUME NEW p \in Procs, RefundReserved(p)
      PROVE  DataInv'
  BY <1>12 DEF RefundReserved, DataInv, DataTypeOK, AllowanceIsSpent, ResponseIsOfTheCall, ResultIsTheResponse,
         VersionIsTheResponse, ChargeIsBacked
<1>13. ASSUME NEW P \in SUBSET Procs, CrashBody(P)
      PROVE  DataInv'
  BY <1>13 DEF CrashBody, DataInv, DataTypeOK, AllowanceIsSpent, ResponseIsOfTheCall, ResultIsTheResponse,
         VersionIsTheResponse, ChargeIsBacked
<1>14. CASE EngineStep \/ UNCHANGED allVars
  BY <1>14 DEF EngineStep, allVars, dataVars, DataInv, DataTypeOK, AllowanceIsSpent, ResponseIsOfTheCall, ResultIsTheResponse,
         VersionIsTheResponse, ChargeIsBacked
<1>15. QED
  BY <1>1, <1>2, <1>3, <1>4, <1>5, <1>6, <1>7, <1>8, <1>9, <1>10, <1>11, <1>12, <1>13, <1>14
  DEF SRNext, BodyStep, PythonStep

LEMMA DataInvHolds == SRSpec => []DataInv
BY DataInvHoldsInitially, DataInvIsInductive, PTL DEF SRSpec

\* At most one paid call per operation, whatever is delivered twice, late or to a dead worker.
THEOREM DispatchedAtMostOnce == SRSpec => []AtMostOneDispatch
<1>1. DataInv => AtMostOneDispatch
  BY DEF DataInv, AllowanceIsSpent, AtMostOneDispatch
<1>2. QED
  BY <1>1, DataInvHolds, PTL

\* A charge has its cost row and a response that was received.
THEOREM ChargesAreBacked == SRSpec => []ChargeIsBacked
BY DataInvHolds, PTL DEF DataInv

\* The version of the operation is the one response, and that passed the checks.
THEOREM VersionsAreResponses == SRSpec => []VersionIsTheResponse
BY DataInvHolds, PTL DEF DataInv

\* Nothing takes a charge back, and nothing charges what was refunded: neither the failure handler
\* nor another delivery.
THEOREM ChargesAreFinal == SRSpec => ChargeIsFinal
<1>1. DataInv /\ [SRNext]_allVars =>
        [usage.status \in {"committed", "released"} => usage' = usage]_allVars
  <2> SUFFICES ASSUME DataInv, SRNext, usage.status \in {"committed", "released"}
               PROVE  usage' = usage
    BY DEF allVars, dataVars
  <2> USE DEF DataInv, DataTypeOK, ChargeIsBacked
  <2>0. usage.status = "committed" => usage = [status |-> "committed", cost |-> TRUE]
    OBVIOUS
  <2>1. ASSUME NEW p \in Procs, Reserve(p) \/ Commit(p) \/ RefundReserved(p)
        PROVE  usage' = usage
    BY <2>0, <2>1 DEF Reserve, Commit, RefundReserved
  <2>2. CASE EngineStep
    BY <2>2 DEF EngineStep, dataVars
  <2>3. CASE PythonStep
    BY <2>3 DEF PythonStep, Lands, FailsToLand, LostInFlight
  <2>4. CASE \E P \in SUBSET Procs : CrashBody(P)
    BY <2>4 DEF CrashBody
  <2>5. ASSUME NEW p \in Procs, BodyStep(p)
        PROVE  usage' = usage
    BY <2>1, <2>5 DEF BodyStep, LookUpResearch, Gather, PatchResearch, ReadOperation, Consume,
        Replay, Refused, AbortsWaiting, PatchValidation, CheckDraft, AppendVersion, AttachVersion,
        FinalQa, EnqueueRender, CallFails
  <2>6. QED
    BY <2>1, <2>2, <2>3, <2>4, <2>5 DEF SRNext
<1>2. QED
  BY <1>1, DataInvHolds, PTL DEF SRSpec, ChargeIsFinal

-----------------------------------------------------------------------------
(* The pipeline and the engine.                                             *)

\* The steps at which a stage body ends well.
Ending(p) == LookUpResearch(p) \/ PatchResearch(p) \/ AttachVersion(p) \/ EnqueueRender(p)

LEMMA BodyStepIsAnEngineStep ==
    ASSUME NEW p \in Procs, BodyStep(p)
    PROVE  OtherStep \/ (WorkDone(p) /\ Ending(p))
<1>1. ASSUME NEW error \in {"retryable", "permanent"}, WorkThrows(p, error) PROVE OtherStep
  BY <1>1 DEF OtherStep
<1>2. CASE UNCHANGED vars
  BY <1>2 DEF OtherStep
<1>3. CASE LookUpResearch(p) \/ PatchResearch(p) \/ AttachVersion(p) \/ EnqueueRender(p)
  BY <1>2, <1>3 DEF LookUpResearch, PatchResearch, AttachVersion, EnqueueRender, Finishes, Ending
<1>4. CASE \/ Gather(p) \/ ReadOperation(p) \/ Reserve(p) \/ Consume(p) \/ Replay(p) \/ Refused(p)
           \/ AbortsWaiting(p) \/ PatchValidation(p) \/ Commit(p) \/ CheckDraft(p)
           \/ AppendVersion(p) \/ FinalQa(p) \/ CallFails(p)
  <2>1. UNCHANGED vars \/ \E error \in {"retryable", "permanent"} : WorkThrows(p, error)
    BY <1>4
    DEF Gather, ReadOperation, Reserve, Consume, Replay, Refused, AbortsWaiting, PatchValidation,
        Commit, CheckDraft, AppendVersion, FinalQa, CallFails, Throws, vars
  <2>2. QED
    BY <1>1, <1>2, <2>1
<1>5. QED
  BY <1>3, <1>4 DEF BodyStep

\* The Python service writes its own rows and ends the wait of one body.
LEMMA PythonStepEffect ==
    ASSUME PythonStep
    PROVE  /\ UNCHANGED <<op, usage, version, render>>
           /\ \/ UNCHANGED vars
              \/ \E p \in Procs : WorkThrows(p, "retryable")
<1>1. ASSUME NEW p \in Procs, NEW result \in Results, Lands(p, result)
      PROVE  UNCHANGED <<op, usage, version, render>> /\ UNCHANGED vars
  BY <1>1 DEF Lands
<1>2. ASSUME NEW p \in Procs, FailsToLand(p) \/ LostInFlight(p)
      PROVE  UNCHANGED <<op, usage, version, render>>
             /\ (UNCHANGED vars \/ WorkThrows(p, "retryable"))
  BY <1>2 DEF FailsToLand, LostInFlight, Throws
<1>3. QED
  BY <1>1, <1>2 DEF PythonStep

LEMMA StepIsAnEngineStep ==
    ASSUME [SRNext]_allVars
    PROVE  OtherStep \/ \E p \in Procs : WorkDone(p) /\ Ending(p)
<1>1. CASE UNCHANGED allVars
  BY <1>1 DEF allVars, OtherStep
<1>2. CASE \E p \in Procs : RefundReserved(p)
  BY <1>2 DEF RefundReserved, OtherStep
<1>3. CASE PythonStep
  BY <1>3, PythonStepEffect DEF OtherStep
<1>4. CASE EngineStep
  BY <1>4 DEF EngineStep, OtherStep, Fault
<1>5. CASE \E P \in SUBSET Procs : CrashBody(P)
  BY <1>5 DEF CrashBody, OtherStep, Fault
<1>6. QED
  BY <1>1, <1>2, <1>3, <1>4, <1>5, BodyStepIsAnEngineStep DEF SRNext

LEMMA OtherStepIsNext == ASSUME OtherStep PROVE [Next]_vars
BY DEF OtherStep, Next, Step

\* The pipeline implements the engine: opening up the stage body, with its rows and its paid call,
\* adds no behaviour to the queue, the claims and the transitions.
THEOREM ImplementsEngine == SRSpec => Spec
<1>1. SRInit => Init
  BY DEF SRInit
<1>2. [SRNext]_allVars => [Next]_vars
  BY StepIsAnEngineStep, OtherStepIsNext DEF Next, Step
<1>3. QED
  BY <1>1, <1>2, PTL DEF SRSpec, Spec

-----------------------------------------------------------------------------
(* Type correctness, and what a run that is ready has.                      *)

OpTypeOK ==
    /\ op \in [research : Findings \cup {"none"}, checked : Results \cup {"none"},
               version : BOOLEAN]
    /\ render \in BOOLEAN

\* Beyond the commit there is a charge, and beyond the append a version.
ProgressIsSaved ==
    /\ \A p \in Procs :
          /\ body[p].step \in {"check", "version", "attach"} => usage.status = "committed"
          /\ body[p].step = "attach" => version # "none"
          /\ body[p].step = "render" => op.version
    /\ op.version => version # "none" /\ usage.status = "committed"

Complete == version = "good" /\ op.version /\ render /\ usage.status = "committed"

\* Nobody is to make the run ready, and it is not ready, unless it has everything.
Unfinished == Moves \ {"FINAL_READY"}
OnlyCompleteEnds == \A a \in Actors : exec[a].todo \in Seq(Unfinished) \/ Complete

ReadyInv ==
    /\ EngineInv
    /\ DataInv
    /\ OpTypeOK
    /\ ProgressIsSaved
    /\ OnlyCompleteEnds
    /\ ReadyIsComplete

\* No step takes back what a run that is ready needs.
LEMMA RowsStay ==
    ASSUME DataInv, OpTypeOK, [SRNext]_allVars
    PROVE  /\ usage.status = "committed" => usage'.status = "committed"
           /\ op.version => op'.version
           /\ version # "none" => version' = version
           /\ render => render'
<1>1. CASE UNCHANGED allVars
  BY <1>1 DEF allVars, dataVars
<1>2. ASSUME NEW p \in Procs, RefundReserved(p)
      PROVE  UNCHANGED <<op, version, render>>
             /\ (usage.status = "committed" => usage'.status = "committed")
  BY <1>2 DEF RefundReserved
<1>3. ASSUME NEW p \in Procs, Reserve(p) \/ Commit(p)
      PROVE  UNCHANGED <<op, version, render>>
             /\ (usage.status = "committed" => usage'.status = "committed")
  BY <1>3 DEF Reserve, Commit
<1>4. ASSUME NEW p \in Procs, PatchResearch(p) \/ PatchValidation(p) \/ AttachVersion(p)
      PROVE  UNCHANGED <<usage, version, render>> /\ (op.version => op'.version)
  BY <1>4 DEF PatchResearch, PatchValidation, AttachVersion, OpTypeOK
<1>5. ASSUME NEW p \in Procs, AppendVersion(p) \/ EnqueueRender(p)
      PROVE  UNCHANGED <<op, usage>> /\ (version # "none" => version' = version)
             /\ (render => render')
  BY <1>5 DEF AppendVersion, EnqueueRender
<1>6. ASSUME NEW p \in Procs,
             \/ LookUpResearch(p) \/ Gather(p) \/ ReadOperation(p) \/ Consume(p) \/ Replay(p)
             \/ Refused(p) \/ AbortsWaiting(p) \/ CheckDraft(p) \/ FinalQa(p) \/ CallFails(p)
      PROVE  UNCHANGED <<op, usage, version, render>>
  BY <1>6 DEF LookUpResearch, Gather, ReadOperation, Consume, Replay, Refused, AbortsWaiting,
              CheckDraft, FinalQa, CallFails
<1>7. CASE PythonStep
  BY <1>7, PythonStepEffect
<1>8. CASE EngineStep
  BY <1>8 DEF EngineStep, dataVars
<1>9. CASE \E P \in SUBSET Procs : CrashBody(P)
  BY <1>9 DEF CrashBody
<1>10. ASSUME NEW p \in Procs, BodyStep(p)
       PROVE  /\ usage.status = "committed" => usage'.status = "committed"
              /\ op.version => op'.version
              /\ version # "none" => version' = version
              /\ render => render'
  BY <1>3, <1>4, <1>5, <1>6, <1>10 DEF BodyStep
<1>11. QED
  BY <1>1, <1>2, <1>7, <1>8, <1>9, <1>10 DEF SRNext

LEMMA CompleteStays ==
    ASSUME DataInv, OpTypeOK, [SRNext]_allVars, Complete PROVE Complete'
BY RowsStay DEF Complete, OpTypeOK

LEMMA OpTypeIsKept == DataInv /\ OpTypeOK /\ [SRNext]_allVars => OpTypeOK'
<1> SUFFICES ASSUME DataInv, OpTypeOK, [SRNext]_allVars PROVE OpTypeOK'
  OBVIOUS
<1>1. ASSUME NEW p \in Procs, PatchResearch(p) \/ PatchValidation(p) \/ AttachVersion(p)
      PROVE  OpTypeOK'
  <2>1. body[p].research \in Findings \cup {"none"} /\ body[p].result \in Results \cup {"none"}
    BY DEF DataInv, DataTypeOK, Body
  <2>2. QED
    BY <1>1, <2>1 DEF PatchResearch, PatchValidation, AttachVersion, OpTypeOK
<1>2. ASSUME NEW p \in Procs, EnqueueRender(p) PROVE OpTypeOK'
  BY <1>2 DEF EnqueueRender, OpTypeOK
<1>3. CASE UNCHANGED <<op, render>>
  BY <1>3 DEF OpTypeOK
<1>4. ASSUME NEW p \in Procs, BodyStep(p) PROVE OpTypeOK'
  BY <1>1, <1>2, <1>3, <1>4
  DEF BodyStep, LookUpResearch, Gather, ReadOperation, Reserve, Consume, Replay, Refused,
      AbortsWaiting, Commit, CheckDraft, AppendVersion, FinalQa, CallFails
<1>5. ASSUME \/ UNCHANGED allVars \/ PythonStep \/ EngineStep
             \/ (\E p \in Procs : RefundReserved(p)) \/ \E P \in SUBSET Procs : CrashBody(P)
      PROVE  UNCHANGED <<op, render>>
  BY <1>5, PythonStepEffect DEF allVars, dataVars, EngineStep, RefundReserved, CrashBody
<1>6. QED
  BY <1>3, <1>4, <1>5 DEF SRNext

\* A step of one body, to a step before the charge or with what that step rests on.
LEMMA ProgressOfOneBody ==
    ASSUME DataInv, OpTypeOK, ProgressIsSaved, [SRNext]_allVars,
           NEW p \in Procs, NEW b \in Body, body' = [body EXCEPT ![p] = b],
           b.step \in {"check", "version", "attach"} => usage'.status = "committed",
           b.step = "attach" => version' # "none",
           b.step = "render" => op'.version,
           op'.version => version' # "none" /\ usage'.status = "committed"
    PROVE  ProgressIsSaved'
<1>1. body'[p] = b /\ \A q \in Procs : q # p => body'[q] = body[q]
  BY DEF DataInv, DataTypeOK
<1>2. QED
  BY <1>1, RowsStay DEF ProgressIsSaved

LEMMA ProgressIsKept ==
    DataInv /\ OpTypeOK /\ ProgressIsSaved /\ [SRNext]_allVars => ProgressIsSaved'
<1> SUFFICES ASSUME DataInv, OpTypeOK, ProgressIsSaved, [SRNext]_allVars PROVE ProgressIsSaved'
  OBVIOUS
<1>1. body \in [Procs -> Body] /\ NotStarted \in Body /\ NotStarted.step = "start"
  BY DEF DataInv, DataTypeOK, NotStarted, Body, Steps
<1>2. CASE UNCHANGED body /\ UNCHANGED <<op, version>>
  BY <1>2, RowsStay DEF ProgressIsSaved
<1>3. ASSUME UNCHANGED op
      PROVE  op'.version => version' # "none" /\ usage'.status = "committed"
  BY <1>3, RowsStay DEF ProgressIsSaved
<1>4. ASSUME NEW p \in Procs, NEW b \in Body, body' = [body EXCEPT ![p] = b], UNCHANGED op,
             b.step \notin {"check", "version", "attach", "render"}
      PROVE  ProgressIsSaved'
  BY <1>3, <1>4, ProgressOfOneBody
<1>5. ASSUME NEW p \in Procs, body' = [body EXCEPT ![p] = NotStarted], UNCHANGED op
      PROVE  ProgressIsSaved'
  BY <1>1, <1>4, <1>5
<1>6. ASSUME NEW p \in Procs, NEW step \in Steps
      PROVE  [body[p] EXCEPT !.step = step] \in Body
             /\ [body[p] EXCEPT !.step = step].step = step
  BY <1>1 DEF Body
<1>7. ASSUME NEW p \in Procs,
             \/ LookUpResearch(p) \/ Gather(p) \/ ReadOperation(p) \/ Reserve(p) \/ Consume(p)
             \/ Replay(p) \/ Refused(p) \/ AbortsWaiting(p) \/ EnqueueRender(p) \/ CallFails(p)
      PROVE  ProgressIsSaved'
  <2>1. UNCHANGED op
    BY <1>7 DEF LookUpResearch, Gather, ReadOperation, Reserve, Consume, Replay, Refused,
                AbortsWaiting, EnqueueRender, CallFails
  <2>2. op.research \in Findings \cup {"none"} /\ allowance.response \in Results \cup {"none"}
    BY DEF DataInv, DataTypeOK
  <2>3. PICK b \in Body : /\ body' = [body EXCEPT ![p] = b]
                          /\ b.step \notin {"check", "version", "attach", "render"}
    BY <1>1, <1>7, <2>2
    DEF LookUpResearch, Gather, ReadOperation, Reserve, Consume, Replay, Refused, AbortsWaiting,
        EnqueueRender, CallFails, GoTo, Receives, Throws, Finishes, Body, Steps
  <2>4. QED
    BY <1>4, <2>1, <2>3
<1>8. ASSUME NEW p \in Procs, PatchResearch(p) \/ AttachVersion(p) PROVE ProgressIsSaved'
  <2>1. body' = [body EXCEPT ![p] = NotStarted]
    BY <1>8 DEF PatchResearch, AttachVersion, Finishes
  <2>2. op'.version => version' # "none" /\ usage'.status = "committed"
    BY <1>8, RowsStay DEF PatchResearch, AttachVersion, In, ProgressIsSaved, OpTypeOK
  <2>3. QED
    BY <1>1, <2>1, <2>2, ProgressOfOneBody
<1>9. ASSUME NEW p \in Procs, PatchValidation(p) PROVE ProgressIsSaved'
  <2>1. body' = [body EXCEPT ![p] = [body[p] EXCEPT !.step = "commit"]]
    BY <1>9 DEF PatchValidation, GoTo
  <2>2. op'.version => version' # "none" /\ usage'.status = "committed"
    BY <1>9, RowsStay DEF PatchValidation, ProgressIsSaved, OpTypeOK
  <2>3. QED
    BY <1>6, <2>1, <2>2, ProgressOfOneBody DEF Steps
<1>10. ASSUME NEW p \in Procs, Commit(p) PROVE ProgressIsSaved'
  <2>1. UNCHANGED op
    BY <1>10 DEF Commit
  <2>2. CASE usage.status = "released"
    BY <1>5, <1>10, <2>1, <2>2 DEF Commit, Throws
  <2>3. CASE usage.status # "released"
    <3>1. /\ body' = [body EXCEPT ![p] = [body[p] EXCEPT !.step = "check"]]
          /\ usage'.status = "committed"
      BY <1>10, <2>3 DEF Commit, GoTo
    <3>2. QED
      BY <1>3, <1>6, <2>1, <3>1, ProgressOfOneBody DEF Steps
  <2>4. QED
    BY <2>2, <2>3
<1>11. ASSUME NEW p \in Procs, CheckDraft(p) PROVE ProgressIsSaved'
  <2>1. UNCHANGED op /\ usage.status = "committed"
    <3>1. \A q \in Procs : body[q].step = "check" => usage.status = "committed"
      BY DEF ProgressIsSaved
    <3>2. QED
      BY <1>11, <3>1 DEF CheckDraft, In
  <2>2. \/ body' = [body EXCEPT ![p] = NotStarted]
        \/ body' = [body EXCEPT ![p] = [body[p] EXCEPT !.step = "version"]]
    BY <1>11 DEF CheckDraft, Throws, GoTo
  <2>3. usage'.status = "committed"
    BY <2>1, RowsStay
  <2>4. QED
    BY <1>3, <1>5, <1>6, <2>1, <2>2, <2>3, ProgressOfOneBody DEF Steps
<1>12. ASSUME NEW p \in Procs, AppendVersion(p) PROVE ProgressIsSaved'
  <2>1. UNCHANGED op /\ usage.status = "committed" /\ body[p].result = "good"
    BY <1>12 DEF AppendVersion, In, ProgressIsSaved, DataInv, ResultIsTheResponse
  <2>2. body' = [body EXCEPT ![p] = [body[p] EXCEPT !.step = "attach"]] /\ version' # "none"
    BY <1>12, <2>1 DEF AppendVersion, GoTo
  <2>3. usage'.status = "committed"
    BY <2>1, RowsStay
  <2>4. QED
    BY <1>3, <1>6, <2>1, <2>2, <2>3, ProgressOfOneBody DEF Steps
<1>13. ASSUME NEW p \in Procs, FinalQa(p) PROVE ProgressIsSaved'
  <2>1. UNCHANGED op
    BY <1>13 DEF FinalQa
  <2>2. \/ body' = [body EXCEPT ![p] = NotStarted]
        \/ op.version /\ body' = [body EXCEPT ![p] = [body[p] EXCEPT !.step = "render"]]
    BY <1>13 DEF FinalQa, Throws, GoTo
  <2>3. CASE body' = [body EXCEPT ![p] = NotStarted]
    BY <1>5, <2>1, <2>3
  <2>4. CASE op.version /\ body' = [body EXCEPT ![p] = [body[p] EXCEPT !.step = "render"]]
    <3>1. op'.version
      BY <2>1, <2>4
    <3> DEFINE b == [body[p] EXCEPT !.step = "render"]
    <3>2. b \in Body /\ b.step = "render" /\ body' = [body EXCEPT ![p] = b]
      BY <1>6, <2>4 DEF Steps
    <3> HIDE DEF b
    <3>3. QED
      BY <1>3, <2>1, <3>1, <3>2, ProgressOfOneBody
  <2>5. QED
    BY <2>2, <2>3, <2>4
<1>14. CASE PythonStep
  <2>1. PICK p \in Procs : (\E result \in Results : Lands(p, result)) \/ FailsToLand(p) \/ LostInFlight(p)
    BY <1>14 DEF PythonStep
  <2>2. UNCHANGED <<op, version>>
    BY <1>14, PythonStepEffect
  <2>3. \/ UNCHANGED body
        \/ \E b \in Body : body' = [body EXCEPT ![p] = b] /\ b.step \in {"start", "patch"}
    BY <1>1, <2>1
    DEF Lands, FailsToLand, LostInFlight, Receives, Throws, Body, Steps, Results
  <2>4. QED
    BY <1>2, <1>4, <2>2, <2>3
<1>15. CASE EngineStep \/ UNCHANGED allVars \/ \E p \in Procs : RefundReserved(p)
  BY <1>2, <1>15 DEF EngineStep, allVars, dataVars, RefundReserved
<1>16. ASSUME NEW P \in SUBSET Procs, CrashBody(P) PROVE ProgressIsSaved'
  <2>1. \A p \in Procs : body'[p] = NotStarted \/ body'[p] = body[p]
    BY <1>16 DEF CrashBody
  <2>2. UNCHANGED <<op, version, usage>>
    BY <1>16 DEF CrashBody
  <2>3. QED
    BY <1>1, <2>1, <2>2 DEF ProgressIsSaved
<1>17. QED
  BY <1>7, <1>8, <1>9, <1>10, <1>11, <1>12, <1>13, <1>14, <1>15, <1>16 DEF SRNext, BodyStep

LEMMA OnlyCompleteEndsIsKept ==
    ReadyInv /\ [SRNext]_allVars => OnlyCompleteEnds'
<1> SUFFICES ASSUME ReadyInv, [SRNext]_allVars, NEW a \in Actors
             PROVE  exec'[a].todo \in Seq(Unfinished) \/ Complete'
  BY DEF OnlyCompleteEnds
<1>1. Complete => Complete'
  BY CompleteStays DEF ReadyInv
<1>2. /\ <<>> \in Seq(Unfinished) /\ <<"FAILED">> \in Seq(Unfinished)
      /\ <<run.failedAt>> \in Seq(Unfinished)
  <2>1. run.failedAt \in Unfinished /\ "FAILED" \in Unfinished
    BY DEF ReadyInv, EngineInv, TypeOK, Run, Unfinished, Moves, PipelineStages
  <2>2. QED
    BY <2>1
<1>3. exec[a] \in Activity /\ Shape(exec[a])
  BY ActorIsTyped DEF ReadyInv
<1>4. CASE OtherStep
  <2>1. Continues(a)
    BY <1>4, OtherStepsContinue DEF ReadyInv
  <2>2. ASSUME exec[a].todo \in Seq(Unfinished), exec[a].pc = "write"
        PROVE  Tail(exec[a].todo) \in Seq(Unfinished)
    <3>1. exec[a].todo # <<>>
      BY <1>3, <2>2 DEF Shape
    <3>2. QED
      BY <2>2, <3>1
  <2>3. QED
    BY <1>1, <1>2, <2>1, <2>2 DEF ReadyInv, OnlyCompleteEnds, Continues, Carries
<1>5. ASSUME NEW p \in Procs, WorkDone(p), Ending(p)
      PROVE  exec'[a].todo \in Seq(Unfinished) \/ Complete'
  <2>1. a # p => exec'[a] = exec[a]
    BY <1>5 DEF WorkDone, Go, ReadyInv, EngineInv, TypeOK, Actors
  <2>2. a = p => exec'[a].todo = Plan(RunningCounterpart(ClaimKey(p)))
    BY <1>3, <1>5 DEF WorkDone, Go, ReadyInv, EngineInv, TypeOK, Activity, Actors
  <2>3. CASE LookUpResearch(p) \/ PatchResearch(p) \/ AttachVersion(p)
    <3>1. RunningCounterpart(ClaimKey(p)) \in {"RESEARCH_RUNNING", "V0_GENERATING"}
      BY <2>3 DEF LookUpResearch, PatchResearch, AttachVersion, In
    <3>2. \A x, y \in Unfinished : <<x>> \in Seq(Unfinished) /\ <<x, y>> \in Seq(Unfinished)
      OBVIOUS
    <3>3. {"V0_GENERATING", "V0_READY", "FINAL_QA_RUNNING"} \subseteq Unfinished
      BY DEF Unfinished, Moves, PipelineStages
    <3>4. Plan(RunningCounterpart(ClaimKey(p))) \in Seq(Unfinished)
      BY <3>1, <3>2, <3>3 DEF Plan
    <3>5. QED
      BY <1>1, <2>1, <2>2, <3>4 DEF ReadyInv, OnlyCompleteEnds
  <2>4. CASE EnqueueRender(p)
    <3>1. op.version /\ version = "good" /\ usage.status = "committed"
      BY <2>4 DEF EnqueueRender, In, ReadyInv, ProgressIsSaved, DataInv, VersionIsTheResponse
    <3>2. QED
      BY <2>4, <3>1 DEF EnqueueRender, Complete
  <2>5. QED
    BY <1>5, <2>3, <2>4 DEF Ending
<1>6. QED
  BY <1>4, <1>5, StepIsAnEngineStep

LEMMA ReadyIsCompleteIsKept ==
    ReadyInv /\ [SRNext]_allVars => ReadyIsComplete'
<1> SUFFICES ASSUME ReadyInv, [SRNext]_allVars, run'.stage = "FINAL_READY"
             PROVE  Complete'
  BY DEF ReadyIsComplete, Complete
<1>1. Complete => Complete'
  BY CompleteStays DEF ReadyInv
<1>2. [Next]_vars
  BY StepIsAnEngineStep, OtherStepIsNext DEF Next, Step
<1>3. \/ run.stage = "FINAL_READY"
      \/ \E a \in Actors : exec[a].pc = "write" /\ Head(exec[a].todo) = "FINAL_READY"
  BY <1>2, RunMoves DEF ReadyInv, PipelineStages
<1>4. CASE run.stage = "FINAL_READY"
  BY <1>1, <1>4 DEF ReadyInv, ReadyIsComplete, Complete
<1>5. ASSUME NEW a \in Actors, exec[a].pc = "write", Head(exec[a].todo) = "FINAL_READY"
      PROVE  Complete
  <2>1. exec[a].todo # <<>>
    BY <1>5, ActorIsTyped DEF ReadyInv, Shape
  <2>2. exec[a].todo \notin Seq(Unfinished)
    BY <1>5, <2>1 DEF Unfinished
  <2>3. QED
    BY <2>2 DEF ReadyInv, OnlyCompleteEnds
<1>6. QED
  BY <1>1, <1>3, <1>4, <1>5

LEMMA ReadyInvHolds == SRSpec => []ReadyInv
<1>1. SRInit => ReadyInv
  <2> SUFFICES ASSUME SRInit PROVE ReadyInv
    OBVIOUS
  <2>1. EngineInv /\ DataInv
    BY EngineInvHoldsInitially, DataInvHoldsInitially DEF SRInit
  <2>2. OpTypeOK /\ ProgressIsSaved
    BY DEF SRInit, OpTypeOK, ProgressIsSaved, NotStarted
  <2>3. OnlyCompleteEnds
    <3>1. \A a \in Actors : exec[a].todo = <<>>
      BY DEF SRInit, Init, Idle
    <3>2. <<>> \in Seq(Unfinished)
      OBVIOUS
    <3>3. QED
      BY <3>1, <3>2 DEF OnlyCompleteEnds
  <2>4. ReadyIsComplete
    BY DEF SRInit, Init, ReadyIsComplete
  <2>5. QED
    BY <2>1, <2>2, <2>3, <2>4 DEF ReadyInv
<1>2. ReadyInv /\ [SRNext]_allVars => ReadyInv'
  <2> SUFFICES ASSUME ReadyInv, [SRNext]_allVars PROVE ReadyInv'
    OBVIOUS
  <2>1. [Next]_vars
    BY StepIsAnEngineStep, OtherStepIsNext DEF Next, Step
  <2>2. EngineInv'
    BY <2>1, NextKeepsInv DEF ReadyInv
  <2>3. QED
    BY <2>2, DataInvIsInductive, OpTypeIsKept, ProgressIsKept, OnlyCompleteEndsIsKept,
       ReadyIsCompleteIsKept DEF ReadyInv
<1>3. QED
  BY <1>1, <1>2, PTL DEF SRSpec

\* In every reachable state the rows, the bodies and the engine are what the database and the
\* call chains can hold.
THEOREM SRTypeCorrect == SRSpec => []SRTypeOK
<1>1. ReadyInv => SRTypeOK
  BY DEF ReadyInv, EngineInv, DataInv, DataTypeOK, OpTypeOK, SRTypeOK
<1>2. QED
  BY <1>1, ReadyInvHolds, PTL

\* A run that is ready has a version of a response that passed the checks, a charge for it and a
\* render job, whatever was delivered twice, refunded or thrown back to an earlier stage.
THEOREM ReadyRunsAreComplete == SRSpec => []ReadyIsComplete
<1>1. ReadyInv => ReadyIsComplete
  BY DEF ReadyInv
<1>2. QED
  BY <1>1, ReadyInvHolds, PTL

\* What the engine promises holds of the runs this policy drives: the lease of a live delivery is
\* not taken from it.
COROLLARY BodiesKeepTheirLeases == SRSpec => LeaseIsKept
BY ImplementsEngine, LeasesAreKept
=============================================================================
