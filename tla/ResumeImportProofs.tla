--------------------------- MODULE ResumeImportProofs ---------------------------
(***************************************************************************)
(* ResumeImport for any number of workers, sessions, files, uploads, tries *)
(* and faults: its type, and that a confirmed resume survives the failure  *)
(* of its replacement, that no worker writes over a review and that the    *)
(* text of a superseded file stays out.                                    *)
(***************************************************************************)
EXTENDS ResumeImport, TLAPS

Activity ==
    [pc : Pcs, job : JobIds \cup {NoJob}, attached : BOOLEAN, fresh : BOOLEAN,
     file : ScanStatuses, source : Files \cup {"none"}, adds : JobIds \cup {NoJob},
     throws : BOOLEAN]

\* What is known of activity a by where it is.
Shape(a, me) ==
    /\ me \in Activity
    /\ me.pc \notin {"idle", "confirm", "evidence"} => me.job \in JobIds
    /\ me.pc = "mark" \/ (me.pc = "enqueue" /\ a \in Procs) => me.adds \in JobIds
    /\ me.pc = "evidence" => me.source \in Files
    /\ me.pc = "infected" => me.job[2] \in Infected

\* What a fresh reader knows of the profile: what made it go on still holds.
Knows(me, row) ==
    me.fresh =>
        /\ me.pc = "mark" => row.status = "pending_scan"
        /\ me.pc = "extracting" => row.status \notin Settled
        /\ me.pc = "save" => row.source = me.job[2] /\ row.status \notin Settled
        /\ me.pc = "restore" => row.status \notin Settled \/ row.source \in Infected
        /\ me.pc = "confirm" => row.status = "ready_for_review" /\ row.source # "none"

ReviewsHaveFacts == profile.status = "ready_for_review" => profile.extraction.facts # "none"

\* A job that can still be delivered has a try left.
TriesAreLeft == \A j \in JobIds : jobs[j].state \notin {"completed", "failed"} => jobs[j].left > 0

\* The queue waits for one delivery of an active job, and for no request.
DeliveriesAreActive ==
    /\ \A a \in Actors :
          exec[a].attached =>
              a \in Procs /\ exec[a].job \in JobIds /\ jobs[exec[a].job].state = "active"
    /\ \A a, b \in Actors :
          exec[a].attached /\ exec[b].attached /\ exec[a].job = exec[b].job => a = b

\* The rows and the counters, without the activities.
RowsOK ==
    /\ files \in [Files -> ScanStatuses]
    /\ leases \in [Files -> Callers \cup {"nobody"}]
    /\ evidence \subseteq Files
    /\ count \in [uploads : 0..MaxUploads, saves : 0..MaxSaves, faults : 0..MaxFaults]

JobsOK ==
    jobs \in [JobIds -> [state : {"absent", "waiting", "active", "completed", "failed"},
                         left : 0..Tries]]

RIInv ==
    /\ RowsOK
    /\ profile \in Profile
    /\ ReviewsHaveFacts
    /\ JobsOK
    /\ TriesAreLeft
    /\ DeliveriesAreActive
    /\ exec \in [Actors -> Activity]
    /\ \A a \in Actors : Shape(a, exec[a]) /\ Knows(exec[a], profile)

-----------------------------------------------------------------------------
(* Facts about the operators.                                               *)

LEMMA JobsHaveFiles == \A j \in JobIds : j[2] \in Files /\ j[3] \in 0..MaxUploads
BY DEF JobIds

LEMMA IdleIsShaped == \A a \in Actors : Shape(a, Idle) /\ ~Idle.attached /\ ~Idle.fresh
BY DEF Shape, Idle, Activity, Pcs, ScanStatuses

LEMMA BlankIsExtraction ==
    ASSUME NEW f \in Facts, NEW b \in Facts, NEW d \in Facts, NEW s \in Files \cup {"none"},
           NEW n \in 0..MaxUploads
    PROVE  /\ Blank \in Extraction
           /\ [Blank EXCEPT !.facts = f] \in Extraction
           /\ [Blank EXCEPT !.facts = f, !.attempt = n] \in Extraction
           /\ [Blank EXCEPT !.facts = f, !.baseline = b, !.baseSource = s] \in Extraction
           /\ [Blank EXCEPT !.baseline = b, !.attempt = n, !.baseSource = s] \in Extraction
           /\ [Blank EXCEPT !.draft = d, !.attempt = n] \in Extraction
<1>1. 0 \in 0..MaxUploads /\ "none" \in Facts
  BY ImportAssumption DEF Facts
<1>2. Blank \in Extraction
  BY <1>1 DEF Blank, Extraction
<1>3. /\ [Blank EXCEPT !.facts = f] \in Extraction
      /\ [Blank EXCEPT !.facts = f, !.attempt = n] \in Extraction
  BY <1>1 DEF Blank, Extraction
<1>4. /\ [Blank EXCEPT !.facts = f, !.baseline = b, !.baseSource = s] \in Extraction
      /\ [Blank EXCEPT !.baseline = b, !.attempt = n, !.baseSource = s] \in Extraction
  BY <1>1 DEF Blank, Extraction
<1>5. [Blank EXCEPT !.draft = d, !.attempt = n] \in Extraction
  BY <1>1 DEF Blank, Extraction
<1>6. QED
  BY <1>2, <1>3, <1>4, <1>5

LEMMA WrappedIsExtraction ==
    ASSUME NEW read \in Profile, NEW n \in 0..MaxUploads
    PROVE  Wrapped(read, n) \in Extraction
<1> DEFINE prior == read.extraction
<1>1. /\ prior.facts \in Facts /\ prior.baseline \in Facts
      /\ prior.baseSource \in Files \cup {"none"} /\ read.source \in Files \cup {"none"}
  BY DEF Profile, Extraction
<1>2. \A b \in Facts, s \in Files \cup {"none"} :
         [Blank EXCEPT !.baseline = b, !.attempt = n, !.baseSource = s] \in Extraction
  BY BlankIsExtraction
<1>3. \A d \in Facts : [Blank EXCEPT !.draft = d, !.attempt = n] \in Extraction
  BY BlankIsExtraction
<1>4. \A b \in Facts, s \in Files \cup {"none"} :
         [Blank EXCEPT !.baseline = b, !.baseSource = s, !.attempt = n]
           = [Blank EXCEPT !.baseline = b, !.attempt = n, !.baseSource = s]
  BY DEF Blank
<1> DEFINE ofRead == IF read.source # "none" THEN read.source ELSE prior.baseSource
<1> DEFINE ofBaseline == IF prior.baseSource = "none" THEN read.source ELSE prior.baseSource
<1> HIDE DEF prior, ofRead, ofBaseline
<1>5. CASE read.status = "confirmed" /\ prior.facts # "none"
  <2>1. Wrapped(read, n)
          = [Blank EXCEPT !.baseline = prior.facts, !.attempt = n, !.baseSource = ofRead]
    BY <1>5 DEF Wrapped, prior, ofRead
  <2>2. ofRead \in Files \cup {"none"}
    BY <1>1 DEF ofRead
  <2>3. PICK b \in Facts, s \in Files \cup {"none"} : b = prior.facts /\ s = ofRead
    BY <1>1, <2>2
  <2>4. [Blank EXCEPT !.baseline = b, !.attempt = n, !.baseSource = s] \in Extraction
    BY <1>2
  <2>5. QED
    BY <2>1, <2>3, <2>4
<1>6. CASE ~(read.status = "confirmed" /\ prior.facts # "none") /\ prior.baseline # "none"
  <2>1. Wrapped(read, n)
          = [Blank EXCEPT !.baseline = prior.baseline, !.baseSource = ofBaseline, !.attempt = n]
    BY <1>6 DEF Wrapped, prior, ofBaseline
  <2>2. ofBaseline \in Files \cup {"none"}
    BY <1>1 DEF ofBaseline
  <2>3. PICK b \in Facts, s \in Files \cup {"none"} : b = prior.baseline /\ s = ofBaseline
    BY <1>1, <2>2
  <2>4. /\ [Blank EXCEPT !.baseline = b, !.attempt = n, !.baseSource = s] \in Extraction
        /\ [Blank EXCEPT !.baseline = b, !.baseSource = s, !.attempt = n]
             = [Blank EXCEPT !.baseline = b, !.attempt = n, !.baseSource = s]
    BY <1>2, <1>4
  <2>5. QED
    BY <2>1, <2>3, <2>4
<1>7. CASE ~(read.status = "confirmed" /\ prior.facts # "none") /\ prior.baseline = "none"
  BY <1>1, <1>3, <1>7 DEF Wrapped, prior
<1>8. QED
  BY <1>5, <1>6, <1>7

LEMMA RestoredIsProfile == \A read \in Profile : Restored(read) \in Profile
<1> SUFFICES ASSUME NEW read \in Profile
             PROVE  Restored(read) \in Profile
  OBVIOUS
<1>1. [Blank EXCEPT !.facts = read.extraction.draft] \in Extraction
  BY BlankIsExtraction DEF Profile, Extraction
<1>2. [read.extraction EXCEPT !.facts = read.extraction.baseline, !.draft = "none", !.attempt = 0]
        \in Extraction
  <2>1. 0 \in 0..MaxUploads /\ "none" \in Facts
    BY ImportAssumption DEF Facts
  <2>2. QED
    BY <2>1 DEF Profile, Extraction
<1>3. QED
  BY <1>1, <1>2 DEF Restored, Profile, Extraction

\* What a save leaves has facts, whatever there was.
LEMMA DraftedHasFacts ==
    ASSUME profile \in Profile, NEW typed \in Typed \cup {"contact"}, NEW manual \in BOOLEAN
    PROVE  /\ Drafted(typed, manual) \in Profile
           /\ Drafted(typed, manual).extraction.facts # "none"
           /\ Drafted(typed, manual).extraction.baseline = profile.extraction.baseline
           /\ profile.status = "confirmed" <=> Drafted(typed, manual).status = "confirmed"
<1>1. /\ Merged(profile.extraction, typed) \in Extraction
      /\ Merged(profile.extraction, typed).facts # "none"
      /\ Merged(profile.extraction, typed).baseline = profile.extraction.baseline
  BY ImportAssumption DEF Merged, Profile, Extraction, Facts
<1>2. QED
  BY <1>1 DEF Drafted, Profile, Settled

-----------------------------------------------------------------------------
(* The kinds of steps.                                                      *)

\* Activity a becomes me; the profile and the jobs stay.
LEMMA ActivityStepKeepsInv ==
    ASSUME RIInv, NEW a \in Actors, NEW me,
           Shape(a, me), Knows(me, profile),
           me.attached => exec[a].attached /\ me.job = exec[a].job,
           exec' = [exec EXCEPT ![a] = me],
           UNCHANGED <<profile, jobs>>, RowsOK'
    PROVE  RIInv'
<1> USE DEF RIInv
<1>1. me \in Activity /\ exec' \in [Actors -> Activity]
  BY DEF Shape
<1>2. \A b \in Actors : Shape(b, exec'[b]) /\ Knows(exec'[b], profile')
  OBVIOUS
<1>3. ReviewsHaveFacts' /\ JobsOK' /\ TriesAreLeft' /\ profile' \in Profile
  BY DEF ReviewsHaveFacts, JobsOK, TriesAreLeft
<1>4. DeliveriesAreActive'
  BY DEF DeliveriesAreActive
<1>5. QED
  BY <1>1, <1>2, <1>3, <1>4

\* The profile becomes new; nobody is fresh any more.  Activity a becomes me.
LEMMA WriteKeepsInv ==
    ASSUME RIInv, NEW a \in Actors, NEW me, NEW new,
           Shape(a, me),
           me.attached => exec[a].attached /\ me.job = exec[a].job,
           new \in Profile, new.status = "ready_for_review" => new.extraction.facts # "none",
           profile' = new,
           exec' = [b \in Actors |-> [IF b = a THEN me ELSE exec[b] EXCEPT !.fresh = FALSE]],
           UNCHANGED jobs, RowsOK'
    PROVE  RIInv'
<1> USE DEF RIInv
<1>1. me \in Activity /\ exec' \in [Actors -> Activity]
  BY DEF Shape, Activity
<1>2. ASSUME NEW b \in Actors
      PROVE  /\ Shape(b, exec'[b]) /\ ~exec'[b].fresh
             /\ exec'[b].attached => exec[b].attached /\ exec'[b].job = exec[b].job
  <2>1. CASE b = a
    <3>1. exec'[b] = [me EXCEPT !.fresh = FALSE]
      BY <2>1
    <3>2. QED
      BY <1>1, <2>1, <3>1 DEF Shape, Activity
  <2>2. CASE b # a
    <3>1. exec'[b] = [exec[b] EXCEPT !.fresh = FALSE] /\ Shape(b, exec[b])
      BY <2>2
    <3>2. exec[b] \in Activity
      OBVIOUS
    <3>3. exec'[b] \in Activity
      BY <1>1
    <3>4. /\ exec'[b].pc = exec[b].pc /\ exec'[b].job = exec[b].job
          /\ exec'[b].adds = exec[b].adds /\ exec'[b].source = exec[b].source
          /\ exec'[b].attached = exec[b].attached /\ exec'[b].fresh = FALSE
      BY <3>1, <3>2 DEF Activity
    <3>5. QED
      BY <3>1, <3>3, <3>4 DEF Shape
  <2>3. QED
    BY <2>1, <2>2
<1>3. ReviewsHaveFacts' /\ JobsOK' /\ TriesAreLeft' /\ profile' \in Profile
  BY DEF ReviewsHaveFacts, JobsOK, TriesAreLeft
<1>4. DeliveriesAreActive'
  BY <1>2 DEF DeliveriesAreActive
<1>5. \A b \in Actors : Knows(exec'[b], profile')
  BY <1>2 DEF Knows
<1>6. QED
  BY <1>1, <1>2, <1>3, <1>4, <1>5

\* The rest of a delivery, or of a request, has its shape.
LEMMA RestIsShaped ==
    ASSUME RIInv, NEW a \in Actors, NEW pc \in {"idle", "resolved", "rejected"},
           exec[a].pc \notin {"idle", "confirm", "evidence"} \/ a \in Callers
    PROVE  /\ Shape(a, Rest(a, pc)) /\ ~Rest(a, pc).fresh
           /\ Rest(a, pc).attached => exec[a].attached /\ Rest(a, pc).job = exec[a].job
BY IdleIsShaped DEF RIInv, Rest, Shape, Idle, Activity, Pcs, ScanStatuses

LEMMA EndingKeepsInv ==
    ASSUME RIInv, NEW a \in Actors, NEW pc \in {"idle", "resolved", "rejected"},
           exec[a].pc \notin {"idle", "confirm", "evidence"} \/ a \in Callers,
           Ends(a, pc), UNCHANGED <<profile, jobs>>, RowsOK'
    PROVE  RIInv'
<1>1. Knows(Rest(a, pc), profile)
  BY RestIsShaped DEF Knows
<1>2. QED
  BY <1>1, RestIsShaped, ActivityStepKeepsInv DEF Ends, Go

\* The end of an activity that adds a job.
LEMMA AddingKeepsInv ==
    ASSUME RIInv, NEW a \in Actors, NEW pc \in {"idle", "resolved", "rejected"}, NEW j \in JobIds,
           exec[a].pc \notin {"idle", "confirm", "evidence"} \/ a \in Callers,
           Adds(j), Ends(a, pc), UNCHANGED profile, RowsOK'
    PROVE  RIInv'
<1> DEFINE me == Rest(a, pc)
<1>1. /\ Shape(a, me) /\ Knows(me, profile)
      /\ me.attached => exec[a].attached /\ me.job = exec[a].job
  BY RestIsShaped DEF Knows
<1>2. exec' = [exec EXCEPT ![a] = me]
  BY DEF Ends, Go
<1> HIDE DEF me
<1> USE DEF RIInv
<1>3. exec' \in [Actors -> Activity]
  BY <1>1, <1>2 DEF Shape
<1>4. \A b \in Actors : Shape(b, exec'[b]) /\ Knows(exec'[b], profile')
  BY <1>1, <1>2
<1>5. JobsOK' /\ \A i \in JobIds : jobs'[i] = jobs[i]
                     \/ /\ jobs[i].state = "absent"
                        /\ jobs'[i] = [jobs[i] EXCEPT !.state = "waiting"]
  BY DEF JobsOK, Adds
<1>6. TriesAreLeft'
  BY <1>5 DEF TriesAreLeft, JobsOK
<1>7. DeliveriesAreActive'
  <2>1. \A b \in Actors : exec'[b].attached => exec[b].attached /\ exec'[b].job = exec[b].job
    BY <1>1, <1>2
  <2>2. \A i \in JobIds : jobs[i].state = "active" => jobs'[i].state = "active"
    BY <1>5
  <2>3. QED
    BY <2>1, <2>2 DEF DeliveriesAreActive
<1>8. QED
  BY <1>3, <1>4, <1>5, <1>6, <1>7 DEF ReviewsHaveFacts

\* A write of the profile under the version that was read, or ONBOARDING_STALE.
LEMMA SwapKeepsInv ==
    ASSUME RIInv, NEW a \in Actors, NEW me, NEW new,
           exec[a].pc \notin {"idle", "confirm", "evidence"} \/ a \in Callers,
           Write(a, new, me),
           Shape(a, me),
           me.attached => exec[a].attached /\ me.job = exec[a].job,
           exec[a].fresh =>
               /\ new \in Profile
               /\ new.status = "ready_for_review" => new.extraction.facts # "none",
           UNCHANGED jobs, RowsOK'
    PROVE  RIInv'
<1>1. CASE exec[a].fresh
  BY <1>1, WriteKeepsInv DEF Write
<1>2. CASE ~exec[a].fresh
  BY <1>2, EndingKeepsInv DEF Write
<1>3. QED
  BY <1>1, <1>2

\* Activity a goes on to a step where what it read does not matter.
LEMMA MovingKeepsInv ==
    ASSUME RIInv, NEW a \in Actors,
           NEW pc \in Pcs \ {"mark", "extracting", "save", "restore", "confirm", "evidence"},
           Moves(a, pc), exec[a].job \in JobIds, ~(pc = "enqueue" /\ a \in Procs),
           pc = "infected" => exec[a].job[2] \in Infected,
           UNCHANGED <<profile, jobs>>, RowsOK'
    PROVE  RIInv'
<1> DEFINE me == [exec[a] EXCEPT !.pc = pc]
<1>1. exec[a] \in Activity
  BY DEF RIInv
<1>2. /\ me \in Activity /\ me.pc = pc /\ me.attached = exec[a].attached
      /\ me.job = exec[a].job
  BY <1>1 DEF Activity
<1>3. exec' = [exec EXCEPT ![a] = me]
  BY DEF Moves, Go
<1> HIDE DEF me
<1>4. Shape(a, me) /\ Knows(me, profile)
  BY <1>2 DEF Shape, Knows
<1>5. QED
  BY <1>2, <1>3, <1>4, ActivityStepKeepsInv

\* Activity a reads the profile and goes on to where its reading matters.
LEMMA ReadingKeepsInv ==
    ASSUME RIInv, NEW a \in Actors, NEW pc \in {"extracting", "save", "restore", "confirm"},
           Reads(a, pc), exec[a].job \in JobIds \/ pc = "confirm",
           pc = "extracting" => profile.status \notin Settled,
           pc = "save" => profile.source = exec[a].job[2] /\ profile.status \notin Settled,
           pc = "restore" => profile.status \notin Settled \/ profile.source \in Infected,
           pc = "confirm" => profile.status = "ready_for_review" /\ profile.source # "none",
           UNCHANGED <<profile, jobs>>, RowsOK'
    PROVE  RIInv'
<1> DEFINE me == [exec[a] EXCEPT !.pc = pc, !.fresh = TRUE]
<1>1. exec[a] \in Activity
  BY DEF RIInv
<1>2. /\ me \in Activity /\ me.pc = pc /\ me.attached = exec[a].attached
      /\ me.job = exec[a].job
  BY <1>1 DEF Activity, Pcs
<1>3. exec' = [exec EXCEPT ![a] = me]
  BY DEF Reads, Go
<1> HIDE DEF me
<1>4. Shape(a, me) /\ Knows(me, profile)
  BY <1>2 DEF Shape, Knows
<1>5. QED
  BY <1>2, <1>3, <1>4, ActivityStepKeepsInv

-----------------------------------------------------------------------------
(* The steps of an upload.                                                  *)

LEMMA UploadKeepsInv ==
    ASSUME RIInv, NEW c \in Callers, NEW f \in Files, Upload(c, f)
    PROVE  RIInv'
<1> DEFINE me == [Idle EXCEPT !.pc = "claim", !.job = <<"scan", f, count.uploads + 1>>,
                              !.fresh = TRUE]
<1>1. RowsOK' /\ count.uploads + 1 \in 0..MaxUploads
  BY ImportAssumption DEF Upload, Counts, RIInv, RowsOK
<1>2. me.job \in JobIds
  BY <1>1 DEF JobIds, Idle
<1>3. Shape(c, me) /\ ~me.attached /\ Knows(me, profile)
  BY <1>2 DEF Shape, Knows, Idle, Activity, Pcs, ScanStatuses
<1>4. exec' = [exec EXCEPT ![c] = me] /\ UNCHANGED <<profile, jobs>> /\ c \in Actors
  BY DEF Upload, Go, Actors
<1> HIDE DEF me
<1>5. QED
  BY <1>1, <1>3, <1>4, ActivityStepKeepsInv

LEMMA UploadStepKeepsInv ==
    ASSUME RIInv, NEW c \in Callers,
           ClaimUpload(c) \/ LookAtFile(c) \/ StoreFile(c) \/ PointProfile(c) \/ EnqueueScan(c)
    PROVE  RIInv'
<1> USE DEF At
<1>1. c \in Actors /\ exec[c] \in Activity /\ Shape(c, exec[c]) /\ c \notin Procs
  BY ImportAssumption DEF RIInv, Actors
<1>2. exec[c].job \in JobIds /\ FileOf(c) \in Files /\ exec[c].job[3] \in 0..MaxUploads
  BY <1>1, JobsHaveFiles
  DEF Shape, FileOf, ClaimUpload, LookAtFile, StoreFile, PointProfile, EnqueueScan
<1>3. CASE ClaimUpload(c)
  <2>1. RowsOK' /\ UNCHANGED <<profile, jobs>>
    BY <1>2, <1>3 DEF ClaimUpload, RIInv, RowsOK
  <2>2. CASE Moves(c, "look")
    BY <1>1, <1>2, <2>1, <2>2, MovingKeepsInv DEF Pcs
  <2>3. CASE Ends(c, "idle")
    BY <1>1, <2>1, <2>3, EndingKeepsInv
  <2>4. QED
    BY <1>3, <2>2, <2>3 DEF ClaimUpload
<1>4. CASE LookAtFile(c)
  <2>1. RowsOK' /\ UNCHANGED <<profile, jobs>>
    BY <1>2, <1>4 DEF LookAtFile, RIInv, RowsOK
  <2>2. CASE Ends(c, "idle")
    BY <1>1, <2>1, <2>2, EndingKeepsInv
  <2>3. CASE Go(c, [exec[c] EXCEPT !.pc = "store", !.file = files[FileOf(c)]])
    <3> DEFINE me == [exec[c] EXCEPT !.pc = "store", !.file = files[FileOf(c)]]
    <3>1. files[FileOf(c)] \in ScanStatuses
      BY <1>2 DEF RIInv, RowsOK
    <3>2. Shape(c, me) /\ Knows(me, profile) /\ me.attached = exec[c].attached
          /\ me.job = exec[c].job
      BY <1>1, <1>2, <3>1 DEF Shape, Knows, Activity, Pcs
    <3>3. exec' = [exec EXCEPT ![c] = me]
      BY <2>3 DEF Go
    <3> HIDE DEF me
    <3>4. QED
      BY <1>1, <2>1, <3>2, <3>3, ActivityStepKeepsInv
  <2>4. QED
    BY <1>4, <2>2, <2>3 DEF LookAtFile
<1>5. CASE StoreFile(c)
  <2>1. RowsOK' /\ UNCHANGED <<profile, jobs>>
    BY <1>2, <1>5 DEF StoreFile, RIInv, RowsOK, ScanStatuses
  <2>2. QED
    BY <1>1, <1>2, <1>5, <2>1, MovingKeepsInv DEF StoreFile, Pcs
<1>6. CASE PointProfile(c)
  <2> DEFINE new == [status |-> "pending_scan", source |-> FileOf(c),
                     extraction |-> Wrapped(profile, exec[c].job[3])]
  <2> DEFINE me == [exec[c] EXCEPT !.pc = "enqueue"]
  <2>1. RowsOK' /\ UNCHANGED jobs
    BY <1>6 DEF PointProfile, RIInv, RowsOK
  <2>2. Write(c, new, me)
    BY <1>6 DEF PointProfile
  <2>3. new \in Profile /\ new.status # "ready_for_review"
    BY <1>2, WrappedIsExtraction DEF RIInv, Profile, InFlight
  <2>4. Shape(c, me) /\ me.attached = exec[c].attached /\ me.job = exec[c].job
    BY <1>1, <1>2 DEF Shape, Activity, Pcs
  <2> HIDE DEF new, me
  <2>5. QED
    BY <1>1, <2>1, <2>2, <2>3, <2>4, SwapKeepsInv
<1>7. CASE EnqueueScan(c)
  <2>1. /\ RowsOK' /\ Adds(exec[c].job) /\ Ends(c, "idle") /\ UNCHANGED profile
    BY <1>7 DEF EnqueueScan, RIInv, RowsOK
  <2>2. QED
    BY <1>1, <1>2, <2>1, AddingKeepsInv
<1>8. QED
  BY <1>3, <1>4, <1>5, <1>6, <1>7

-----------------------------------------------------------------------------
(* The candidate's requests.                                                *)

LEMMA SaveKeepsInv ==
    ASSUME RIInv, NEW new \in Profile, Save(new),
           new.status = "ready_for_review" => new.extraction.facts # "none"
    PROVE  RIInv'
<1> USE DEF RIInv
<1>1. RowsOK' /\ UNCHANGED jobs /\ profile' = new
  BY ImportAssumption DEF Save, Counts, RowsOK
<1>2. exec' \in [Actors -> Activity]
  BY DEF Save, Activity
<1>3. ASSUME NEW b \in Actors
      PROVE  /\ Shape(b, exec'[b]) /\ Knows(exec'[b], profile')
             /\ exec'[b].attached = exec[b].attached /\ exec'[b].job = exec[b].job
  <2>1. exec'[b] = [exec[b] EXCEPT !.fresh = FALSE] /\ exec[b] \in Activity /\ Shape(b, exec[b])
    BY DEF Save
  <2>2. exec'[b] \in Activity
    BY <1>2
  <2>3. /\ exec'[b].pc = exec[b].pc /\ exec'[b].job = exec[b].job
        /\ exec'[b].adds = exec[b].adds /\ exec'[b].source = exec[b].source
        /\ exec'[b].attached = exec[b].attached /\ exec'[b].fresh = FALSE
    BY <2>1 DEF Activity
  <2>4. QED
    BY <2>1, <2>2, <2>3 DEF Shape, Knows
<1>4. ReviewsHaveFacts' /\ JobsOK' /\ TriesAreLeft' /\ DeliveriesAreActive'
  BY <1>1, <1>3 DEF ReviewsHaveFacts, JobsOK, TriesAreLeft, DeliveriesAreActive
<1>5. QED
  BY <1>1, <1>2, <1>3, <1>4

LEMMA CandidateKeepsInv == RIInv /\ Candidate => RIInv'
<1> SUFFICES ASSUME RIInv, Candidate
             PROVE  RIInv'
  OBVIOUS
<1>1. profile \in Profile
  BY DEF RIInv
<1>2. ASSUME NEW typed \in Typed, SaveReview(typed)
      PROVE  RIInv'
  <2> DEFINE new == [profile EXCEPT !.extraction.facts = typed, !.extraction.draft = "none",
                                    !.extraction.attempt = 0]
  <2>1. new \in Profile /\ new.extraction.facts # "none"
    <3>1. 0 \in 0..MaxUploads /\ "none" \in Facts /\ typed \in Facts /\ typed # "none"
      BY ImportAssumption DEF Facts
    <3>2. QED
      BY <1>1, <3>1 DEF Profile, Extraction
  <2>2. Save(new)
    BY <1>2 DEF SaveReview
  <2> HIDE DEF new
  <2>3. QED
    BY <2>1, <2>2, SaveKeepsInv
<1>3. ASSUME NEW typed \in Typed \cup {"contact"}, NEW manual \in BOOLEAN,
             SaveProfile(typed, manual) \/ Complete(typed, manual)
      PROVE  RIInv'
  <2>1. /\ Drafted(typed, manual) \in Profile
        /\ Drafted(typed, manual).extraction.facts # "none"
    BY <1>1, DraftedHasFacts
  <2>2. CASE SaveProfile(typed, manual)
    BY <2>1, <2>2, SaveKeepsInv DEF SaveProfile
  <2>3. CASE Complete(typed, manual)
    <3>1. [Drafted(typed, manual) EXCEPT !.status = "confirmed"] \in Profile
      BY <2>1 DEF Profile, Settled
    <3>2. [Drafted(typed, manual) EXCEPT !.status = "confirmed"].status = "confirmed"
      BY <2>1 DEF Profile
    <3>3. Save([Drafted(typed, manual) EXCEPT !.status = "confirmed"])
      BY <2>3 DEF Complete
    <3>4. QED
      BY <3>1, <3>2, <3>3, SaveKeepsInv
  <2>4. QED
    BY <1>3, <2>2, <2>3
<1>4. QED
  BY <1>2, <1>3 DEF Candidate

LEMMA ConfirmKeepsInv ==
    ASSUME RIInv, NEW c \in Callers, ConfirmReads(c) \/ ConfirmWrites(c) \/ CreateEvidence(c)
    PROVE  RIInv'
<1> USE DEF At
<1>1. c \in Actors /\ exec[c] \in Activity /\ Shape(c, exec[c]) /\ c \notin Procs
      /\ Knows(exec[c], profile) /\ profile \in Profile
  BY ImportAssumption DEF RIInv, Actors
<1>2. CASE ConfirmReads(c)
  <2>1. RowsOK' /\ UNCHANGED <<profile, jobs>>
    BY <1>2, ImportAssumption DEF ConfirmReads, Counts, RIInv, RowsOK
  <2>2. QED
    BY <1>1, <1>2, <2>1, ReadingKeepsInv DEF ConfirmReads
<1>3. CASE ConfirmWrites(c)
  <2> DEFINE new == [profile EXCEPT
                       !.status = "confirmed",
                       !.extraction = [Blank EXCEPT !.facts = profile.extraction.facts,
                                                    !.attempt = profile.extraction.attempt]]
  <2> DEFINE me == [exec[c] EXCEPT !.pc = "evidence", !.source = profile.source]
  <2>1. RowsOK' /\ UNCHANGED jobs /\ Write(c, new, me)
    BY <1>3 DEF ConfirmWrites, RIInv, RowsOK
  <2>2. new \in Profile /\ new.status = "confirmed"
    <3>1. profile.extraction.facts \in Facts /\ profile.extraction.attempt \in 0..MaxUploads
      BY <1>1 DEF Profile, Extraction
    <3>2. [Blank EXCEPT !.facts = profile.extraction.facts,
                        !.attempt = profile.extraction.attempt] \in Extraction
      BY <3>1, BlankIsExtraction
    <3>3. QED
      BY <1>1, <3>2 DEF Profile, Settled
  <2>3. CASE exec[c].fresh
    <3>1. profile.source \in Files
      BY <1>1, <1>3, <2>3 DEF Knows, ConfirmWrites, Profile
    <3>2. Shape(c, me) /\ me.attached = exec[c].attached /\ me.job = exec[c].job
      BY <1>1, <3>1 DEF Shape, Activity, Pcs
    <3> HIDE DEF new, me
    <3>3. QED
      BY <1>1, <2>1, <2>2, <3>2, SwapKeepsInv
  <2>4. CASE ~exec[c].fresh
    BY <1>1, <2>1, <2>4, EndingKeepsInv DEF Write
  <2>5. QED
    BY <2>3, <2>4
<1>4. CASE CreateEvidence(c)
  <2>1. RowsOK' /\ UNCHANGED <<profile, jobs>>
    BY <1>1, <1>4 DEF CreateEvidence, RIInv, RowsOK, Shape
  <2>2. QED
    BY <1>1, <1>4, <2>1, EndingKeepsInv DEF CreateEvidence
<1>5. QED
  BY <1>2, <1>3, <1>4

LEMMA WebCrashKeepsInv == \A c \in Callers : RIInv /\ WebCrash(c) => RIInv'
<1> SUFFICES ASSUME NEW c \in Callers, RIInv, WebCrash(c)
             PROVE  RIInv'
  OBVIOUS
<1>1. RowsOK' /\ UNCHANGED <<profile, jobs>> /\ Ends(c, "idle") /\ c \in Actors
  BY ImportAssumption DEF WebCrash, Counts, RIInv, RowsOK, Actors
<1>2. QED
  BY <1>1, EndingKeepsInv

-----------------------------------------------------------------------------
(* The workers: the scan.                                                   *)

LEMMA ScanKeepsInv ==
    ASSUME RIInv, NEW p \in Procs,
           ScanLooks(p) \/ Scan(p) \/ ScanMisses(p) \/ BlameFile(p)
    PROVE  RIInv'
<1> USE DEF At
<1>1. p \in Actors /\ exec[p] \in Activity /\ Shape(p, exec[p])
  BY DEF RIInv, Actors
<1>2. exec[p].job \in JobIds /\ FileOf(p) \in Files /\ FileOf(p) = exec[p].job[2]
      /\ exec[p].pc \notin {"idle", "confirm", "evidence"}
  BY <1>1, JobsHaveFiles DEF Shape, FileOf, ScanLooks, Scan, ScanMisses, BlameFile
<1>3. CASE ScanLooks(p)
  <2>1. RowsOK' /\ UNCHANGED <<profile, jobs>>
    BY <1>3 DEF ScanLooks, RIInv, RowsOK
  <2>2. Moves(p, "scan") \/ Moves(p, "queue") \/ Ends(p, "resolved")
    BY <1>3 DEF ScanLooks
  <2>3. QED
    BY <1>1, <1>2, <2>1, <2>2, MovingKeepsInv, EndingKeepsInv DEF Pcs
<1>4. CASE Scan(p)
  <2>1. RowsOK' /\ UNCHANGED <<profile, jobs>>
    BY <1>2, <1>4 DEF Scan, RIInv, RowsOK, ScanStatuses
  <2>2. CASE FileOf(p) \in Infected
    BY <1>1, <1>2, <1>4, <2>1, <2>2, MovingKeepsInv DEF Scan, Pcs
  <2>3. CASE FileOf(p) \notin Infected
    BY <1>1, <1>2, <1>4, <2>1, <2>3, MovingKeepsInv DEF Scan, Pcs
  <2>4. QED
    BY <2>2, <2>3
<1>5. CASE ScanMisses(p)
  <2>1. RowsOK' /\ UNCHANGED <<profile, jobs>>
    BY <1>2, <1>5, ImportAssumption DEF ScanMisses, Counts, RIInv, RowsOK, ScanStatuses
  <2>2. QED
    BY <1>1, <1>2, <1>5, <2>1, EndingKeepsInv DEF ScanMisses
<1>6. CASE BlameFile(p)
  <2>1. RowsOK' /\ UNCHANGED <<profile, jobs>> /\ FileOf(p) \in Infected
    BY <1>1, <1>2, <1>6 DEF BlameFile, RIInv, RowsOK, Shape
  <2>2. CASE profile.source = FileOf(p)
    BY <1>1, <1>2, <1>6, <2>1, <2>2, ReadingKeepsInv DEF BlameFile
  <2>3. CASE profile.source # FileOf(p)
    BY <1>1, <1>2, <1>6, <2>1, <2>3, EndingKeepsInv DEF BlameFile
  <2>4. QED
    BY <2>2, <2>3
<1>7. QED
  BY <1>3, <1>4, <1>5, <1>6

LEMMA QueueingKeepsInv ==
    ASSUME RIInv, NEW p \in Procs,
           FindImport(p) \/ MarkScanned(p) \/ EnqueueExtraction(p)
    PROVE  RIInv'
<1> USE DEF At
<1>1. p \in Actors /\ exec[p] \in Activity /\ Shape(p, exec[p]) /\ Knows(exec[p], profile)
      /\ profile \in Profile
  BY DEF RIInv, Actors
<1>2. exec[p].job \in JobIds /\ FileOf(p) \in Files /\ FileOf(p) = exec[p].job[2]
      /\ exec[p].pc \notin {"idle", "confirm", "evidence"}
  BY <1>1, JobsHaveFiles DEF Shape, FileOf, FindImport, MarkScanned, EnqueueExtraction
<1>3. CASE FindImport(p)
  <2> DEFINE me == [exec[p] EXCEPT
                      !.pc = IF profile.status = "pending_scan" THEN "mark" ELSE "enqueue",
                      !.fresh = TRUE,
                      !.adds = <<"extract", FileOf(p), profile.extraction.attempt>>]
  <2>1. RowsOK' /\ UNCHANGED <<profile, jobs>>
    BY <1>3 DEF FindImport, RIInv, RowsOK
  <2>2. <<"extract", FileOf(p), profile.extraction.attempt>> \in JobIds
    BY <1>1, <1>2 DEF JobIds, Profile, Extraction
  <2>3. me \in Activity /\ me.attached = exec[p].attached /\ me.job = exec[p].job
        /\ me.adds \in JobIds /\ me.pc \in {"mark", "enqueue"}
        /\ (me.pc = "mark" => profile.status = "pending_scan")
    BY <1>1, <2>2 DEF Activity, Pcs
  <2>4. exec' = [exec EXCEPT ![p] = me] \/ Ends(p, "resolved")
    BY <1>3 DEF FindImport, Go
  <2> HIDE DEF me
  <2>5. Shape(p, me) /\ Knows(me, profile)
    BY <1>2, <2>3 DEF Shape, Knows
  <2>6. QED
    BY <1>1, <1>2, <2>1, <2>3, <2>4, <2>5, ActivityStepKeepsInv, EndingKeepsInv
<1>4. CASE MarkScanned(p)
  <2> DEFINE new == [profile EXCEPT !.status = "scan_clean"]
  <2> DEFINE me == [exec[p] EXCEPT !.pc = "enqueue"]
  <2>1. RowsOK' /\ UNCHANGED jobs /\ Write(p, new, me)
    BY <1>4 DEF MarkScanned, RIInv, RowsOK
  <2>2. new \in Profile /\ new.status # "ready_for_review"
    BY <1>1 DEF Profile, InFlight
  <2>3. Shape(p, me) /\ me.attached = exec[p].attached /\ me.job = exec[p].job
    BY <1>1, <1>2, <1>4 DEF Shape, Activity, Pcs, MarkScanned
  <2> HIDE DEF new, me
  <2>4. QED
    BY <1>1, <1>2, <2>1, <2>2, <2>3, SwapKeepsInv
<1>5. CASE EnqueueExtraction(p)
  <2>1. /\ RowsOK' /\ Adds(exec[p].adds) /\ Ends(p, "resolved") /\ UNCHANGED profile
        /\ exec[p].adds \in JobIds
    BY <1>1, <1>5 DEF EnqueueExtraction, RIInv, RowsOK, Shape
  <2>2. QED
    BY <1>1, <1>2, <2>1, AddingKeepsInv
<1>6. QED
  BY <1>3, <1>4, <1>5

-----------------------------------------------------------------------------
(* The workers: the extraction.                                             *)

LEMMA ExtractingKeepsInv ==
    ASSUME RIInv, NEW p \in Procs,
           ExtractionLooks(p) \/ MarkExtracting(p) \/ Parse(p)
    PROVE  RIInv'
<1> USE DEF At
<1>1. p \in Actors /\ exec[p] \in Activity /\ Shape(p, exec[p]) /\ Knows(exec[p], profile)
      /\ profile \in Profile
  BY DEF RIInv, Actors
<1>2. exec[p].job \in JobIds /\ exec[p].pc \notin {"idle", "confirm", "evidence"}
  BY <1>1 DEF Shape, ExtractionLooks, MarkExtracting, Parse
<1>3. CASE ExtractionLooks(p)
  <2>1. RowsOK' /\ UNCHANGED <<profile, jobs>>
    BY <1>3 DEF ExtractionLooks, RIInv, RowsOK
  <2>2. \/ Ends(p, "rejected") \/ Ends(p, "resolved")
        \/ Reads(p, "extracting") /\ profile.status \notin Settled
    BY <1>3 DEF ExtractionLooks
  <2>3. QED
    BY <1>1, <1>2, <2>1, <2>2, ReadingKeepsInv, EndingKeepsInv
<1>4. CASE MarkExtracting(p)
  <2> DEFINE new == [profile EXCEPT !.status = "extracting"]
  <2> DEFINE me == [exec[p] EXCEPT !.pc = "parse"]
  <2>1. RowsOK' /\ UNCHANGED jobs /\ Write(p, new, me)
    BY <1>4 DEF MarkExtracting, RIInv, RowsOK
  <2>2. new \in Profile /\ new.status # "ready_for_review"
    BY <1>1 DEF Profile, InFlight
  <2>3. Shape(p, me) /\ me.attached = exec[p].attached /\ me.job = exec[p].job
    BY <1>1, <1>2 DEF Shape, Activity, Pcs
  <2> HIDE DEF new, me
  <2>4. QED
    BY <1>1, <1>2, <2>1, <2>2, <2>3, SwapKeepsInv
<1>5. CASE Parse(p)
  <2>1. RowsOK' /\ UNCHANGED <<profile, jobs>>
    BY <1>5 DEF Parse, RIInv, RowsOK
  <2>2. CASE Moves(p, "parsed")
    BY <1>1, <1>2, <2>1, <2>2, MovingKeepsInv DEF Pcs
  <2>3. CASE Go(p, [exec[p] EXCEPT !.pc = "failing", !.throws = TRUE])
    <3> DEFINE me == [exec[p] EXCEPT !.pc = "failing", !.throws = TRUE]
    <3>1. /\ Shape(p, me) /\ Knows(me, profile)
          /\ me.attached = exec[p].attached /\ me.job = exec[p].job
      BY <1>1, <1>2 DEF Shape, Knows, Activity, Pcs
    <3>2. exec' = [exec EXCEPT ![p] = me]
      BY <2>3 DEF Go
    <3> HIDE DEF me
    <3>3. QED
      BY <1>1, <2>1, <3>1, <3>2, ActivityStepKeepsInv
  <2>4. QED
    BY <1>5, <2>2, <2>3 DEF Parse
<1>6. QED
  BY <1>3, <1>4, <1>5

LEMMA DraftingKeepsInv ==
    ASSUME RIInv, NEW p \in Procs,
           \/ FindDraft(p) \/ SaveDraft(p) \/ FindFailed(p) \/ Restore(p)
           \/ MarkImportFailed(p)
    PROVE  RIInv'
<1> USE DEF At
<1>1. p \in Actors /\ exec[p] \in Activity /\ Shape(p, exec[p]) /\ Knows(exec[p], profile)
      /\ profile \in Profile
  BY DEF RIInv, Actors
<1>2. exec[p].job \in JobIds /\ FileOf(p) \in Files /\ FileOf(p) = exec[p].job[2]
      /\ exec[p].pc \notin {"idle", "confirm", "evidence"}
  BY <1>1, JobsHaveFiles
  DEF Shape, FileOf, FindDraft, SaveDraft, FindFailed, Restore, MarkImportFailed
<1>3. CASE FindDraft(p) \/ FindFailed(p) \/ MarkImportFailed(p)
  <2>1. RowsOK' /\ UNCHANGED <<profile, jobs>>
    BY <1>3 DEF FindDraft, FindFailed, MarkImportFailed, RIInv, RowsOK
  <2>2. \/ Ends(p, "rejected") \/ Ends(p, "resolved")
        \/ /\ Reads(p, "save") \/ Reads(p, "restore")
           /\ profile.source = exec[p].job[2] /\ profile.status \notin Settled
    BY <1>2, <1>3 DEF FindDraft, FindFailed, MarkImportFailed, IsCurrent
  <2>3. QED
    BY <1>1, <1>2, <2>1, <2>2, ReadingKeepsInv, EndingKeepsInv
<1>4. ASSUME NEW pc \in {"resolved", "rejected"}
      PROVE  /\ Shape(p, Rest(p, pc))
             /\ Rest(p, pc).attached => exec[p].attached /\ Rest(p, pc).job = exec[p].job
  BY <1>1, <1>2, RestIsShaped
<1>5. CASE SaveDraft(p)
  <2> DEFINE prior == profile.extraction
  <2> DEFINE new == [profile EXCEPT
                       !.status = "ready_for_review",
                       !.extraction = [Blank EXCEPT !.facts = FileOf(p),
                                                    !.baseline = prior.baseline,
                                                    !.baseSource = prior.baseSource]]
  <2>1. RowsOK' /\ UNCHANGED jobs /\ Write(p, new, Rest(p, "resolved"))
    BY <1>5 DEF SaveDraft, RIInv, RowsOK
  <2>2. new \in Profile /\ new.extraction.facts # "none"
    <3>1. /\ FileOf(p) \in Facts /\ FileOf(p) # "none"
          /\ prior.baseline \in Facts /\ prior.baseSource \in Files \cup {"none"}
      BY <1>1, <1>2, ImportAssumption DEF Profile, Extraction, Facts
    <3>2. PICK f \in Facts, b \in Facts, s \in Files \cup {"none"} :
             f = FileOf(p) /\ b = prior.baseline /\ s = prior.baseSource
      BY <3>1
    <3>3. 0 \in 0..MaxUploads /\ "none" \in Facts /\ "none" \in Files \cup {"none"}
      BY ImportAssumption DEF Facts
    <3>4. [Blank EXCEPT !.facts = f, !.baseline = b, !.baseSource = s] \in Extraction
      BY <3>3, BlankIsExtraction
    <3>5. [Blank EXCEPT !.facts = f, !.baseline = b, !.baseSource = s].facts = f
      BY DEF Blank
    <3>6. QED
      BY <1>1, <3>1, <3>2, <3>4, <3>5 DEF Profile, Settled
  <2> HIDE DEF new
  <2>3. QED
    BY <1>1, <1>2, <1>4, <2>1, <2>2, SwapKeepsInv
<1>6. CASE Restore(p)
  <2> DEFINE new == Restored(profile)
  <2> DEFINE pc == IF exec[p].throws THEN "rejected" ELSE "resolved"
  <2>1. RowsOK' /\ UNCHANGED jobs /\ Write(p, new, Rest(p, pc)) /\ pc \in {"resolved", "rejected"}
    BY <1>6 DEF Restore, RIInv, RowsOK
  <2>2. new \in Profile /\ new.status # "ready_for_review"
    BY <1>1, RestoredIsProfile DEF Restored
  <2> HIDE DEF new, pc
  <2>3. QED
    BY <1>1, <1>2, <1>4, <2>1, <2>2, SwapKeepsInv
<1>7. QED
  BY <1>3, <1>5, <1>6

-----------------------------------------------------------------------------
(* The queue.                                                               *)

\* The jobs change as well: deliveries the queue waits for stay those of active jobs.
LEMMA QueueStepKeepsInv ==
    ASSUME RIInv, RowsOK', UNCHANGED profile, JobsOK', TriesAreLeft', DeliveriesAreActive',
           exec' \in [Actors -> Activity],
           \A b \in Actors : exec'[b] = exec[b] \/ (Shape(b, exec'[b]) /\ Knows(exec'[b], profile))
    PROVE  RIInv'
BY DEF RIInv, ReviewsHaveFacts

\* A failed delivery of an active job: what the job becomes.
LEMMA FailingKeepsJobs ==
    ASSUME JobsOK, TriesAreLeft, NEW j \in JobIds, jobs[j].state = "active",
           jobs' = AfterFailure(j)
    PROVE  /\ JobsOK' /\ TriesAreLeft'
           /\ \A i \in JobIds \ {j} : jobs'[i] = jobs[i]
<1>1. jobs[j].left \in 1..Tries
  BY ImportAssumption DEF JobsOK, TriesAreLeft
<1>2. QED
  BY <1>1, ImportAssumption DEF JobsOK, TriesAreLeft, AfterFailure

LEMMA DeliverKeepsInv ==
    ASSUME RIInv, NEW p \in Procs, NEW j \in JobIds, Deliver(p, j)
    PROVE  RIInv'
<1> DEFINE me == [Idle EXCEPT !.pc = "look", !.job = j, !.attached = TRUE]
<1>1. RowsOK' /\ UNCHANGED profile /\ p \in Actors /\ jobs[j].state = "waiting"
      /\ jobs' = [jobs EXCEPT ![j].state = "active"] /\ exec' = [exec EXCEPT ![p] = me]
  BY DEF Deliver, RIInv, RowsOK, Actors, Go
<1>2. Shape(p, me) /\ Knows(me, profile) /\ me \in Activity /\ me.job = j /\ me.attached
  BY DEF Shape, Knows, Idle, Activity, Pcs, ScanStatuses
<1> HIDE DEF me
<1>3. JobsOK' /\ TriesAreLeft'
  BY <1>1 DEF RIInv, JobsOK, TriesAreLeft
<1>4. DeliveriesAreActive'
  <2>1. \A a \in Actors : exec[a].attached => exec[a].job # j
    BY <1>1 DEF RIInv, DeliveriesAreActive
  <2>2. exec \in [Actors -> Activity] /\ JobsOK /\ DeliveriesAreActive
    BY DEF RIInv
  <2>3. jobs'[j].state = "active" /\ \A i \in JobIds \ {j} : jobs'[i] = jobs[i]
    BY <1>1, <2>2 DEF JobsOK
  <2>4. QED
    BY <1>1, <1>2, <2>1, <2>2, <2>3 DEF DeliveriesAreActive
<1>5. exec' \in [Actors -> Activity]
      /\ \A b \in Actors : exec'[b] = exec[b] \/ (Shape(b, exec'[b]) /\ Knows(exec'[b], profile))
  BY <1>1, <1>2 DEF RIInv
<1>6. QED
  BY <1>1, <1>3, <1>4, <1>5, QueueStepKeepsInv

\* An activity that is not waited for any more.
LEMMA LeavingKeepsInv ==
    ASSUME RIInv, NEW p \in Procs, NEW me, Shape(p, me), ~me.fresh, ~me.attached,
           exec' = [exec EXCEPT ![p] = me], UNCHANGED profile, RowsOK',
           exec[p].job \in JobIds,
           \/ UNCHANGED jobs
           \/ /\ exec[p].attached
              /\ \/ jobs' = [jobs EXCEPT ![exec[p].job].state = "completed"]
                 \/ jobs' = AfterFailure(exec[p].job)
    PROVE  RIInv'
<1> USE DEF RIInv, Actors
<1>1. \A i \in JobIds : jobs'[i] = jobs[i] \/ (i = exec[p].job /\ exec[p].attached)
  BY DEF JobsOK, AfterFailure
<1>2. JobsOK' /\ TriesAreLeft'
  <2>1. CASE UNCHANGED jobs
    BY <2>1 DEF JobsOK, TriesAreLeft
  <2>2. CASE jobs' = [jobs EXCEPT ![exec[p].job].state = "completed"]
    BY <2>2 DEF JobsOK, TriesAreLeft
  <2>3. CASE jobs' = AfterFailure(exec[p].job) /\ exec[p].attached
    BY <2>3, FailingKeepsJobs DEF DeliveriesAreActive
  <2>4. QED
    BY <2>1, <2>2, <2>3
<1>3. DeliveriesAreActive'
  BY <1>1 DEF DeliveriesAreActive
<1>4. exec' \in [Actors -> Activity]
      /\ \A b \in Actors : exec'[b] = exec[b] \/ (Shape(b, exec'[b]) /\ Knows(exec'[b], profile))
  BY DEF Shape, Knows
<1>5. QED
  BY <1>2, <1>3, <1>4, QueueStepKeepsInv

LEMMA EndOfDeliveryKeepsInv ==
    ASSUME RIInv, NEW p \in Procs, Resolve(p) \/ Reject(p)
    PROVE  RIInv'
<1> DEFINE hook == [Idle EXCEPT !.pc = "hook", !.job = exec[p].job]
<1>1. p \in Actors /\ exec[p] \in Activity /\ Shape(p, exec[p]) /\ exec[p].job \in JobIds
  BY DEF RIInv, Actors, Resolve, Reject, At, Shape
<1>2. RowsOK' /\ UNCHANGED profile
  BY DEF Resolve, Reject, RIInv, RowsOK
<1>3. /\ Shape(p, hook) /\ ~hook.fresh /\ ~hook.attached
      /\ Shape(p, Idle) /\ ~Idle.fresh /\ ~Idle.attached
  <2>1. hook \in Activity /\ hook.pc = "hook" /\ hook.job = exec[p].job
        /\ ~hook.fresh /\ ~hook.attached
    BY <1>1 DEF Idle, Activity, Pcs, ScanStatuses
  <2>2. Shape(p, hook)
    BY <1>1, <2>1 DEF Shape
  <2>3. QED
    BY <1>1, <2>1, <2>2, IdleIsShaped
<1>4. exec' = [exec EXCEPT ![p] = Idle] \/ exec' = [exec EXCEPT ![p] = hook]
  BY DEF Resolve, Reject, Go
<1>5. \/ UNCHANGED jobs
      \/ /\ exec[p].attached
         /\ \/ jobs' = [jobs EXCEPT ![exec[p].job].state = "completed"]
            \/ jobs' = AfterFailure(exec[p].job)
  BY <1>1 DEF Resolve, Reject
<1> HIDE DEF hook
<1>6. QED
  BY <1>1, <1>2, <1>3, <1>4, <1>5, LeavingKeepsInv

LEMMA TimeoutKeepsInv ==
    ASSUME RIInv, NEW p \in Procs, NEW q \in Procs, JobTimeout(p, q)
    PROVE  RIInv'
<1> DEFINE j == exec[p].job
<1> DEFINE hook == [Idle EXCEPT !.pc = "hook", !.job = j]
<1> DEFINE late == [exec[p] EXCEPT !.attached = FALSE]
<1> USE DEF RIInv
<1>1. /\ p \in Actors /\ q \in Actors /\ exec[p].attached
      /\ j \in JobIds /\ jobs[j].state = "active" /\ jobs' = AfterFailure(j)
  BY DEF Actors, JobTimeout, DeliveriesAreActive
<1>2. RowsOK' /\ UNCHANGED profile
  BY ImportAssumption DEF JobTimeout, Counts, RowsOK
<1>3. JobsOK' /\ TriesAreLeft' /\ \A i \in JobIds \ {j} : jobs'[i] = jobs[i]
  BY <1>1, FailingKeepsJobs
<1>4. /\ Shape(q, hook) /\ Knows(hook, profile) /\ ~hook.attached /\ hook \in Activity
  <2>1. hook \in Activity /\ hook.pc = "hook" /\ hook.job = j /\ ~hook.fresh /\ ~hook.attached
    BY <1>1 DEF Idle, Activity, Pcs, ScanStatuses
  <2>2. QED
    BY <1>1, <2>1 DEF Shape, Knows
<1>5. /\ Shape(p, late) /\ Knows(late, profile) /\ ~late.attached /\ late \in Activity
  <2>1. exec[p] \in Activity /\ Shape(p, exec[p]) /\ Knows(exec[p], profile)
    BY <1>1
  <2>2. late \in Activity /\ late.pc = exec[p].pc /\ late.job = exec[p].job
        /\ late.adds = exec[p].adds /\ late.source = exec[p].source
        /\ late.fresh = exec[p].fresh /\ ~late.attached
    BY <2>1 DEF Activity
  <2>3. QED
    BY <2>1, <2>2 DEF Shape, Knows
<1>6. \/ exec' = [exec EXCEPT ![p] = late]
      \/ exec' = [exec EXCEPT ![p] = late, ![q] = hook] /\ At(q, "idle")
  BY <1>1 DEF JobTimeout
<1> HIDE DEF j, hook, late
<1>7. exec' \in [Actors -> Activity]
      /\ \A b \in Actors : exec'[b] = exec[b] \/ (Shape(b, exec'[b]) /\ Knows(exec'[b], profile))
  BY <1>1, <1>4, <1>5, <1>6
<1>8. DeliveriesAreActive'
  <2>1. \A b \in Actors : exec'[b].attached => b # p /\ exec'[b] = exec[b]
    BY <1>1, <1>4, <1>5, <1>6
  <2>2. \A b \in Actors : exec'[b].attached => exec[b].job # j
    BY <1>1, <2>1 DEF DeliveriesAreActive, j
  <2>3. QED
    BY <1>3, <2>1, <2>2 DEF DeliveriesAreActive
<1>9. QED
  BY <1>2, <1>3, <1>7, <1>8, QueueStepKeepsInv

LEMMA CrashKeepsInv ==
    ASSUME RIInv, NEW P \in SUBSET Procs, WorkerCrash(P)
    PROVE  RIInv'
<1> USE DEF RIInv
<1>1. RowsOK' /\ UNCHANGED profile /\ P \subseteq Actors
  BY ImportAssumption DEF WorkerCrash, Counts, RowsOK, Actors
<1>2. exec' = [a \in Actors |-> IF a \in P THEN Idle ELSE exec[a]]
  BY DEF WorkerCrash
<1>3. exec' \in [Actors -> Activity]
      /\ \A b \in Actors : exec'[b] = exec[b] \/ (Shape(b, exec'[b]) /\ Knows(exec'[b], profile))
  BY <1>1, <1>2, IdleIsShaped DEF Shape, Knows
<1>4. \A i \in JobIds :
         IF \E p \in P : exec[p].attached /\ exec[p].job = i
         THEN jobs'[i] = [jobs[i] EXCEPT !.state = "waiting"] ELSE jobs'[i] = jobs[i]
  BY DEF WorkerCrash
<1>5. JobsOK'
  BY <1>4 DEF JobsOK, WorkerCrash
<1>6. TriesAreLeft'
  <2>1. ASSUME NEW i \in JobIds, NEW p \in P, exec[p].attached, exec[p].job = i
        PROVE  jobs[i].state = "active" /\ jobs'[i].left = jobs[i].left
    <3>1. jobs[i].state = "active"
      BY <1>1, <2>1 DEF DeliveriesAreActive
    <3>2. jobs'[i] = [jobs[i] EXCEPT !.state = "waiting"]
      BY <1>4, <2>1
    <3>3. QED
      BY <3>1, <3>2 DEF JobsOK
  <2>2. QED
    BY <1>4, <2>1 DEF TriesAreLeft
<1>7. DeliveriesAreActive'
  <2>1. \A b \in Actors : exec'[b].attached => b \notin P /\ exec'[b] = exec[b]
    BY <1>2, IdleIsShaped
  <2>2. ASSUME NEW b \in Actors, exec'[b].attached
        PROVE  jobs'[exec[b].job] = jobs[exec[b].job]
    BY <1>1, <1>4, <2>1, <2>2 DEF DeliveriesAreActive
  <2>3. QED
    BY <2>1, <2>2 DEF DeliveriesAreActive
<1>8. QED
  BY <1>1, <1>3, <1>5, <1>6, <1>7, QueueStepKeepsInv

-----------------------------------------------------------------------------
(* The invariant.                                                           *)

LEMMA RIInvHoldsInitially == Init => RIInv
<1> SUFFICES ASSUME Init
             PROVE  RIInv
  OBVIOUS
<1>1. RowsOK /\ JobsOK /\ TriesAreLeft
  BY ImportAssumption DEF Init, RowsOK, JobsOK, TriesAreLeft, ScanStatuses
<1>2. profile \in Profile /\ ReviewsHaveFacts
  <2>1. "none" \in Facts /\ 0 \in 0..MaxUploads
    BY ImportAssumption DEF Facts
  <2>2. QED
    BY <2>1 DEF Init, Profile, NewProfile, Blank, Extraction, ReviewsHaveFacts
<1>3. exec \in [Actors -> Activity] /\ DeliveriesAreActive
      /\ \A a \in Actors : Shape(a, exec[a]) /\ Knows(exec[a], profile)
  BY IdleIsShaped DEF Init, DeliveriesAreActive, Shape, Knows
<1>4. QED
  BY <1>1, <1>2, <1>3 DEF RIInv

LEMMA RIInvIsInductive == RIInv /\ [Next]_vars => RIInv'
<1> SUFFICES ASSUME RIInv, [Next]_vars
             PROVE  RIInv'
  OBVIOUS
<1>1. CASE Candidate
  BY <1>1, CandidateKeepsInv
<1>2. ASSUME NEW c \in Callers,
             Request(c) \/ ConfirmReads(c) \/ WebCrash(c) \/ \E f \in Files : Upload(c, f)
      PROVE  RIInv'
  BY <1>2, UploadKeepsInv, UploadStepKeepsInv, ConfirmKeepsInv, WebCrashKeepsInv DEF Request
<1>3. ASSUME NEW p \in Procs, Work(p) \/ ScanMisses(p) \/ \E j \in JobIds : Deliver(p, j)
      PROVE  RIInv'
  BY <1>3, ScanKeepsInv, QueueingKeepsInv, ExtractingKeepsInv, DraftingKeepsInv,
     EndOfDeliveryKeepsInv, DeliverKeepsInv DEF Work
<1>4. CASE \E p, q \in Procs : JobTimeout(p, q)
  BY <1>4, TimeoutKeepsInv
<1>5. CASE \E P \in SUBSET Procs : WorkerCrash(P)
  BY <1>5, CrashKeepsInv
<1>6. CASE UNCHANGED vars
  BY <1>6 DEF vars, RIInv, RowsOK, ReviewsHaveFacts, JobsOK, TriesAreLeft, DeliveriesAreActive
<1>7. QED
  BY <1>1, <1>2, <1>3, <1>4, <1>5, <1>6 DEF Next

LEMMA RIInvHolds == RISpec => []RIInv
BY RIInvHoldsInitially, RIInvIsInductive, PTL DEF RISpec

-----------------------------------------------------------------------------
(* What follows from it.                                                    *)

\* Profile, files, jobs and activities keep their types; no job is delivered beyond its tries.
THEOREM ImportTypeCorrect == RISpec => []RITypeOK
<1>1. RIInv => RITypeOK
  BY DEF RIInv, RITypeOK, RowsOK, JobsOK, Activity
<1>2. QED
  BY <1>1, RIInvHolds, PTL

\* Who writes the profile, and that a writer was fresh.
LEMMA ProfileWriters ==
    ASSUME Next, profile' # profile
    PROVE  \/ Candidate
           \/ \E c \in Callers : exec[c].fresh /\ (PointProfile(c) \/ ConfirmWrites(c))
           \/ \E p \in Procs : exec[p].fresh /\ (\/ MarkScanned(p) \/ MarkExtracting(p)
                                                \/ SaveDraft(p) \/ Restore(p))
<1>1. ASSUME NEW c \in Callers,
             Request(c) \/ ConfirmReads(c) \/ WebCrash(c) \/ \E f \in Files : Upload(c, f)
      PROVE  exec[c].fresh /\ (PointProfile(c) \/ ConfirmWrites(c))
  BY <1>1 DEF Request, ConfirmReads, WebCrash, Upload, ClaimUpload, LookAtFile, StoreFile,
              EnqueueScan, CreateEvidence, PointProfile, ConfirmWrites, Write
<1>2. ASSUME NEW p \in Procs, Work(p) \/ ScanMisses(p) \/ \E j \in JobIds : Deliver(p, j)
      PROVE  exec[p].fresh /\ (MarkScanned(p) \/ MarkExtracting(p) \/ SaveDraft(p) \/ Restore(p))
  <2>1. MarkScanned(p) \/ MarkExtracting(p) \/ SaveDraft(p) \/ Restore(p)
    BY <1>2 DEF Work, ScanMisses, Deliver, ScanLooks, Scan, BlameFile, FindImport,
                EnqueueExtraction, ExtractionLooks, Parse, FindDraft, FindFailed, Resolve, Reject,
                MarkImportFailed
  <2>2. exec[p].fresh
    BY <2>1 DEF MarkScanned, MarkExtracting, SaveDraft, Restore, Write
  <2>3. QED
    BY <2>1, <2>2
<1>3. ~(\E p, q \in Procs : JobTimeout(p, q)) /\ ~(\E P \in SUBSET Procs : WorkerCrash(P))
  BY DEF JobTimeout, WorkerCrash
<1>4. QED
  BY <1>1, <1>2, <1>3 DEF Next

\* What a worker's write leaves of the profile, and when it may happen.
LEMMA WorkersWrite ==
    ASSUME RIInv, NEW p \in Procs, exec[p].fresh,
           MarkScanned(p) \/ MarkExtracting(p) \/ SaveDraft(p) \/ Restore(p)
    PROVE  /\ profile.status \notin Settled \/ profile.source \in Infected
           /\ profile.status \notin Settled /\ profile.extraction.baseline # "none" =>
                 /\ profile'.status # "confirmed"
                 /\ profile'.extraction.baseline = profile.extraction.baseline
           /\ profile'.status = "ready_for_review" =>
                 profile'.extraction.facts = FileOf(p) /\ profile.source = FileOf(p)
<1>1. Knows(exec[p], profile) /\ profile \in Profile
  BY DEF RIInv, Actors
<1>2. CASE MarkScanned(p)
  BY <1>1, <1>2 DEF MarkScanned, Write, At, Knows, Settled, Profile
<1>3. CASE MarkExtracting(p)
  BY <1>1, <1>3 DEF MarkExtracting, Write, At, Knows, Settled, Profile
<1>4. CASE SaveDraft(p)
  <2>1. profile.source = FileOf(p) /\ profile.status \notin Settled
    BY <1>1, <1>4 DEF SaveDraft, At, Knows, FileOf
  <2>2. /\ profile'.status = "ready_for_review"
        /\ profile'.extraction.facts = FileOf(p)
        /\ profile'.extraction.baseline = profile.extraction.baseline
    <3>1. profile' = [profile EXCEPT
                        !.status = "ready_for_review",
                        !.extraction = [Blank EXCEPT
                                          !.facts = FileOf(p),
                                          !.baseline = profile.extraction.baseline,
                                          !.baseSource = profile.extraction.baseSource]]
      BY <1>4 DEF SaveDraft, Write
    <3>2. \A f, b, s : /\ [Blank EXCEPT !.facts = f, !.baseline = b, !.baseSource = s].facts = f
                       /\ [Blank EXCEPT !.facts = f, !.baseline = b, !.baseSource = s].baseline = b
      BY DEF Blank
    <3>3. PICK e : e = [Blank EXCEPT !.facts = FileOf(p),
                                     !.baseline = profile.extraction.baseline,
                                     !.baseSource = profile.extraction.baseSource]
      OBVIOUS
    <3>4. e.facts = FileOf(p) /\ e.baseline = profile.extraction.baseline
      BY <3>2, <3>3
    <3>5. profile' = [profile EXCEPT !.status = "ready_for_review", !.extraction = e]
      BY <3>1, <3>3
    <3>6. QED
      BY <1>1, <3>4, <3>5 DEF Profile
  <2>3. QED
    BY <2>1, <2>2
<1>5. CASE Restore(p)
  <2>1. profile.status \notin Settled \/ profile.source \in Infected
    BY <1>1, <1>5 DEF Restore, At, Knows
  <2>2. /\ profile'.status = "failed"
        /\ profile.extraction.baseline # "none" =>
              profile'.extraction.baseline = profile.extraction.baseline
    <3>1. profile' = Restored(profile)
      BY <1>5 DEF Restore, Write
    <3>2. CASE profile.extraction.baseline # "none"
      <4>1. Restored(profile).extraction
              = [profile.extraction EXCEPT !.facts = profile.extraction.baseline,
                                           !.draft = "none", !.attempt = 0]
        BY <3>2 DEF Restored
      <4>2. QED
        BY <1>1, <3>1, <3>2, <4>1 DEF Restored, Profile, Extraction
    <3>3. CASE profile.extraction.baseline = "none"
      BY <3>1, <3>3 DEF Restored
    <3>4. QED
      BY <3>2, <3>3
  <2>3. QED
    BY <2>1, <2>2
<1>6. QED
  BY <1>2, <1>3, <1>4, <1>5

\* What the candidate's requests leave of it.
LEMMA CandidateWrites ==
    ASSUME RIInv, Candidate
    PROVE  /\ Kept
           /\ \A p \in Procs : exec'[p].pc = exec[p].pc
           /\ \A f \in Files : profile.extraction.facts # f => profile'.extraction.facts # f
<1>1. profile \in Profile /\ exec \in [Actors -> Activity] /\ Procs \subseteq Actors
  BY DEF RIInv, Actors
<1>2. ASSUME NEW typed \in Typed, SaveReview(typed)
      PROVE  /\ profile.status # "confirmed" /\ profile'.status = profile.status
             /\ profile'.extraction.baseline = profile.extraction.baseline
             /\ profile'.extraction.facts = typed
             /\ \A p \in Procs : exec'[p].pc = exec[p].pc
  BY <1>1, <1>2 DEF SaveReview, Save, Profile, Extraction, Activity
<1>3. ASSUME NEW typed \in Typed \cup {"contact"}, NEW manual \in BOOLEAN,
             SaveProfile(typed, manual) \/ Complete(typed, manual)
      PROVE  /\ profile'.extraction.facts \in {typed, profile.extraction.facts, "contact"}
             /\ profile'.extraction.facts # "none"
             /\ profile'.extraction.baseline = profile.extraction.baseline
             /\ profile.status = "confirmed" => profile'.status = "confirmed"
             /\ \A p \in Procs : exec'[p].pc = exec[p].pc
  <2> DEFINE draft == Drafted(typed, manual)
  <2>1. /\ draft \in Profile /\ draft.extraction.facts # "none"
        /\ draft.extraction.baseline = profile.extraction.baseline
        /\ profile.status = "confirmed" <=> draft.status = "confirmed"
    BY <1>1, DraftedHasFacts
  <2>2. draft.extraction.facts \in {typed, profile.extraction.facts, "contact"}
    BY <1>1 DEF Drafted, Merged, Profile, Extraction
  <2> HIDE DEF draft
  <2>3. profile' = draft \/ profile' = [draft EXCEPT !.status = "confirmed"]
    BY <1>3 DEF SaveProfile, Complete, Save, draft
  <2>4. \A p \in Procs : exec'[p].pc = exec[p].pc
    BY <1>1, <1>3 DEF SaveProfile, Complete, Save, Activity
  <2>5. QED
    BY <2>1, <2>2, <2>3, <2>4 DEF Profile
<1>4. Files \cap Typed = {} /\ "contact" \notin Files
  BY ImportAssumption
<1>5. QED
  BY <1>2, <1>3, <1>4 DEF Candidate, Kept, Confirmed

LEMMA CallersWrite ==
    ASSUME RIInv, NEW c \in Callers, exec[c].fresh, PointProfile(c) \/ ConfirmWrites(c)
    PROVE  /\ Kept
           /\ \A p \in Procs : exec'[p].pc = exec[p].pc
           /\ profile'.status # "ready_for_review"
<1>1. profile \in Profile /\ exec \in [Actors -> Activity] /\ Procs \subseteq Actors
      /\ c \in Actors /\ c \notin Procs /\ Knows(exec[c], profile)
  BY ImportAssumption DEF RIInv, Actors
<1>2. \A p \in Procs : exec'[p].pc = exec[p].pc
  BY <1>1 DEF PointProfile, ConfirmWrites, Write, Activity
<1>3. CASE PointProfile(c)
  <2>1. /\ profile'.status = "pending_scan"
        /\ profile'.extraction = Wrapped(profile, exec[c].job[3])
    BY <1>3 DEF PointProfile, Write
  <2>2. Confirmed # "none" => Wrapped(profile, exec[c].job[3]).baseline = Confirmed
    BY <1>1 DEF Confirmed, Wrapped, Blank
  <2>3. QED
    BY <1>2, <2>1, <2>2 DEF Kept, Confirmed
<1>4. CASE ConfirmWrites(c)
  <2>1. profile.extraction.facts # "none"
    BY <1>1, <1>4 DEF ConfirmWrites, At, Knows, RIInv, ReviewsHaveFacts
  <2>2. profile'.status = "confirmed" /\ profile'.extraction.facts = profile.extraction.facts
    <3>1. profile' = [profile EXCEPT
                        !.status = "confirmed",
                        !.extraction = [Blank EXCEPT
                                          !.facts = profile.extraction.facts,
                                          !.attempt = profile.extraction.attempt]]
      BY <1>4 DEF ConfirmWrites, Write
    <3>2. [Blank EXCEPT !.facts = profile.extraction.facts,
                        !.attempt = profile.extraction.attempt].facts = profile.extraction.facts
      BY DEF Blank
    <3>3. QED
      BY <1>1, <3>1, <3>2 DEF Profile
  <2>3. QED
    BY <1>2, <2>1, <2>2 DEF Kept, Confirmed
<1>5. QED
  BY <1>3, <1>4

\* A confirmed resume is replaced by another confirmation only, unless its replacement turned out
\* to be infected: the baselines survive every failure, timeout, crash and racing upload.
THEOREM ConfirmedSurvives == RISpec => ConfirmedIsKept
<1>1. RIInv /\ [Next]_vars => [Condemned \/ Kept]_vars
  <2> SUFFICES ASSUME RIInv, Next
               PROVE  Condemned \/ Kept
    OBVIOUS
  <2>1. CASE profile' = profile
    BY <2>1 DEF Kept, Confirmed
  <2>2. ASSUME NEW p \in Procs, exec[p].fresh,
               MarkScanned(p) \/ MarkExtracting(p) \/ SaveDraft(p) \/ Restore(p)
        PROVE  Condemned \/ Kept
    BY <2>2, WorkersWrite DEF Condemned, Kept, Confirmed, Settled
  <2>3. QED
    BY <2>1, <2>2, ProfileWriters, CandidateWrites, CallersWrite
<1>2. QED
  BY <1>1, RIInvHolds, PTL DEF RISpec, ConfirmedIsKept

\* No worker writes over a draft under review or a confirmed profile.
THEOREM ReviewsAreKept == RISpec => WorkersKeepReviews
<1>1. RIInv /\ [Next]_vars =>
        [profile.status \in Settled /\ profile' # profile =>
            Condemned \/ \A p \in Procs : exec'[p].pc = exec[p].pc]_vars
  <2> SUFFICES ASSUME RIInv, Next, profile.status \in Settled, profile' # profile
               PROVE  Condemned \/ \A p \in Procs : exec'[p].pc = exec[p].pc
    OBVIOUS
  <2>1. ASSUME NEW p \in Procs, exec[p].fresh,
               MarkScanned(p) \/ MarkExtracting(p) \/ SaveDraft(p) \/ Restore(p)
        PROVE  Condemned
    BY <2>1, WorkersWrite DEF Condemned
  <2>2. QED
    BY <2>1, ProfileWriters, CandidateWrites, CallersWrite
<1>2. QED
  BY <1>1, RIInvHolds, PTL DEF RISpec, WorkersKeepReviews

\* The text of a file the profile does not name any more never comes in for review.
THEOREM LateTextStaysOut == RISpec => ParsedIsCurrent
<1>1. RIInv /\ [Next]_vars =>
        [\A f \in Files :
            /\ profile.status \in InFlight /\ profile'.status = "ready_for_review"
            /\ profile.extraction.facts # f /\ profile'.extraction.facts = f
            => profile.source = f]_vars
  <2> SUFFICES ASSUME RIInv, Next, NEW f \in Files,
                      profile.status \in InFlight, profile'.status = "ready_for_review",
                      profile.extraction.facts # f, profile'.extraction.facts = f
               PROVE  profile.source = f
    OBVIOUS
  <2>1. profile' # profile
    OBVIOUS
  <2>2. ~Candidate /\ ~(\E c \in Callers : exec[c].fresh /\ (PointProfile(c) \/ ConfirmWrites(c)))
    BY CandidateWrites, CallersWrite
  <2>3. QED
    BY <2>1, <2>2, ProfileWriters, WorkersWrite
<1>2. QED
  BY <1>1, RIInvHolds, PTL DEF RISpec, ParsedIsCurrent
=============================================================================
