------------------------------ MODULE ResumeImport ------------------------------
(***************************************************************************)
(* A candidate's profile and the import of a resume into it:               *)
(* modules/resumes/import-service.ts with modules/profile.  An upload      *)
(* stores the file, points the profile at it and queues a malware scan;    *)
(* the scan queues the extraction; the extraction leaves a draft, which    *)
(* the candidate reviews and confirms.  A confirmed resume stays behind as *)
(* the baseline while a replacement is on its way.                         *)
(*                                                                         *)
(* Every write of the profile is a compare and swap of its version: it     *)
(* takes effect when nothing was written since the writer's read, and      *)
(* throws ONBOARDING_STALE otherwise.  The version itself is not kept: a   *)
(* reader is "fresh" until somebody else writes, so what it writes is      *)
(* made from the row there is, and a stale one writes nothing.             *)
(***************************************************************************)
EXTENDS Naturals, FiniteSets

CONSTANTS
    Procs,         \* activities of the worker processes
    Callers,       \* browser sessions of the candidate
    Files,         \* resumes, by the checksum of their bytes
    Infected,      \* those among them the scanner refuses
    Typed,         \* careers the candidate may type in
    Tries,         \* deliveries of a job before it is exhausted
    MaxUploads,    \* bound: uploads
    MaxSaves,      \* bound: other requests that may write the profile
    MaxFaults      \* bound: deliveries that lose the race against the job timeout, processes that
                   \* die, reads of the object store that come back empty, all together

Actors == Procs \cup Callers

ASSUME ImportAssumption ==
    /\ Procs \cap Callers = {}
    /\ Infected \subseteq Files
    /\ Files \cap Typed = {} /\ {"none", "contact"} \cap (Files \cup Typed) = {}
    /\ Tries \in Nat \ {0}
    /\ {MaxUploads, MaxSaves, MaxFaults} \subseteq Nat

VARIABLES
    profile,   \* candidate_profiles: the import's columns
    files,     \* stored_files.scanStatus
    leases,    \* resume_work_records of kind upload: who stores the file
    jobs,      \* the queues maintenance and document-parsing, by job id
    exec,      \* the activities and the requests
    evidence,  \* files with evidence items of their own
    count      \* how much of each bound is used

vars == <<profile, files, leases, jobs, exec, evidence, count>>

-----------------------------------------------------------------------------
(* What a profile holds.  "contact" is an extraction with contact details   *)
(* and nothing else.                                                        *)

Facts == {"none", "contact"} \cup Files \cup Typed

InFlight == {"pending_scan", "scan_clean", "extracting"}
Settled == {"ready_for_review", "confirmed"}

Extraction ==
    [facts : Facts, baseline : Facts, baseSource : Files \cup {"none"}, draft : Facts,
     attempt : 0..MaxUploads]                          \* 0: none, "legacy" in a job's id

Blank == [facts |-> "none", baseline |-> "none", baseSource |-> "none", draft |-> "none",
          attempt |-> 0]

Profile ==
    [status : {"none", "failed"} \cup InFlight \cup Settled, source : Files \cup {"none"},
     extraction : Extraction]

NewProfile == [status |-> "none", source |-> "none", extraction |-> Blank]

\* wrapWithConfirmedBaseline, or else wrapWithDraftBaseline, of what the upload read.
Wrapped(read, attempt) ==
    LET prior == read.extraction
        source == IF prior.baseSource = "none" THEN read.source ELSE prior.baseSource IN
    IF read.status = "confirmed" /\ prior.facts # "none"
    THEN [Blank EXCEPT
            !.baseline = prior.facts, !.attempt = attempt,
            !.baseSource = IF read.source # "none" THEN read.source ELSE prior.baseSource]
    ELSE IF prior.baseline # "none"
    THEN [Blank EXCEPT !.baseline = prior.baseline, !.baseSource = source, !.attempt = attempt]
    ELSE [Blank EXCEPT !.draft = prior.facts, !.attempt = attempt]

\* Mutant: the confirmed resume is forgotten.
RestoredDraft(read) ==
    [status |-> "failed", source |-> read.source,
     extraction |-> [Blank EXCEPT !.facts = read.extraction.draft]]

\* restoreConfirmedOrFail.
Restored(read) ==
    LET prior == read.extraction IN
    IF prior.baseline # "none"
    THEN [status |-> "failed",
          source |-> IF prior.baseSource # "none" THEN prior.baseSource ELSE read.source,
          extraction |-> [prior EXCEPT !.facts = prior.baseline, !.draft = "none", !.attempt = 0]]
    ELSE [status |-> "failed", source |-> read.source,
          extraction |-> [Blank EXCEPT !.facts = prior.draft]]

\* mergeExtraction: a career that is typed in replaces the one there is, contact details do not.
Merged(prior, typed) ==
    [prior EXCEPT !.facts = IF typed \in Typed THEN typed ELSE IF @ = "none" THEN "contact" ELSE @]

\* hasManualCareerReady.
CareerReady(extraction) == extraction.facts \notin {"none", "contact"}

-----------------------------------------------------------------------------
(* State.                                                                   *)

JobIds == {"scan", "extract"} \X Files \X (0..MaxUploads)
NoJob == <<"none", "none", 0>>

Pcs == {"idle", "claim", "look", "store", "point", "enqueue", "confirm", "evidence",
        "scan", "infected", "queue", "mark", "extracting", "parse", "parsed", "failing",
        "save", "restore", "hook", "resolved", "rejected"}

\* file: the scan status that was read; source, adds: the file and the job that were read or made.
Idle == [pc |-> "idle", job |-> NoJob, attached |-> FALSE, fresh |-> FALSE, file |-> "absent",
         source |-> "none", adds |-> NoJob, throws |-> FALSE]

ScanStatuses == {"absent", "pending", "clean", "infected", "failed"}

RITypeOK ==
    /\ profile \in Profile
    /\ files \in [Files -> ScanStatuses]
    /\ leases \in [Files -> Callers \cup {"nobody"}]
    /\ jobs \in [JobIds -> [state : {"absent", "waiting", "active", "completed", "failed"},
                            left : 0..Tries]]
    /\ exec \in [Actors -> [pc : Pcs, job : JobIds \cup {NoJob}, attached : BOOLEAN,
                            fresh : BOOLEAN, file : ScanStatuses,
                            source : Files \cup {"none"}, adds : JobIds \cup {NoJob},
                            throws : BOOLEAN]]
    /\ evidence \subseteq Files
    /\ count \in [uploads : 0..MaxUploads, saves : 0..MaxSaves, faults : 0..MaxFaults]

\* getOrCreate of ProfileService.
Init ==
    /\ profile = NewProfile
    /\ files = [f \in Files |-> "absent"]
    /\ leases = [f \in Files |-> "nobody"]
    /\ jobs = [j \in JobIds |-> [state |-> "absent", left |-> Tries]]
    /\ exec = [a \in Actors |-> Idle]
    /\ evidence = {}
    /\ count = [uploads |-> 0, saves |-> 0, faults |-> 0]

At(a, pc) == exec[a].pc = pc
Go(a, rec) == exec' = [exec EXCEPT ![a] = rec]
Moves(a, pc) == Go(a, [exec[a] EXCEPT !.pc = pc])
FileOf(a) == exec[a].job[2]
Counts(kind, bound) == count[kind] < bound /\ count' = [count EXCEPT ![kind] = @ + 1]

\* What is left of a delivery at its end; a request is over.
Rest(a, pc) ==
    IF a \in Callers THEN Idle
    ELSE [Idle EXCEPT !.pc = pc, !.job = exec[a].job, !.attached = exec[a].attached]
Ends(a, pc) == Go(a, Rest(a, pc))

\* The row is read; writes from now on make the reader stale.
Reads(a, pc) == Go(a, [exec[a] EXCEPT !.pc = pc, !.fresh = TRUE])

\* updateOnboarding of the repository, the version being the one that was read: the writer goes on
\* at pc, or gets ONBOARDING_STALE.
Write(a, new, rec) ==
    IF exec[a].fresh
    THEN /\ profile' = new
         /\ exec' = [b \in Actors |-> [IF b = a THEN rec ELSE exec[b] EXCEPT !.fresh = FALSE]]
    ELSE Ends(a, "rejected") /\ UNCHANGED profile

Adds(j) == jobs' = IF jobs[j].state = "absent" THEN [jobs EXCEPT ![j].state = "waiting"] ELSE jobs

-----------------------------------------------------------------------------
(* ResumeImportService.upload.                                              *)

Upload(c, f) ==
    /\ At(c, "idle")
    /\ Counts("uploads", MaxUploads)
    /\ Go(c, [Idle EXCEPT !.pc = "claim", !.job = <<"scan", f, count.uploads + 1>>,
                          !.fresh = TRUE])
    /\ UNCHANGED <<profile, files, leases, jobs, evidence>>

ClaimUpload(c) ==
    LET f == FileOf(c) IN
    /\ At(c, "claim")
    /\ IF leases[f] = "nobody"
       THEN leases' = [leases EXCEPT ![f] = c] /\ Moves(c, "look")
       ELSE Ends(c, "idle") /\ UNCHANGED leases                     \* UPLOAD_IN_PROGRESS
    /\ UNCHANGED <<profile, files, jobs, evidence, count>>

\* The file's row is read and the bytes are put.
LookAtFile(c) ==
    LET f == FileOf(c) IN
    /\ At(c, "look") /\ c \in Callers
    /\ IF files[f] = "infected"
       THEN Ends(c, "idle") /\ leases' = [leases EXCEPT ![f] = "nobody"]
       ELSE /\ Go(c, [exec[c] EXCEPT !.pc = "store", !.file = files[f]])
            /\ UNCHANGED leases
    /\ UNCHANGED <<profile, files, jobs, evidence, count>>

StoreFile(c) ==
    LET f == FileOf(c) IN
    /\ At(c, "store")
    /\ files' = IF exec[c].file \in {"absent", "failed"} THEN [files EXCEPT ![f] = "pending"]
                ELSE files
    /\ leases' = [leases EXCEPT ![f] = "nobody"]
    /\ Moves(c, "point")
    /\ UNCHANGED <<profile, jobs, evidence, count>>

PointProfile(c) ==
    /\ At(c, "point")
    /\ Write(c, [status |-> "pending_scan", source |-> FileOf(c),
                 extraction |-> Wrapped(profile, exec[c].job[3])],
             [exec[c] EXCEPT !.pc = "enqueue"])
    /\ UNCHANGED <<files, leases, jobs, evidence, count>>

EnqueueScan(c) ==
    /\ At(c, "enqueue") /\ c \in Callers
    /\ Adds(exec[c].job)
    /\ Ends(c, "idle")
    /\ UNCHANGED <<profile, files, leases, evidence, count>>

-----------------------------------------------------------------------------
(* The candidate looks at the import, changes it, confirms it.              *)

\* A save under the version the browser shows: a stale one changes nothing.
Save(new) ==
    /\ Counts("saves", MaxSaves)
    /\ profile' = new
    /\ exec' = [a \in Actors |-> [exec[a] EXCEPT !.fresh = FALSE]]
    /\ UNCHANGED <<files, leases, jobs, evidence>>

\* updateExtraction.
SaveReview(typed) ==
    /\ profile.status = "ready_for_review"
    /\ Save([profile EXCEPT !.extraction.facts = typed, !.extraction.draft = "none",
                            !.extraction.attempt = 0])

\* update and updateOnboarding of ProfileService.  manual: the careerProfileMode of a typed career.
Drafted(typed, manual) ==
    [profile EXCEPT !.extraction = Merged(@, typed),
                    !.status = IF manual /\ @ # "confirmed" THEN "ready_for_review" ELSE @]

SaveProfile(typed, manual) == Save(Drafted(typed, manual))

\* The last step of the onboarding.
Complete(typed, manual) ==
    LET draft == Drafted(typed, manual) IN
    /\ profile.status = "confirmed" \/ CareerReady(draft.extraction)
    /\ Save([draft EXCEPT !.status = "confirmed"])

\* confirmImport; the version the browser shows is compared if it is sent.
ConfirmReads(c) ==
    /\ At(c, "idle")
    /\ Counts("saves", MaxSaves)
    /\ profile.status = "ready_for_review" /\ profile.source # "none"
    /\ Reads(c, "confirm")
    /\ UNCHANGED <<profile, files, leases, jobs, evidence>>

ConfirmWrites(c) ==
    /\ At(c, "confirm")
    /\ Write(c, [profile EXCEPT
                   !.status = "confirmed",
                   !.extraction = [Blank EXCEPT !.facts = profile.extraction.facts,
                                                !.attempt = profile.extraction.attempt]],
             [exec[c] EXCEPT !.pc = "evidence", !.source = profile.source])
    /\ UNCHANGED <<files, leases, jobs, evidence, count>>

\* createImportEvidence: what is there already is left as it is.
CreateEvidence(c) ==
    /\ At(c, "evidence")
    /\ evidence' = evidence \cup {exec[c].source}
    /\ Ends(c, "idle")
    /\ UNCHANGED <<profile, files, leases, jobs, count>>

\* The web process dies under a request; its lease runs out.
WebCrash(c) ==
    /\ ~At(c, "idle")
    /\ Counts("faults", MaxFaults)
    /\ Ends(c, "idle")
    /\ leases' = [f \in Files |-> IF leases[f] = c THEN "nobody" ELSE leases[f]]
    /\ UNCHANGED <<profile, files, jobs, evidence>>

-----------------------------------------------------------------------------
(* Delivery, and runMalwareScan.                                            *)

Deliver(p, j) ==
    /\ At(p, "idle")
    /\ jobs[j].state = "waiting"
    /\ jobs' = [jobs EXCEPT ![j].state = "active"]
    /\ Go(p, [Idle EXCEPT !.pc = "look", !.job = j, !.attached = TRUE])
    /\ UNCHANGED <<profile, files, leases, evidence, count>>

IsScan(p) == exec[p].job[1] = "scan"

\* A file that is neither pending nor clean is not looked into.
ScanLooks(p) ==
    LET f == FileOf(p) IN
    /\ p \in Procs /\ At(p, "look") /\ IsScan(p)
    /\ CASE files[f] = "pending" -> Moves(p, "scan")
         [] files[f] = "clean" -> Moves(p, "queue")
         [] OTHER -> Ends(p, "resolved")
    /\ UNCHANGED <<profile, files, leases, jobs, evidence, count>>

Scan(p) ==
    LET f == FileOf(p) IN
    /\ At(p, "scan")
    /\ files' = [files EXCEPT ![f] = IF f \in Infected THEN "infected" ELSE "clean"]
    /\ Moves(p, IF f \in Infected THEN "infected" ELSE "queue")
    /\ UNCHANGED <<profile, leases, jobs, evidence, count>>

\* getObject answers null to any error.
ScanMisses(p) ==
    /\ At(p, "scan")
    /\ Counts("faults", MaxFaults)
    /\ files' = [files EXCEPT ![FileOf(p)] = "failed"]
    /\ Ends(p, "resolved")
    /\ UNCHANGED <<profile, leases, jobs, evidence>>

\* findBySourceResumeFile of the infected file.
BlameFile(p) ==
    /\ At(p, "infected")
    /\ IF profile.source = FileOf(p) THEN Reads(p, "restore") ELSE Ends(p, "resolved")
    /\ UNCHANGED <<profile, files, leases, jobs, evidence, count>>

\* A reviewed draft is not rolled back.
FindImport(p) ==
    /\ At(p, "queue")
    /\ IF profile.source = FileOf(p) /\ profile.status \notin Settled
       THEN Go(p, [exec[p] EXCEPT
                     !.pc = IF profile.status = "pending_scan" THEN "mark" ELSE "enqueue",
                     !.fresh = TRUE,
                     !.adds = <<"extract", FileOf(p), profile.extraction.attempt>>])
       ELSE Ends(p, "resolved")
    /\ UNCHANGED <<profile, files, leases, jobs, evidence, count>>

MarkScanned(p) ==
    /\ At(p, "mark")
    /\ Write(p, [profile EXCEPT !.status = "scan_clean"], [exec[p] EXCEPT !.pc = "enqueue"])
    /\ UNCHANGED <<files, leases, jobs, evidence, count>>

EnqueueExtraction(p) ==
    /\ At(p, "enqueue") /\ p \in Procs
    /\ Adds(exec[p].adds)
    /\ Ends(p, "resolved")
    /\ UNCHANGED <<profile, files, leases, evidence, count>>

-----------------------------------------------------------------------------
(* runExtraction.                                                           *)

ExtractionLooks(p) ==
    /\ p \in Procs /\ At(p, "look") /\ ~IsScan(p)
    /\ IF files[FileOf(p)] # "clean" THEN Ends(p, "rejected")        \* SCAN_REQUIRED
       ELSE IF profile.source = FileOf(p) /\ profile.status \notin Settled
       THEN Reads(p, "extracting")
       ELSE Ends(p, "resolved")
    /\ UNCHANGED <<profile, files, leases, jobs, evidence, count>>

MarkExtracting(p) ==
    /\ At(p, "extracting")
    /\ Write(p, [profile EXCEPT !.status = "extracting"], [exec[p] EXCEPT !.pc = "parse"])
    /\ UNCHANGED <<files, leases, jobs, evidence, count>>

\* The object is read and Python parses it; both may fail.
Parse(p) ==
    /\ At(p, "parse")
    /\ \/ Moves(p, "parsed")
       \/ Go(p, [exec[p] EXCEPT !.pc = "failing", !.throws = TRUE])
    /\ UNCHANGED <<profile, files, leases, jobs, evidence, count>>

\* Mutant: the profile is the one that was read, whatever it names now.
IsCurrentProfile(p) == profile.source # "none"

IsCurrent(p) == profile.source = FileOf(p)

\* Mutant: only the file is compared.
FindDraftOfFile(p) ==
    /\ At(p, "parsed")
    /\ IF IsCurrent(p) THEN Reads(p, "save") ELSE Ends(p, "resolved")
    /\ UNCHANGED <<profile, files, leases, jobs, evidence, count>>

\* The row is read again.
FindDraft(p) ==
    /\ At(p, "parsed")
    /\ IF IsCurrent(p) /\ profile.status \notin Settled THEN Reads(p, "save")
       ELSE Ends(p, "resolved")
    /\ UNCHANGED <<profile, files, leases, jobs, evidence, count>>

SaveDraft(p) ==
    LET prior == profile.extraction IN
    /\ At(p, "save")
    /\ Write(p, [profile EXCEPT
                   !.status = "ready_for_review",
                   !.extraction = [Blank EXCEPT !.facts = FileOf(p), !.baseline = prior.baseline,
                                                !.baseSource = prior.baseSource]],
             Rest(p, "resolved"))
    /\ UNCHANGED <<files, leases, jobs, evidence, count>>

FindFailed(p) ==
    /\ At(p, "failing")
    /\ IF ~IsCurrent(p) THEN Ends(p, "rejected")
       ELSE IF profile.status \in Settled THEN Ends(p, "resolved")
       ELSE Reads(p, "restore")
    /\ UNCHANGED <<profile, files, leases, jobs, evidence, count>>

Restore(p) ==
    /\ At(p, "restore")
    /\ Write(p, Restored(profile), Rest(p, IF exec[p].throws THEN "rejected" ELSE "resolved"))
    /\ UNCHANGED <<files, leases, jobs, evidence, count>>

-----------------------------------------------------------------------------
(* The queue's side, and faults.                                            *)

\* Mutant: one delivery too many.
AfterFailureLate(j) ==
    [jobs EXCEPT ![j] = [state |-> IF @.left > 0 THEN "waiting" ELSE "failed", left |-> @.left - 1]]

AfterFailure(j) ==
    [jobs EXCEPT ![j] = [state |-> IF @.left > 1 THEN "waiting" ELSE "failed", left |-> @.left - 1]]
Exhausts(p) == exec[p].attached /\ jobs[exec[p].job].left = 1

Resolve(p) ==
    /\ At(p, "resolved")
    /\ jobs' = IF exec[p].attached THEN [jobs EXCEPT ![exec[p].job].state = "completed"] ELSE jobs
    /\ Go(p, Idle)
    /\ UNCHANGED <<profile, files, leases, evidence, count>>

\* Of the last try the hook runs.
Reject(p) ==
    /\ At(p, "rejected")
    /\ jobs' = IF exec[p].attached THEN AfterFailure(exec[p].job) ELSE jobs
    /\ Go(p, IF Exhausts(p) THEN [Idle EXCEPT !.pc = "hook", !.job = exec[p].job] ELSE Idle)
    /\ UNCHANGED <<profile, files, leases, evidence, count>>

\* markImportFailed.
MarkImportFailed(p) ==
    /\ At(p, "hook")
    /\ IF IsCurrent(p) /\ profile.status \notin Settled THEN Reads(p, "restore")
       ELSE Ends(p, "resolved")
    /\ UNCHANGED <<profile, files, leases, jobs, evidence, count>>

\* The promise runs on; the hook of the last try runs beside it, as q.
JobTimeout(p, q) ==
    /\ exec[p].attached
    /\ Counts("faults", MaxFaults)
    /\ jobs' = AfterFailure(exec[p].job)
    /\ IF Exhausts(p)
       THEN /\ At(q, "idle")
            /\ exec' = [exec EXCEPT ![p].attached = FALSE,
                                    ![q] = [Idle EXCEPT !.pc = "hook", !.job = exec[p].job]]
       ELSE q = p /\ exec' = [exec EXCEPT ![p].attached = FALSE]
    /\ UNCHANGED <<profile, files, leases, evidence>>

WorkerCrash(P) ==
    /\ P # {}
    /\ \A p \in P : ~At(p, "idle")
    /\ Counts("faults", MaxFaults)
    /\ jobs' = [j \in JobIds |->
                  IF \E p \in P : exec[p].attached /\ exec[p].job = j
                  THEN [jobs[j] EXCEPT !.state = "waiting"] ELSE jobs[j]]
    /\ exec' = [a \in Actors |-> IF a \in P THEN Idle ELSE exec[a]]
    /\ UNCHANGED <<profile, files, leases, evidence>>

-----------------------------------------------------------------------------

Request(c) ==
    \/ ClaimUpload(c) \/ LookAtFile(c) \/ StoreFile(c) \/ PointProfile(c) \/ EnqueueScan(c)
    \/ ConfirmWrites(c) \/ CreateEvidence(c)

Candidate ==
    \/ \E typed \in Typed : SaveReview(typed)
    \/ \E typed \in Typed \cup {"contact"}, manual \in BOOLEAN :
          SaveProfile(typed, manual) \/ Complete(typed, manual)

Work(p) ==
    \/ ScanLooks(p) \/ Scan(p) \/ BlameFile(p) \/ FindImport(p) \/ MarkScanned(p)
    \/ EnqueueExtraction(p) \/ ExtractionLooks(p) \/ MarkExtracting(p) \/ Parse(p) \/ FindDraft(p)
    \/ SaveDraft(p) \/ FindFailed(p) \/ Restore(p) \/ Resolve(p) \/ Reject(p)
    \/ MarkImportFailed(p)

Next ==
    \/ Candidate
    \/ \E c \in Callers :
          Request(c) \/ ConfirmReads(c) \/ WebCrash(c) \/ \E f \in Files : Upload(c, f)
    \/ \E p \in Procs : Work(p) \/ ScanMisses(p) \/ \E j \in JobIds : Deliver(p, j)
    \/ \E p, q \in Procs : JobTimeout(p, q)
    \/ \E P \in SUBSET Procs : WorkerCrash(P)

RISpec == Init /\ [][Next]_vars

-----------------------------------------------------------------------------
(* Properties.                                                              *)

\* What the candidate confirmed last.
Confirmed == IF profile.status = "confirmed" THEN profile.extraction.facts
             ELSE profile.extraction.baseline

\* Only another confirmation, or a change of the confirmed profile, replaces what was confirmed.
Kept == Confirmed # "none" /\ Confirmed' # Confirmed =>
            profile'.status = "confirmed" /\ Confirmed' # "none"

Condemned == profile.source \in Infected

\* The comment at import-service.ts:417 "Keep confirmed extraction baseline so a failed
\* replacement cannot wipe career data": whatever becomes of the upload.
CareerIsKept == [][Kept]_vars

\* The same, of uploads that pass the malware scan or are not scanned in the end.
ConfirmedIsKept == [][Condemned \/ Kept]_vars

\* The comment at import-service.ts:1064 "A duplicate job must never overwrite a reviewed or
\* already-confirmed draft": no step of a worker writes over a draft under review or a
\* confirmed one.
WorkersKeepReviews ==
    [][profile.status \in Settled /\ profile' # profile =>
          Condemned \/ \A p \in Procs : exec'[p].pc = exec[p].pc]_vars

\* The comment at import-service.ts:1058 "Superseded by a newer upload", never write late results
\* onto the current import: the text of a file comes in for review while the profile names that
\* file.  (What was there of an earlier file may be shown again while another one is extracted.)
ParsedIsCurrent ==
    [][\A f \in Files :
          /\ profile.status \in InFlight /\ profile'.status = "ready_for_review"
          /\ profile.extraction.facts # f /\ profile'.extraction.facts = f
          => profile.source = f]_vars

=============================================================================
