--------------------------- MODULE ResearchCollection ---------------------------
(***************************************************************************)
(* Company research for an owner's runs: collectDurably of                 *)
(* research/durable-collection.ts over a record of resume_work_records,    *)
(* with the collector of team-collector.ts in each worker process.  The    *)
(* searches are paid for.  A record belongs to a scope (company, role and  *)
(* job, the same here for all runs) and a window of 15 minutes, and its    *)
(* lease lasts 30 seconds, against 20 that a retrieval may take.  The      *)
(* research stage of single-request-pipeline.ts then saves the record's    *)
(* key in the run's operation, and generation reads its sources there.     *)
(*                                                                         *)
(* A delivery starts in any window: clocks are not compared.  Deliveries   *)
(* of one run may overlap, as after a job timeout.  Runs whose company is  *)
(* unknown do not search and are left out.                                 *)
(***************************************************************************)
EXTENDS Naturals, FiniteSets

CONSTANTS
    Deliveries,   \* activities in the research stage
    Runs,         \* runs of one owner about one job
    Procs,        \* worker processes
    Windows,      \* 15-minute windows
    Queries,      \* the searches of a retrieval
    Full,         \* collections with status "available"
    Partial,      \* collections with another status
    MaxLapses,    \* bound: leases that run out under a live holder
    MaxFaults     \* bound: database calls that fail and processes that die

Collections == Full \cup Partial

ASSUME ResearchAssumption ==
    /\ Deliveries \cap {"nobody", "gone"} = {}
    /\ "none" \notin Deliveries \cup Runs \cup Procs \cup Windows
    /\ Full \cap Partial = {}
    /\ Collections \cap {"none", "interrupted"} = {}
    /\ {MaxLapses, MaxFaults} \subseteq Nat

VARIABLES
    records,     \* resume_work_records of kind research, by window
    researchKey, \* of a run's operation record
    searches,    \* requests sent under the usage row of a window and a query
    cache,       \* the collector's cache
    retrieval,   \* the retrieval a process has under way
    exec,        \* the deliveries
    faults       \* how much of each bound is used

vars == <<records, researchKey, searches, cache, retrieval, exec, faults>>

-----------------------------------------------------------------------------

Locked == {"check", "mark", "collect", "join", "store", "release"}
Pcs == Locked \cup {"idle", "put", "claim", "name"}

Idle == [pc |-> "idle", run |-> "none", proc |-> "none", window |-> "none", found |-> "none"]

NoRetrieval == [starter |-> "nobody", searched |-> {}]

RCTypeOK ==
    /\ records \in [Windows -> [attempted : BOOLEAN, collection : Collections \cup {"none"},
                                lease : Deliveries \cup {"nobody", "gone"}, lapsed : BOOLEAN]]
    /\ researchKey \in [Runs -> Windows \cup {"none"}]
    /\ searches \in [Windows -> [Queries -> Nat]]
    /\ cache \in [Procs -> Full \cup {"none"}]
    /\ retrieval \in [Procs -> [starter : Deliveries \cup {"nobody"}, searched : SUBSET Queries]]
    /\ exec \in [Deliveries ->
                   [pc : Pcs, run : Runs \cup {"none"}, proc : Procs \cup {"none"},
                    window : Windows \cup {"none"},
                    found : Collections \cup {"none", "interrupted"}]]
    /\ faults \in [lapses : 0..MaxLapses, others : 0..MaxFaults]

Init ==
    /\ records = [w \in Windows |-> [attempted |-> FALSE, collection |-> "none",
                                     lease |-> "nobody", lapsed |-> FALSE]]
    /\ researchKey = [r \in Runs |-> "none"]
    /\ searches = [w \in Windows |-> [q \in Queries |-> 0]]
    /\ cache = [p \in Procs |-> "none"]
    /\ retrieval = [p \in Procs |-> NoRetrieval]
    /\ exec = [d \in Deliveries |-> Idle]
    /\ faults = [lapses |-> 0, others |-> 0]

At(d, pc) == exec[d].pc = pc

\* The record d works on.
Record(d) == records[exec[d].window]

Goes(d, pc) == exec' = [exec EXCEPT ![d].pc = pc]

\* d knows what collectDurably returns.
Finds(d, found, pc) == exec' = [exec EXCEPT ![d].found = found, ![d].pc = pc]

Ends(d) == exec' = [exec EXCEPT ![d] = Idle]

HoldsToken(d) == Record(d).lease = d

-----------------------------------------------------------------------------
(* collectDurably.                                                          *)

\* The stage body reads the operation: nothing to do when it has its research.
Start(d, r, p, w) ==
    /\ At(d, "idle")
    /\ researchKey[r] = "none"
    /\ exec' = [exec EXCEPT ![d] = [pc |-> "put", run |-> r, proc |-> p, window |-> w,
                                    found |-> "none"]]
    /\ UNCHANGED <<records, researchKey, searches, cache, retrieval, faults>>

\* Mutant: an attempt is taken for an interrupted one before anybody asks for the lease.
PutJudges(d) ==
    /\ At(d, "put")
    /\ IF Record(d).collection # "none" THEN Finds(d, Record(d).collection, "name")
       ELSE IF Record(d).attempted THEN Finds(d, "interrupted", "name")
       ELSE Goes(d, "claim")
    /\ UNCHANGED <<records, researchKey, searches, cache, retrieval, faults>>

\* The record is made unless it is there, and read.
Put(d) ==
    /\ At(d, "put")
    /\ IF Record(d).collection # "none"
       THEN Finds(d, Record(d).collection, "name")
       ELSE Goes(d, "claim")
    /\ UNCHANGED <<records, researchKey, searches, cache, retrieval, faults>>

\* Mutant: a lease is given whoever has it.
ClaimAnyway(d) ==
    /\ At(d, "claim")
    /\ records' = [records EXCEPT ![exec[d].window].lease = d, ![exec[d].window].lapsed = FALSE]
    /\ Goes(d, "check")
    /\ UNCHANGED <<researchKey, searches, cache, retrieval, faults>>

\* A free lease or one whose time has passed; RESEARCH_IN_PROGRESS otherwise.
Claim(d) ==
    /\ At(d, "claim")
    /\ IF Record(d).lease = "nobody" \/ Record(d).lapsed
       THEN /\ records' = [records EXCEPT ![exec[d].window].lease = d,
                                          ![exec[d].window].lapsed = FALSE]
            /\ Goes(d, "check")
       ELSE /\ Ends(d)
            /\ UNCHANGED records
    /\ UNCHANGED <<researchKey, searches, cache, retrieval, faults>>

\* Mutant: no look at the attempt.
CheckCollection(d) ==
    /\ At(d, "check")
    /\ IF Record(d).collection # "none"
       THEN Finds(d, Record(d).collection, "release")
       ELSE Goes(d, "mark")
    /\ UNCHANGED <<records, researchKey, searches, cache, retrieval, faults>>

Check(d) ==
    /\ At(d, "check")
    /\ IF Record(d).collection # "none" THEN Finds(d, Record(d).collection, "release")
       ELSE IF Record(d).attempted THEN Finds(d, "interrupted", "release")
       ELSE Goes(d, "mark")
    /\ UNCHANGED <<records, researchKey, searches, cache, retrieval, faults>>

\* A patch names the token: it writes nothing once the lease is another's, and nobody asks.  That
\* the time has passed is no hindrance.
Mark(d) ==
    /\ At(d, "mark")
    /\ records' = IF HoldsToken(d) THEN [records EXCEPT ![exec[d].window].attempted = TRUE] ELSE records
    /\ Goes(d, "collect")
    /\ UNCHANGED <<researchKey, searches, cache, retrieval, faults>>

\* TeamResearchCollector.collect: its cache, the retrieval under way, or one of its own.
Collect(d) ==
    LET p == exec[d].proc IN
    /\ At(d, "collect")
    /\ IF cache[p] # "none"
       THEN /\ Finds(d, cache[p], "store")
            /\ UNCHANGED retrieval
       ELSE /\ Goes(d, "join")
            /\ retrieval' = IF retrieval[p].starter = "nobody"
                            THEN [retrieval EXCEPT ![p].starter = d] ELSE retrieval
    /\ UNCHANGED <<records, researchKey, searches, cache, faults>>

\* Mutant: what another process has stored by now is replaced.
StoreBlindly(d) ==
    /\ At(d, "store")
    /\ records' = [records EXCEPT ![exec[d].window].collection = exec[d].found]
    /\ Goes(d, "release")
    /\ UNCHANGED <<researchKey, searches, cache, retrieval, faults>>

Store(d) ==
    /\ At(d, "store")
    /\ records' = IF HoldsToken(d)
                  THEN [records EXCEPT ![exec[d].window].collection = exec[d].found] ELSE records
    /\ Goes(d, "release")
    /\ UNCHANGED <<researchKey, searches, cache, retrieval, faults>>

\* The finally block; found is "none" when the body threw.
Release(d) ==
    /\ At(d, "release")
    /\ records' = IF HoldsToken(d)
                  THEN [records EXCEPT ![exec[d].window].lease = "nobody",
                                       ![exec[d].window].lapsed = FALSE]
                  ELSE records
    /\ IF exec[d].found = "none" THEN Ends(d) ELSE Goes(d, "name")
    /\ UNCHANGED <<researchKey, searches, cache, retrieval, faults>>

\* The stage saves the key.  Its put of the collection finds the record there and does nothing.
Name(d) ==
    /\ At(d, "name")
    /\ researchKey' = [researchKey EXCEPT ![exec[d].run] = exec[d].window]
    /\ Ends(d)
    /\ UNCHANGED <<records, searches, cache, retrieval, faults>>

-----------------------------------------------------------------------------
(* A retrieval: its searches go out independently, each after its usage row *)
(* is there, under the key of the delivery that started it.  A search that  *)
(* fails, or is not out after 20 seconds, makes the collection partial.     *)

Search(p, q) ==
    LET w == exec[retrieval[p].starter].window IN
    /\ retrieval[p].starter # "nobody"
    /\ q \notin retrieval[p].searched
    /\ retrieval' = [retrieval EXCEPT ![p].searched = @ \cup {q}]
    /\ searches' = [searches EXCEPT ![w] = [@ EXCEPT ![q] = searches[w][q] + 1]]
    /\ UNCHANGED <<records, researchKey, cache, exec, faults>>

\* Mutant: whatever was retrieved stays in the cache.
RetrievedForAll(p, c) ==
    /\ retrieval[p].starter # "nobody"
    /\ c \in Full => retrieval[p].searched = Queries
    /\ exec' = [d \in Deliveries |->
                  IF exec[d].pc = "join" /\ exec[d].proc = p
                  THEN [exec[d] EXCEPT !.found = c, !.pc = "store"] ELSE exec[d]]
    /\ retrieval' = [retrieval EXCEPT ![p] = NoRetrieval]
    /\ cache' = [cache EXCEPT ![p] = c]
    /\ UNCHANGED <<records, researchKey, searches, faults>>

\* Everybody who waits gets the collection; a full one stays in the cache.
Retrieved(p, c) ==
    /\ retrieval[p].starter # "nobody"
    /\ c \in Full => retrieval[p].searched = Queries
    /\ exec' = [d \in Deliveries |->
                  IF exec[d].pc = "join" /\ exec[d].proc = p
                  THEN [exec[d] EXCEPT !.found = c, !.pc = "store"] ELSE exec[d]]
    /\ retrieval' = [retrieval EXCEPT ![p] = NoRetrieval]
    /\ cache' = IF c \in Full THEN [cache EXCEPT ![p] = c] ELSE cache
    /\ UNCHANGED <<records, researchKey, searches, faults>>

\* After 15 minutes, or when a hundred others came in.
CacheForgets(p) ==
    /\ cache[p] # "none"
    /\ cache' = [cache EXCEPT ![p] = "none"]
    /\ UNCHANGED <<records, researchKey, searches, retrieval, exec, faults>>

-----------------------------------------------------------------------------
(* Faults.                                                                  *)

\* A lease whose holder has ended runs out in time.
LeaseRunsOut(w) ==
    /\ records[w].lease # "nobody" /\ ~records[w].lapsed
    /\ IF records[w].lease = "gone"
       THEN UNCHANGED faults
       ELSE /\ faults.lapses < MaxLapses
            /\ faults' = [faults EXCEPT !.lapses = @ + 1]
    /\ records' = [records EXCEPT ![w].lapsed = TRUE]
    /\ UNCHANGED <<researchKey, searches, cache, retrieval, exec>>

\* What the deliveries ds leave behind when they end without a release.
Abandoned(ds) ==
    [w \in Windows |-> IF records[w].lease \in ds THEN [records[w] EXCEPT !.lease = "gone"]
                       ELSE records[w]]

\* A database call of a delivery throws.
CallFails(d) ==
    /\ exec[d].pc \notin {"idle", "collect", "join"}
    /\ faults.others < MaxFaults
    /\ faults' = [faults EXCEPT !.others = @ + 1]
    /\ IF exec[d].pc \in {"check", "mark", "store"}
       THEN /\ Finds(d, "none", "release")
            /\ UNCHANGED records
       ELSE /\ Ends(d)
            /\ records' = Abandoned({d})
    /\ UNCHANGED <<researchKey, searches, cache, retrieval>>

\* A process dies and another takes its place.
Crash(p) ==
    LET lost == {d \in Deliveries : exec[d].proc = p} IN
    /\ lost # {}
    /\ faults.others < MaxFaults
    /\ faults' = [faults EXCEPT !.others = @ + 1]
    /\ exec' = [d \in Deliveries |-> IF d \in lost THEN Idle ELSE exec[d]]
    /\ records' = Abandoned(lost)
    /\ retrieval' = [retrieval EXCEPT ![p] = NoRetrieval]
    /\ cache' = [cache EXCEPT ![p] = "none"]
    /\ UNCHANGED <<researchKey, searches>>

-----------------------------------------------------------------------------

DeliveryStep(d) ==
    \/ Put(d) \/ Claim(d) \/ Check(d) \/ Mark(d) \/ Collect(d) \/ Store(d) \/ Release(d) \/ Name(d)

Next ==
    \/ \E d \in Deliveries :
          \/ \E r \in Runs, p \in Procs, w \in Windows : Start(d, r, p, w)
          \/ DeliveryStep(d)
          \/ CallFails(d)
    \/ \E p \in Procs :
          \/ \E q \in Queries : Search(p, q)
          \/ \E c \in Collections : Retrieved(p, c)
          \/ CacheForgets(p)
          \/ Crash(p)
    \/ \E w \in Windows : LeaseRunsOut(w)

Spec == Init /\ [][Next]_vars

-----------------------------------------------------------------------------
(* Properties.                                                              *)

LeasesLast == faults.lapses = 0

\* A stored collection is never replaced, even by a delivery whose lease ran out while it was
\* collecting: its patch names a token that is no longer there.
CollectionIsFinal ==
    [][\A w \in Windows :
          records[w].collection # "none" => records'[w].collection = records[w].collection]_vars

\* While leases last, a search is sent once for its usage row, whichever deliveries, runs and
\* processes ask for it and whatever dies: "no repeated paid search was sent".
OneSearch ==
    LeasesLast => \A w \in Windows, q \in Queries : searches[w][q] <= 1

\* While leases last, the collection a delivery goes on with, which the application's row will
\* show, is the one that generation will read.
FoundIsStored ==
    LeasesLast =>
        \A d \in Deliveries :
            At(d, "name") /\ exec[d].found \in Collections => Record(d).collection = exec[d].found

\* While leases last, what a run's operation names is settled: no later generation reads other
\* sources there, not even when an earlier attempt was taken for an interrupted one.
NamedIsSettled ==
    [][\A r \in Runs :
          LeasesLast' /\ researchKey[r] # "none"
              => records'[researchKey[r]].collection = records[researchKey[r]].collection]_vars
=============================================================================
