------------------------ MODULE ResearchCollectionProofs ------------------------
(***************************************************************************)
(* ResearchCollection for any number of deliveries, runs, processes,       *)
(* windows, searches and faults: its type, that a stored collection is     *)
(* final and, while leases last, that a search is sent once, that what a   *)
(* delivery found is what is stored and that what a run names is settled.  *)
(***************************************************************************)
EXTENDS ResearchCollection, TLAPS

RecordType ==
    [attempted : BOOLEAN, collection : Collections \cup {"none"},
     lease : Deliveries \cup {"nobody", "gone"}, lapsed : BOOLEAN]

DeliveryType ==
    [pc : Pcs, run : Runs \cup {"none"}, proc : Procs \cup {"none"},
     window : Windows \cup {"none"}, found : Collections \cup {"none", "interrupted"}]

RetrievalType == [starter : Deliveries \cup {"nobody"}, searched : SUBSET Queries]

\* Between finding nothing and storing.
Collecting == {"mark", "collect", "join", "store"}

\* What a delivery e carries, by where it is.
Placed(e) ==
    /\ e \in DeliveryType
    /\ e.pc # "idle" => e.run \in Runs /\ e.proc \in Procs /\ e.window \in Windows
    /\ e.pc \in {"put", "claim", "check", "mark", "collect", "join"} => e.found = "none"
    /\ e.pc = "store" => e.found \in Collections
    /\ e.pc = "name" => e.found # "none"

\* A token is that of a delivery between its claim and its release.
TokensAreHeld(req, recs) ==
    \A w \in Windows, d \in Deliveries :
        recs[w].lease = d => req[d].pc \in Locked /\ req[d].window = w

\* The holder of the token is alone in writing: the collection it did not find is still not there.
HoldersAreAlone(req, recs) ==
    \A d \in Deliveries :
        req[d].pc \in Collecting /\ recs[req[d].window].lease = d
            => recs[req[d].window].collection = "none"

\* Who started a retrieval waits for it.
StartersWait(req, rets) ==
    \A p \in Procs : rets[p].starter # "nobody" =>
        req[rets[p].starter].pc = "join" /\ req[rets[p].starter].proc = p

StateInv ==
    /\ RCTypeOK
    /\ \A d \in Deliveries : Placed(exec[d])
    /\ TokensAreHeld(exec, records)
    /\ HoldersAreAlone(exec, records)
    /\ StartersWait(exec, retrieval)

-----------------------------------------------------------------------------
(* The type and the tokens.                                                 *)

LEMMA Typed ==
    ASSUME StateInv
    PROVE  /\ records \in [Windows -> RecordType]
           /\ exec \in [Deliveries -> DeliveryType]
           /\ retrieval \in [Procs -> RetrievalType]
           /\ searches \in [Windows -> [Queries -> Nat]]
           /\ researchKey \in [Runs -> Windows \cup {"none"}]
           /\ cache \in [Procs -> Full \cup {"none"}]
           /\ faults \in [lapses : 0..MaxLapses, others : 0..MaxFaults]
BY DEF StateInv, RCTypeOK, RecordType, DeliveryType, RetrievalType

LEMMA TypedAgain ==
    ASSUME records' \in [Windows -> RecordType], exec' \in [Deliveries -> DeliveryType],
           retrieval' \in [Procs -> RetrievalType], searches' \in [Windows -> [Queries -> Nat]],
           researchKey' \in [Runs -> Windows \cup {"none"}], cache' \in [Procs -> Full \cup {"none"}],
           faults' \in [lapses : 0..MaxLapses, others : 0..MaxFaults]
    PROVE  RCTypeOK'
BY DEF RCTypeOK, RecordType, DeliveryType, RetrievalType

\* Delivery d becomes e; it keeps its token or lets go of it, or takes one.
LEMMA DeliveryKeepsState ==
    ASSUME StateInv, NEW d \in Deliveries, NEW e, Placed(e),
           exec' = [exec EXCEPT ![d] = e],
           records' \in [Windows -> RecordType], retrieval' \in [Procs -> RetrievalType],
           researchKey' \in [Runs -> Windows \cup {"none"}],
           faults' \in [lapses : 0..MaxLapses, others : 0..MaxFaults],
           UNCHANGED <<searches, cache>>,
           \A w \in Windows, x \in Deliveries : records'[w].lease = x =>
               IF x = d THEN e.pc \in Locked /\ e.window = w ELSE records[w].lease = x,
           \A w \in Windows : records'[w].lease \in Deliveries \ {d} =>
               records'[w].collection = records[w].collection,
           e.pc \in Collecting /\ records'[e.window].lease = d
               => records'[e.window].collection = "none",
           exec[d].pc # "join",
           \A p \in Procs : \/ retrieval'[p] = retrieval[p]
                            \/ retrieval'[p].starter = d /\ e.pc = "join" /\ e.proc = p
    PROVE  StateInv'
<1>1. exec'[d] = e /\ \A x \in Deliveries \ {d} : exec'[x] = exec[x]
  BY Typed
<1>2. RCTypeOK'
  BY Typed, TypedAgain DEF Placed
<1>3. \A x \in Deliveries : Placed(exec'[x])
  BY <1>1 DEF StateInv
<1>4. TokensAreHeld(exec', records')
  BY <1>1 DEF TokensAreHeld, StateInv
<1>5. HoldersAreAlone(exec', records')
  <2> SUFFICES ASSUME NEW x \in Deliveries, exec'[x].pc \in Collecting,
                      records'[exec'[x].window].lease = x
               PROVE  records'[exec'[x].window].collection = "none"
    BY DEF HoldersAreAlone
  <2>1. CASE x = d
    BY <1>1, <2>1
  <2>2. CASE x # d
    <3>1. exec'[x] = exec[x] /\ exec[x].window \in Windows
      BY <1>1, <2>2 DEF StateInv, Placed, Collecting
    <3>2. QED
      BY <2>2, <3>1 DEF StateInv, HoldersAreAlone
  <2>3. QED
    BY <2>1, <2>2
<1>6. StartersWait(exec', retrieval')
  <2>1. \A p \in Procs : retrieval[p].starter # d
    BY ResearchAssumption DEF StateInv, StartersWait
  <2>2. \A p \in Procs : retrieval[p].starter \in Deliveries \cup {"nobody"}
    BY Typed DEF RetrievalType
  <2>3. ASSUME NEW p \in Procs, retrieval'[p].starter # "nobody"
        PROVE  exec'[retrieval'[p].starter].pc = "join" /\ exec'[retrieval'[p].starter].proc = p
    BY <1>1, <2>1, <2>2, <2>3 DEF StateInv, StartersWait
  <2>4. QED
    BY <2>3 DEF StartersWait
<1>7. QED
  BY <1>2, <1>3, <1>4, <1>5, <1>6 DEF StateInv

\* Steps of d that leave the record, or only the lease's own fields, to what they were.
LEMMA MoveKeepsState ==
    ASSUME StateInv, NEW d \in Deliveries, NEW e, Placed(e),
           exec' = [exec EXCEPT ![d] = e], exec[d].pc # "join", e.pc # "idle",
           e.window = exec[d].window, exec[d].pc # "idle",
           e.pc \in Collecting => exec[d].pc \in Collecting \/ records[e.window].collection = "none",
           e.pc \in Locked \/ records[exec[d].window].lease # d,
           UNCHANGED <<records, researchKey, searches, cache, retrieval, faults>>
    PROVE  StateInv'
<1>1. \A w \in Windows, x \in Deliveries : records'[w].lease = x =>
         IF x = d THEN e.pc \in Locked /\ e.window = w ELSE records[w].lease = x
  BY DEF StateInv, TokensAreHeld
<1>2. e.pc \in Collecting /\ records'[e.window].lease = d => records'[e.window].collection = "none"
  BY DEF StateInv, HoldersAreAlone
<1>3. QED
  BY <1>1, <1>2, Typed, DeliveryKeepsState

\* A change of a record's lease and nothing else.
LEMMA LeasedRecords ==
    ASSUME StateInv, NEW v \in Windows, NEW l \in Deliveries \cup {"nobody", "gone"}, NEW b \in BOOLEAN,
           records' = [records EXCEPT ![v] = [records[v] EXCEPT !.lease = l, !.lapsed = b]]
    PROVE  /\ records' \in [Windows -> RecordType]
           /\ \A w \in Windows :
                 /\ records'[w].lease = IF w = v THEN l ELSE records[w].lease
                 /\ records'[w].lapsed = IF w = v THEN b ELSE records[w].lapsed
                 /\ records'[w].attempted = records[w].attempted
                 /\ records'[w].collection = records[w].collection
BY Typed DEF RecordType

\* What a claim that is granted does to the records.
LEMMA ClaimedRecords ==
    ASSUME StateInv, NEW d \in Deliveries, Claim(d), Record(d).lease = "nobody" \/ Record(d).lapsed
    PROVE  /\ records' \in [Windows -> RecordType]
           /\ \A w \in Windows :
                 /\ records'[w].lease = IF w = exec[d].window THEN d ELSE records[w].lease
                 /\ records'[w].lapsed = IF w = exec[d].window THEN FALSE ELSE records[w].lapsed
                 /\ records'[w].attempted = records[w].attempted
                 /\ records'[w].collection = records[w].collection
<1> DEFINE v == exec[d].window
<1>1. v \in Windows /\ records[v] \in RecordType
  BY Typed DEF Claim, At, StateInv, Placed
<1>2. records' = [records EXCEPT ![v].lease = d, ![v].lapsed = FALSE]
  BY DEF Claim
<1>3. records' = [records EXCEPT ![v] = [records[v] EXCEPT !.lease = d, !.lapsed = FALSE]]
  BY <1>1, <1>2, Typed DEF RecordType
<1> HIDE DEF v
<1>4. /\ records' \in [Windows -> RecordType]
      /\ \A w \in Windows :
            /\ records'[w].lease = IF w = v THEN d ELSE records[w].lease
            /\ records'[w].lapsed = IF w = v THEN FALSE ELSE records[w].lapsed
            /\ records'[w].attempted = records[w].attempted
            /\ records'[w].collection = records[w].collection
  BY <1>1, <1>3, LeasedRecords
<1>5. QED
  BY <1>4 DEF v

\* What Mark does to the records.
LEMMA MarkedRecords ==
    ASSUME StateInv, NEW d \in Deliveries, Mark(d)
    PROVE  /\ records' \in [Windows -> RecordType]
           /\ \A w \in Windows :
                 /\ records'[w].lease = records[w].lease
                 /\ records'[w].lapsed = records[w].lapsed
                 /\ records'[w].attempted =
                       IF w = exec[d].window /\ HoldsToken(d) THEN TRUE ELSE records[w].attempted
                 /\ records'[w].collection = records[w].collection
<1>1. exec[d].window \in Windows /\ records[exec[d].window] \in RecordType
  BY Typed DEF Mark, At, StateInv, Placed
<1>2. CASE HoldsToken(d)
  <2> DEFINE v == exec[d].window
             t == [records[v] EXCEPT !.attempted = TRUE]
  <2>1. /\ t \in RecordType
        /\ t.lease = records[v].lease
        /\ t.lapsed = records[v].lapsed
        /\ t.attempted
        /\ t.collection = records[v].collection
    BY <1>1 DEF RecordType
  <2>2. records' = [records EXCEPT ![v] = t]
    BY <1>1, <1>2, Typed DEF Mark
  <2>3. v \in Windows
    BY <1>1
  <2> HIDE DEF t, v
  <2>4. /\ records' \in [Windows -> RecordType]
        /\ records'[v] = t
        /\ \A w \in Windows \ {v} : records'[w] = records[w]
    BY <2>1, <2>2, <2>3, Typed
  <2>5. QED
    BY <1>2, <2>1, <2>4 DEF v, HoldsToken, Record
<1>3. CASE ~HoldsToken(d)
  BY <1>3, Typed DEF Mark
<1>4. QED
  BY <1>2, <1>3

\* What Store does to the records.
LEMMA StoredRecords ==
    ASSUME StateInv, NEW d \in Deliveries, Store(d)
    PROVE  /\ records' \in [Windows -> RecordType]
           /\ \A w \in Windows :
                 /\ records'[w].lease = records[w].lease
                 /\ records'[w].lapsed = records[w].lapsed
                 /\ records'[w].attempted = records[w].attempted
                 /\ records'[w].collection =
                       IF w = exec[d].window /\ HoldsToken(d) THEN exec[d].found
                       ELSE records[w].collection
<1>1. /\ exec[d].window \in Windows /\ records[exec[d].window] \in RecordType
      /\ exec[d].found \in Collections
  BY Typed DEF Store, At, StateInv, Placed
<1>2. CASE HoldsToken(d)
  <2> DEFINE v == exec[d].window
             t == [records[v] EXCEPT !.collection = exec[d].found]
  <2>1. /\ t \in RecordType
        /\ t.lease = records[v].lease
        /\ t.lapsed = records[v].lapsed
        /\ t.attempted = records[v].attempted
        /\ t.collection = exec[d].found
    BY <1>1 DEF RecordType
  <2>2. records' = [records EXCEPT ![v] = t]
    BY <1>1, <1>2, Typed DEF Store
  <2>3. v \in Windows
    BY <1>1
  <2> HIDE DEF t, v
  <2>4. /\ records' \in [Windows -> RecordType]
        /\ records'[v] = t
        /\ \A w \in Windows \ {v} : records'[w] = records[w]
    BY <2>1, <2>2, <2>3, Typed
  <2>5. QED
    BY <1>2, <2>1, <2>4 DEF v, HoldsToken, Record
<1>3. CASE ~HoldsToken(d)
  BY <1>3, Typed DEF Store
<1>4. QED
  BY <1>2, <1>3

\* What Release does to the records.
LEMMA ReleasedRecords ==
    ASSUME StateInv, NEW d \in Deliveries, Release(d)
    PROVE  /\ records' \in [Windows -> RecordType]
           /\ \A w \in Windows :
                 /\ records'[w].lease = IF records[w].lease = d THEN "nobody" ELSE records[w].lease
                 /\ records[w].lease # d => records'[w].lapsed = records[w].lapsed
                 /\ records'[w].attempted = records[w].attempted
                 /\ records'[w].collection = records[w].collection
<1> DEFINE v == exec[d].window
<1>1. v \in Windows /\ records[v] \in RecordType
  BY Typed DEF Release, At, StateInv, Placed
<1>2. \A w \in Windows : records[w].lease = d => w = v
  BY DEF StateInv, TokensAreHeld
<1>3. CASE HoldsToken(d)
  <2>1. records' = [records EXCEPT ![v].lease = "nobody", ![v].lapsed = FALSE]
    BY <1>3 DEF Release
  <2>2. records' = [records EXCEPT ![v] = [records[v] EXCEPT !.lease = "nobody", !.lapsed = FALSE]]
    BY <1>1, <2>1, Typed DEF RecordType
  <2>3. records[v].lease = d
    BY <1>3 DEF HoldsToken, Record
  <2> HIDE DEF v
  <2>4. /\ records' \in [Windows -> RecordType]
        /\ \A w \in Windows :
              /\ records'[w].lease = IF w = v THEN "nobody" ELSE records[w].lease
              /\ records'[w].lapsed = IF w = v THEN FALSE ELSE records[w].lapsed
              /\ records'[w].attempted = records[w].attempted
              /\ records'[w].collection = records[w].collection
    BY <1>1, <2>2, LeasedRecords
  <2>5. QED
    BY <1>2, <2>3, <2>4
<1>4. CASE ~HoldsToken(d)
  <2>1. records' = records /\ \A w \in Windows : records[w].lease # d
    BY <1>2, <1>4 DEF Release, HoldsToken, Record
  <2>2. QED
    BY <2>1, Typed
<1>5. QED
  BY <1>3, <1>4

\* d ends without a token.
LEMMA EndKeepsState ==
    ASSUME StateInv, NEW d \in Deliveries, Ends(d), exec[d].pc # "join",
           \A w \in Windows : records[w].lease # d,
           UNCHANGED <<records, searches, cache, retrieval>>,
           researchKey' \in [Runs -> Windows \cup {"none"}],
           faults' \in [lapses : 0..MaxLapses, others : 0..MaxFaults]
    PROVE  StateInv'
<1>1. Placed(Idle) /\ ~(Idle.pc \in Collecting)
  BY DEF Placed, Idle, DeliveryType, Pcs, Collecting
<1>2. \A w \in Windows, x \in Deliveries : records'[w].lease = x =>
         IF x = d THEN Idle.pc \in Locked /\ Idle.window = w ELSE records[w].lease = x
  OBVIOUS
<1>3. QED
  BY <1>1, <1>2, Typed, DeliveryKeepsState DEF Ends

\* Steps of d that write its record.
LEMMA WriteKeepsState ==
    ASSUME StateInv, NEW d \in Deliveries, NEW e, Placed(e),
           exec' = [exec EXCEPT ![d] = e], exec[d].pc # "join",
           records' \in [Windows -> RecordType],
           UNCHANGED <<researchKey, searches, cache, retrieval, faults>>,
           \A w \in Windows, x \in Deliveries : records'[w].lease = x =>
               IF x = d THEN e.pc \in Locked /\ e.window = w ELSE records[w].lease = x,
           \A w \in Windows : records'[w].lease \in Deliveries \ {d} =>
               records'[w].collection = records[w].collection,
           e.pc \in Collecting /\ records'[e.window].lease = d
               => records'[e.window].collection = "none"
    PROVE  StateInv'
<1>1. /\ retrieval' \in [Procs -> RetrievalType]
      /\ researchKey' \in [Runs -> Windows \cup {"none"}]
      /\ faults' \in [lapses : 0..MaxLapses, others : 0..MaxFaults]
      /\ UNCHANGED <<searches, cache>>
      /\ \A p \in Procs : retrieval'[p] = retrieval[p]
  BY Typed
<1>2. QED
  BY <1>1, DeliveryKeepsState

LEMMA StartKeepsState ==
    ASSUME StateInv, NEW d \in Deliveries, NEW r \in Runs, NEW p \in Procs, NEW w \in Windows,
           Start(d, r, p, w)
    PROVE  StateInv'
<1> DEFINE e == [pc |-> "put", run |-> r, proc |-> p, window |-> w, found |-> "none"]
<1>1. Placed(e) /\ e.pc = "put" /\ e.window = w
  BY DEF Placed, DeliveryType, Pcs
<1>2. \A v \in Windows : records[v].lease # d
  BY DEF Start, At, StateInv, TokensAreHeld, Locked
<1>3. exec' = [exec EXCEPT ![d] = e] /\ exec[d].pc # "join"
  BY DEF Start, At
<1>4. UNCHANGED <<records, researchKey, searches, cache, retrieval, faults>>
  BY DEF Start
<1> HIDE DEF e
<1>5. \A v \in Windows, x \in Deliveries : records'[v].lease = x =>
         IF x = d THEN e.pc \in Locked /\ e.window = v ELSE records[v].lease = x
  BY <1>2, <1>4
<1>6. ~(e.pc \in Collecting)
  BY <1>1 DEF Collecting
<1>7. QED
  BY <1>1, <1>3, <1>4, <1>5, <1>6, Typed, DeliveryKeepsState

LEMMA PutKeepsState ==
    ASSUME StateInv, NEW d \in Deliveries, Put(d)
    PROVE  StateInv'
<1>1. /\ Placed(exec[d]) /\ exec[d].pc = "put" /\ exec[d].window \in Windows
      /\ Record(d) \in RecordType /\ Record(d).lease # d
  BY Typed DEF Put, At, StateInv, Placed, TokensAreHeld, Locked, Record
<1>2. CASE Record(d).collection # "none"
  <2> DEFINE e == [exec[d] EXCEPT !.found = Record(d).collection, !.pc = "name"]
  <2>1. Placed(e) /\ e.pc = "name" /\ e.window = exec[d].window
    BY <1>1, <1>2 DEF Placed, DeliveryType, Pcs, RecordType
  <2>2. exec' = [exec EXCEPT ![d] = e]
    BY <1>1, <1>2, Typed DEF Put, Finds, DeliveryType
  <2> HIDE DEF e
  <2>3. QED
    BY <1>1, <2>1, <2>2, MoveKeepsState DEF Put, Collecting, Record
<1>3. CASE Record(d).collection = "none"
  <2> DEFINE e == [exec[d] EXCEPT !.pc = "claim"]
  <2>1. Placed(e) /\ e.pc = "claim" /\ e.window = exec[d].window
    BY <1>1 DEF Placed, DeliveryType, Pcs
  <2>2. exec' = [exec EXCEPT ![d] = e]
    BY <1>1, <1>3, Typed DEF Put, Goes, DeliveryType
  <2> HIDE DEF e
  <2>3. QED
    BY <1>1, <2>1, <2>2, MoveKeepsState DEF Put, Collecting, Record
<1>4. QED
  BY <1>2, <1>3

LEMMA ClaimKeepsState ==
    ASSUME StateInv, NEW d \in Deliveries, Claim(d)
    PROVE  StateInv'
<1> DEFINE v == exec[d].window
<1>1. /\ Placed(exec[d]) /\ exec[d].pc = "claim" /\ v \in Windows
      /\ \A w \in Windows : records[w].lease # d
  BY DEF Claim, At, StateInv, Placed, TokensAreHeld, Locked
<1>2. CASE Record(d).lease = "nobody" \/ Record(d).lapsed
  <2> DEFINE e == [exec[d] EXCEPT !.pc = "check"]
  <2>1. Placed(e) /\ e.pc = "check" /\ e.window = v
    BY <1>1 DEF Placed, DeliveryType, Pcs, Locked
  <2>2. exec' = [exec EXCEPT ![d] = e]
    BY <1>2 DEF Claim, Goes
  <2>3. /\ records' = [records EXCEPT ![v].lease = d, ![v].lapsed = FALSE]
        /\ UNCHANGED <<researchKey, searches, cache, retrieval, faults>>
    BY <1>2 DEF Claim
  <2> HIDE DEF e
  <2>4. /\ records' \in [Windows -> RecordType]
        /\ \A w \in Windows : records'[w].lease = IF w = v THEN d ELSE records[w].lease
        /\ \A w \in Windows : records'[w].collection = records[w].collection
    BY <1>2, ClaimedRecords
  <2>5. \A w \in Windows, x \in Deliveries : records'[w].lease = x =>
           IF x = d THEN e.pc \in Locked /\ e.window = w ELSE records[w].lease = x
    BY <1>1, <2>1, <2>4 DEF Locked
  <2>6. ~(e.pc \in Collecting)
    BY <2>1 DEF Collecting
  <2>7. QED
    BY <1>1, <2>1, <2>2, <2>3, <2>4, <2>5, <2>6, WriteKeepsState
<1>3. CASE ~(Record(d).lease = "nobody" \/ Record(d).lapsed)
  <2>1. Ends(d) /\ UNCHANGED <<records, researchKey, searches, cache, retrieval, faults>>
    BY <1>3 DEF Claim
  <2>2. QED
    BY <1>1, <2>1, Typed, EndKeepsState
<1>4. QED
  BY <1>2, <1>3

LEMMA CheckKeepsState ==
    ASSUME StateInv, NEW d \in Deliveries, Check(d)
    PROVE  StateInv'
<1>1. /\ Placed(exec[d]) /\ exec[d].pc = "check" /\ exec[d].window \in Windows
      /\ Record(d) \in RecordType
      /\ UNCHANGED <<records, researchKey, searches, cache, retrieval, faults>>
  BY Typed DEF Check, At, StateInv, Placed, Record
<1>2. ASSUME NEW f \in Collections \cup {"interrupted"}, Finds(d, f, "release")
      PROVE  StateInv'
  <2> DEFINE e == [exec[d] EXCEPT !.found = f, !.pc = "release"]
  <2>1. Placed(e) /\ e.pc = "release" /\ e.window = exec[d].window
    BY <1>1 DEF Placed, DeliveryType, Pcs, Locked
  <2>2. exec' = [exec EXCEPT ![d] = e]
    BY <1>1, <1>2, Typed DEF Finds, DeliveryType
  <2> HIDE DEF e
  <2>3. QED
    BY <1>1, <2>1, <2>2, MoveKeepsState DEF Collecting, Locked
<1>3. ASSUME Goes(d, "mark"), Record(d).collection = "none"
      PROVE  StateInv'
  <2> DEFINE e == [exec[d] EXCEPT !.pc = "mark"]
  <2>1. Placed(e) /\ e.pc = "mark" /\ e.window = exec[d].window
    BY <1>1 DEF Placed, DeliveryType, Pcs, Locked
  <2>2. exec' = [exec EXCEPT ![d] = e]
    BY <1>3 DEF Goes
  <2> HIDE DEF e
  <2>3. QED
    BY <1>1, <1>3, <2>1, <2>2, MoveKeepsState DEF Collecting, Locked, Record
<1>4. QED
  BY <1>1, <1>2, <1>3 DEF Check, RecordType

LEMMA MarkKeepsState ==
    ASSUME StateInv, NEW d \in Deliveries, Mark(d)
    PROVE  StateInv'
<1> DEFINE v == exec[d].window
           e == [exec[d] EXCEPT !.pc = "collect"]
<1>1. Placed(exec[d]) /\ exec[d].pc = "mark" /\ v \in Windows
  BY DEF Mark, At, StateInv, Placed
<1>2. Placed(e) /\ e.pc = "collect" /\ e.window = v
  BY <1>1 DEF Placed, DeliveryType, Pcs, Locked
<1>3. exec' = [exec EXCEPT ![d] = e] /\ UNCHANGED <<researchKey, searches, cache, retrieval, faults>>
  BY DEF Mark, Goes
<1>4. /\ records' \in [Windows -> RecordType]
      /\ \A w \in Windows : records'[w].lease = records[w].lease
      /\ \A w \in Windows : records'[w].collection = records[w].collection
  BY MarkedRecords
<1>5. e.pc \in Collecting /\ records'[e.window].lease = d => records'[e.window].collection = "none"
  BY <1>1, <1>2, <1>4 DEF StateInv, HoldersAreAlone, Collecting
<1>6. \A w \in Windows, x \in Deliveries : records'[w].lease = x =>
         IF x = d THEN e.pc \in Locked /\ e.window = w ELSE records[w].lease = x
  BY <1>2, <1>4 DEF StateInv, TokensAreHeld, Locked
<1>7. exec[d].pc # "join"
  BY <1>1
<1> HIDE DEF e, v
<1>8. QED
  BY <1>2, <1>3, <1>4, <1>5, <1>6, <1>7, WriteKeepsState

LEMMA CollectKeepsState ==
    ASSUME StateInv, NEW d \in Deliveries, Collect(d)
    PROVE  StateInv'
<1> DEFINE p == exec[d].proc
<1>1. /\ Placed(exec[d]) /\ exec[d].pc = "collect" /\ exec[d].window \in Windows /\ p \in Procs
      /\ UNCHANGED <<records, researchKey, searches, cache, faults>>
  BY DEF Collect, At, StateInv, Placed
<1>2. CASE cache[p] # "none"
  <2> DEFINE e == [exec[d] EXCEPT !.found = cache[p], !.pc = "store"]
  <2>1. cache[p] \in Collections
    BY <1>1, <1>2, Typed DEF Collections
  <2>2. Placed(e) /\ e.pc = "store" /\ e.window = exec[d].window
    BY <1>1, <2>1 DEF Placed, DeliveryType, Pcs, Locked
  <2>3. exec' = [exec EXCEPT ![d] = e] /\ UNCHANGED retrieval
    BY <1>1, <1>2, Typed DEF Collect, Finds, DeliveryType
  <2> HIDE DEF e
  <2>4. QED
    BY <1>1, <2>2, <2>3, MoveKeepsState DEF Collecting, Locked
<1>3. CASE cache[p] = "none"
  <2> DEFINE e == [exec[d] EXCEPT !.pc = "join"]
  <2>1. Placed(e) /\ e.pc = "join" /\ e.window = exec[d].window /\ e.proc = p
    BY <1>1 DEF Placed, DeliveryType, Pcs, Locked
  <2>2. exec' = [exec EXCEPT ![d] = e]
    BY <1>3 DEF Collect, Goes
  <2>3. /\ retrieval' \in [Procs -> RetrievalType]
        /\ \A x \in Procs : \/ retrieval'[x] = retrieval[x]
                            \/ retrieval'[x].starter = d /\ x = p
    <3>1. CASE retrieval[p].starter = "nobody"
      <4> DEFINE t == [retrieval[p] EXCEPT !.starter = d]
      <4>1. t \in RetrievalType /\ t.starter = d
        BY <1>1, Typed DEF RetrievalType
      <4>2. retrieval' = [retrieval EXCEPT ![p] = t]
        BY <1>3, <3>1 DEF Collect
      <4> HIDE DEF t, p
      <4>3. QED
        BY <1>1, <4>1, <4>2, Typed
    <3>2. CASE retrieval[p].starter # "nobody"
      <4>1. retrieval' = retrieval
        BY <1>3, <3>2 DEF Collect
      <4>2. QED
        BY <4>1, Typed
    <3>3. QED
      BY <3>1, <3>2
  <2>4. e.pc \in Collecting /\ records'[e.window].lease = d => records'[e.window].collection = "none"
    BY <1>1, <2>1 DEF StateInv, HoldersAreAlone, Collecting
  <2>5. \A w \in Windows, x \in Deliveries : records'[w].lease = x =>
           IF x = d THEN e.pc \in Locked /\ e.window = w ELSE records[w].lease = x
    BY <1>1, <2>1 DEF StateInv, TokensAreHeld, Locked
  <2>6. /\ exec[d].pc # "join"
        /\ records' \in [Windows -> RecordType]
        /\ researchKey' \in [Runs -> Windows \cup {"none"}]
        /\ faults' \in [lapses : 0..MaxLapses, others : 0..MaxFaults]
        /\ \A w \in Windows : records'[w].collection = records[w].collection
        /\ UNCHANGED <<searches, cache>>
    BY <1>1, Typed
  <2> HIDE DEF e, p
  <2>7. \A x \in Procs : \/ retrieval'[x] = retrieval[x]
                         \/ retrieval'[x].starter = d /\ e.pc = "join" /\ e.proc = x
    BY <2>1, <2>3
  <2>8. QED
    BY <2>1, <2>2, <2>3, <2>4, <2>5, <2>6, <2>7, DeliveryKeepsState
<1>4. QED
  BY <1>2, <1>3

LEMMA StoreKeepsState ==
    ASSUME StateInv, NEW d \in Deliveries, Store(d)
    PROVE  StateInv'
<1> DEFINE v == exec[d].window
           e == [exec[d] EXCEPT !.pc = "release"]
<1>1. Placed(exec[d]) /\ exec[d].pc = "store" /\ v \in Windows /\ exec[d].found \in Collections
  BY DEF Store, At, StateInv, Placed
<1>2. Placed(e) /\ e.pc = "release" /\ e.window = v
  BY <1>1 DEF Placed, DeliveryType, Pcs, Locked
<1>3. exec' = [exec EXCEPT ![d] = e] /\ UNCHANGED <<researchKey, searches, cache, retrieval, faults>>
  BY DEF Store, Goes
<1>4. /\ records' \in [Windows -> RecordType]
      /\ \A w \in Windows : records'[w].lease = records[w].lease
      /\ \A w \in Windows : \/ records'[w].collection = records[w].collection
                            \/ w = v /\ records[v].lease = d
  BY StoredRecords DEF HoldsToken, Record
<1>5. \A w \in Windows, x \in Deliveries : records'[w].lease = x =>
         IF x = d THEN e.pc \in Locked /\ e.window = w ELSE records[w].lease = x
  BY <1>2, <1>4 DEF StateInv, TokensAreHeld, Locked
<1>6. exec[d].pc # "join" /\ ~(e.pc \in Collecting)
  BY <1>1, <1>2 DEF Collecting
<1>7. \A w \in Windows : records'[w].lease \in Deliveries \ {d} =>
         records'[w].collection = records[w].collection
  BY <1>4
<1> HIDE DEF e, v
<1>8. QED
  BY <1>2, <1>3, <1>4, <1>5, <1>6, <1>7, WriteKeepsState

LEMMA ReleaseKeepsState ==
    ASSUME StateInv, NEW d \in Deliveries, Release(d)
    PROVE  StateInv'
<1> DEFINE v == exec[d].window
           e == IF exec[d].found = "none" THEN Idle ELSE [exec[d] EXCEPT !.pc = "name"]
<1>1. Placed(exec[d]) /\ exec[d].pc = "release" /\ v \in Windows
  BY DEF Release, At, StateInv, Placed
<1>2. Placed(e) /\ e.pc \in {"idle", "name"}
  BY <1>1 DEF Placed, DeliveryType, Pcs, Locked, Idle
<1>3. exec' = [exec EXCEPT ![d] = e] /\ UNCHANGED <<researchKey, searches, cache, retrieval, faults>>
  BY DEF Release, Goes, Ends
<1>4. /\ records' \in [Windows -> RecordType]
      /\ \A w \in Windows : records'[w].lease = IF records[w].lease = d THEN "nobody"
                                                ELSE records[w].lease
      /\ \A w \in Windows : records'[w].collection = records[w].collection
  BY ReleasedRecords
<1>5. \A w \in Windows, x \in Deliveries : records'[w].lease = x =>
         IF x = d THEN e.pc \in Locked /\ e.window = w ELSE records[w].lease = x
  BY <1>4, ResearchAssumption
<1>6. exec[d].pc # "join" /\ ~(e.pc \in Collecting)
  BY <1>1, <1>2 DEF Collecting
<1> HIDE DEF e, v
<1>7. QED
  BY <1>2, <1>3, <1>4, <1>5, <1>6, WriteKeepsState

LEMMA NameKeepsState ==
    ASSUME StateInv, NEW d \in Deliveries, Name(d)
    PROVE  StateInv'
<1>1. /\ exec[d].pc = "name" /\ exec[d].run \in Runs /\ exec[d].window \in Windows
      /\ \A w \in Windows : records[w].lease # d
  BY DEF Name, At, StateInv, Placed, TokensAreHeld, Locked
<1>2. researchKey' \in [Runs -> Windows \cup {"none"}]
  BY <1>1, Typed DEF Name
<1>3. QED
  BY <1>1, <1>2, Typed, EndKeepsState DEF Name

LEMMA SearchKeepsState ==
    ASSUME StateInv, NEW p \in Procs, NEW q \in Queries, Search(p, q)
    PROVE  StateInv'
<1> DEFINE w == exec[retrieval[p].starter].window
           t == [retrieval[p] EXCEPT !.searched = @ \cup {q}]
<1>1. retrieval[p] \in RetrievalType /\ retrieval[p].starter \in Deliveries
  BY Typed DEF Search, RetrievalType
<1>2. w \in Windows
  <2>1. exec[retrieval[p].starter].pc = "join"
    BY DEF Search, StateInv, StartersWait
  <2>2. QED
    BY <1>1, <2>1 DEF StateInv, Placed
<1>3. t \in RetrievalType /\ t.starter = retrieval[p].starter
  BY <1>1 DEF RetrievalType
<1>4. retrieval' = [retrieval EXCEPT ![p] = t]
  BY DEF Search
<1>5. searches' \in [Windows -> [Queries -> Nat]]
  <2>1. searches[w] \in [Queries -> Nat] /\ searches[w][q] + 1 \in Nat
    BY <1>2, Typed
  <2> DEFINE row == [searches[w] EXCEPT ![q] = searches[w][q] + 1]
  <2>2. row \in [Queries -> Nat]
    BY <2>1
  <2>3. searches' = [searches EXCEPT ![w] = row]
    BY DEF Search
  <2> HIDE DEF row, w
  <2>4. QED
    BY <1>2, <2>2, <2>3, Typed
<1>6. UNCHANGED <<records, researchKey, cache, exec, faults>>
  BY DEF Search
<1> HIDE DEF t, w
<1>7. \A x \in Procs : retrieval'[x] \in RetrievalType /\ retrieval'[x].starter = retrieval[x].starter
  BY <1>3, <1>4, Typed
<1>8. retrieval' \in [Procs -> RetrievalType]
  BY <1>3, <1>4, Typed
<1>9. RCTypeOK'
  BY <1>5, <1>6, <1>8, Typed, TypedAgain
<1>10. StartersWait(exec', retrieval')
  BY <1>6, <1>7 DEF StateInv, StartersWait
<1>11. QED
  BY <1>6, <1>9, <1>10 DEF StateInv, TokensAreHeld, HoldersAreAlone

LEMMA RetrievedKeepsState ==
    ASSUME StateInv, NEW p \in Procs, NEW c \in Collections, Retrieved(p, c)
    PROVE  StateInv'
<1> DEFINE waits(d) == exec[d].pc = "join" /\ exec[d].proc = p
<1>1. ASSUME NEW d \in Deliveries
      PROVE  /\ Placed(exec'[d]) /\ exec'[d].window = exec[d].window
             /\ exec'[d].pc = IF waits(d) THEN "store" ELSE exec[d].pc
             /\ exec'[d].proc = exec[d].proc
  <2>1. Placed(exec[d])
    BY DEF StateInv
  <2>2. CASE waits(d)
    <3>1. exec'[d] = [exec[d] EXCEPT !.found = c, !.pc = "store"]
      BY <2>2 DEF Retrieved
    <3>2. QED
      BY <2>1, <2>2, <3>1 DEF Placed, DeliveryType, Pcs, Locked
  <2>3. CASE ~waits(d)
    <3>1. exec'[d] = exec[d]
      BY <2>3 DEF Retrieved
    <3>2. QED
      BY <2>1, <2>3, <3>1
  <2>4. QED
    BY <2>2, <2>3
<1>2. exec' \in [Deliveries -> DeliveryType]
  <2>1. \A d \in Deliveries : exec'[d] \in DeliveryType
    BY <1>1 DEF Placed
  <2>2. QED
    BY <2>1 DEF Retrieved
<1>3. /\ NoRetrieval \in RetrievalType /\ NoRetrieval.starter = "nobody"
      /\ retrieval' = [retrieval EXCEPT ![p] = NoRetrieval]
  BY DEF NoRetrieval, RetrievalType, Retrieved
<1>4. retrieval' \in [Procs -> RetrievalType]
  BY <1>3, Typed
<1>5. cache' \in [Procs -> Full \cup {"none"}]
  BY Typed DEF Retrieved
<1>6. UNCHANGED <<records, researchKey, searches, faults>>
  BY DEF Retrieved
<1>7. RCTypeOK'
  BY <1>2, <1>4, <1>5, <1>6, Typed, TypedAgain
<1>8. TokensAreHeld(exec', records')
  BY <1>1, <1>6 DEF StateInv, TokensAreHeld, Locked
<1>9. HoldersAreAlone(exec', records')
  BY <1>1, <1>6 DEF StateInv, HoldersAreAlone, Collecting
<1>10. StartersWait(exec', retrieval')
  <2> SUFFICES ASSUME NEW x \in Procs, retrieval'[x].starter # "nobody"
               PROVE  exec'[retrieval'[x].starter].pc = "join" /\ exec'[retrieval'[x].starter].proc = x
    BY DEF StartersWait
  <2>1. x # p /\ retrieval'[x] = retrieval[x]
    BY <1>3, Typed
  <2>2. retrieval[x].starter \in Deliveries
    BY <2>1, Typed DEF RetrievalType
  <2>3. QED
    BY <1>1, <2>1, <2>2 DEF StateInv, StartersWait
<1>11. QED
  BY <1>1, <1>7, <1>8, <1>9, <1>10 DEF StateInv

LEMMA RestKeepsState ==
    ASSUME StateInv, (\E p \in Procs : CacheForgets(p)) \/ (\E w \in Windows : LeaseRunsOut(w))
    PROVE  StateInv'
<1>1. ASSUME NEW p \in Procs, CacheForgets(p)
      PROVE  StateInv'
  <2>1. cache' \in [Procs -> Full \cup {"none"}]
    BY <1>1, Typed DEF CacheForgets
  <2>2. RCTypeOK'
    BY <1>1, <2>1, Typed, TypedAgain DEF CacheForgets
  <2>3. QED
    BY <1>1, <2>2 DEF CacheForgets, StateInv, TokensAreHeld, HoldersAreAlone, StartersWait
<1>2. ASSUME NEW w \in Windows, LeaseRunsOut(w)
      PROVE  StateInv'
  <2>1. records[w] \in RecordType
    BY Typed
  <2>2. records' = [records EXCEPT ![w] = [records[w] EXCEPT !.lease = records[w].lease, !.lapsed = TRUE]]
    <3>1. records' = [records EXCEPT ![w] = [records[w] EXCEPT !.lapsed = TRUE]]
      BY <1>2, <2>1, Typed DEF LeaseRunsOut
    <3>2. [records[w] EXCEPT !.lapsed = TRUE]
             = [records[w] EXCEPT !.lease = records[w].lease, !.lapsed = TRUE]
      BY <2>1 DEF RecordType
    <3>3. QED
      BY <3>1, <3>2
  <2>3. /\ records' \in [Windows -> RecordType]
        /\ \A v \in Windows : records'[v].lease = records[v].lease
        /\ \A v \in Windows : records'[v].collection = records[v].collection
    BY <2>1, <2>2, LeasedRecords DEF RecordType
  <2>4. faults' \in [lapses : 0..MaxLapses, others : 0..MaxFaults]
    BY <1>2, Typed, ResearchAssumption DEF LeaseRunsOut
  <2>5. UNCHANGED <<researchKey, searches, cache, retrieval, exec>>
    BY <1>2 DEF LeaseRunsOut
  <2>6. RCTypeOK'
    BY <2>3, <2>4, <2>5, Typed, TypedAgain
  <2>7. TokensAreHeld(exec', records')
    BY <2>3, <2>5 DEF StateInv, TokensAreHeld
  <2>8. HoldersAreAlone(exec', records')
    <3>1. \A d \in Deliveries : exec[d].pc \in Collecting => exec[d].window \in Windows
      BY DEF StateInv, Placed, Collecting
    <3>2. QED
      BY <2>3, <2>5, <3>1 DEF StateInv, HoldersAreAlone
  <2>9. QED
    BY <2>5, <2>6, <2>7, <2>8 DEF StateInv, StartersWait
<1>3. QED
  BY <1>1, <1>2

\* What is left of the tokens of deliveries that have ended.
LEMMA AbandonedRecords ==
    ASSUME StateInv, NEW ds, records' = Abandoned(ds)
    PROVE  /\ records' \in [Windows -> RecordType]
           /\ \A w \in Windows :
                 /\ records'[w].lease = IF records[w].lease \in ds THEN "gone" ELSE records[w].lease
                 /\ records'[w].attempted = records[w].attempted
                 /\ records'[w].collection = records[w].collection
                 /\ records'[w].lapsed = records[w].lapsed
<1>1. ASSUME NEW w \in Windows
      PROVE  /\ records'[w] \in RecordType
             /\ records'[w].lease = IF records[w].lease \in ds THEN "gone" ELSE records[w].lease
             /\ records'[w].attempted = records[w].attempted
             /\ records'[w].collection = records[w].collection
             /\ records'[w].lapsed = records[w].lapsed
  <2>1. records[w] \in RecordType
    BY Typed
  <2>2. records'[w] = IF records[w].lease \in ds THEN [records[w] EXCEPT !.lease = "gone"]
                      ELSE records[w]
    BY DEF Abandoned
  <2>3. QED
    BY <2>1, <2>2 DEF RecordType
<1>2. records' \in [Windows -> RecordType]
  BY <1>1 DEF Abandoned
<1>3. QED
  BY <1>1, <1>2

LEMMA CallFailsKeepsState ==
    ASSUME StateInv, NEW d \in Deliveries, CallFails(d)
    PROVE  StateInv'
<1>1. /\ Placed(exec[d]) /\ exec[d].pc \notin {"idle", "collect", "join"}
      /\ exec[d].window \in Windows
      /\ UNCHANGED <<researchKey, searches, cache, retrieval>>
  BY DEF CallFails, StateInv, Placed
<1>2. /\ faults' \in [lapses : 0..MaxLapses, others : 0..MaxFaults]
      /\ retrieval' \in [Procs -> RetrievalType]
      /\ researchKey' \in [Runs -> Windows \cup {"none"}]
      /\ \A p \in Procs : retrieval'[p] = retrieval[p]
  BY <1>1, Typed, ResearchAssumption DEF CallFails
<1>3. CASE exec[d].pc \in {"check", "mark", "store"}
  <2> DEFINE e == [exec[d] EXCEPT !.found = "none", !.pc = "release"]
  <2>1. Placed(e) /\ e.pc = "release" /\ e.window = exec[d].window
    BY <1>1, <1>3 DEF Placed, DeliveryType, Pcs, Locked
  <2>2. exec' = [exec EXCEPT ![d] = e] /\ UNCHANGED records
    BY <1>1, <1>3, Typed DEF CallFails, Finds, DeliveryType
  <2> HIDE DEF e
  <2>3. \A w \in Windows, x \in Deliveries : records'[w].lease = x =>
           IF x = d THEN e.pc \in Locked /\ e.window = w ELSE records[w].lease = x
    BY <2>1, <2>2 DEF StateInv, TokensAreHeld, Locked
  <2>4. ~(e.pc \in Collecting) /\ exec[d].pc # "join"
    BY <1>1, <2>1 DEF Collecting
  <2>5. QED
    BY <1>1, <1>2, <2>1, <2>2, <2>3, <2>4, Typed, DeliveryKeepsState
<1>4. CASE exec[d].pc \notin {"check", "mark", "store"}
  <2>1. exec' = [exec EXCEPT ![d] = Idle] /\ records' = Abandoned({d})
    BY <1>4 DEF CallFails, Ends
  <2>2. Placed(Idle) /\ ~(Idle.pc \in Collecting)
    BY DEF Placed, Idle, DeliveryType, Pcs, Collecting
  <2>3. \A w \in Windows, x \in Deliveries : records'[w].lease = x =>
           IF x = d THEN Idle.pc \in Locked /\ Idle.window = w ELSE records[w].lease = x
    <3>1. \A w \in Windows : records'[w].lease =
             IF records[w].lease \in {d} THEN "gone" ELSE records[w].lease
      BY <2>1, AbandonedRecords
    <3>2. QED
      BY <3>1, ResearchAssumption
  <2>4. /\ records' \in [Windows -> RecordType]
        /\ \A w \in Windows : records'[w].collection = records[w].collection
    BY <2>1, AbandonedRecords
  <2>5. exec[d].pc # "join" /\ exec' = [exec EXCEPT ![d] = Idle]
    BY <1>1, <2>1
  <2> DEFINE e == Idle
  <2>6. /\ Placed(e) /\ ~(e.pc \in Collecting)
        /\ exec' = [exec EXCEPT ![d] = e]
        /\ \A w \in Windows, x \in Deliveries : records'[w].lease = x =>
              IF x = d THEN e.pc \in Locked /\ e.window = w ELSE records[w].lease = x
    BY <2>2, <2>3, <2>5
  <2> HIDE DEF e
  <2>7. /\ \A w \in Windows : records'[w].lease \in Deliveries \ {d} =>
              records'[w].collection = records[w].collection
        /\ e.pc \in Collecting /\ records'[e.window].lease = d
              => records'[e.window].collection = "none"
        /\ \A p \in Procs : \/ retrieval'[p] = retrieval[p]
                            \/ retrieval'[p].starter = d /\ e.pc = "join" /\ e.proc = p
        /\ UNCHANGED <<searches, cache>>
    BY <1>1, <1>2, <2>4, <2>6
  <2>8. QED
    BY <1>2, <2>4, <2>5, <2>6, <2>7, DeliveryKeepsState
<1>5. QED
  BY <1>3, <1>4

LEMMA CrashKeepsState ==
    ASSUME StateInv, NEW p \in Procs, Crash(p)
    PROVE  StateInv'
<1> DEFINE lost == {d \in Deliveries : exec[d].proc = p}
<1>1. /\ exec' = [d \in Deliveries |-> IF d \in lost THEN Idle ELSE exec[d]]
      /\ records' = Abandoned(lost)
      /\ retrieval' = [retrieval EXCEPT ![p] = NoRetrieval]
      /\ cache' = [cache EXCEPT ![p] = "none"]
      /\ UNCHANGED <<researchKey, searches>>
  BY DEF Crash
<1>2. Placed(Idle) /\ Idle.pc = "idle"
  BY DEF Placed, Idle, DeliveryType, Pcs
<1>3. \A d \in Deliveries : Placed(exec'[d]) /\ exec'[d] = IF d \in lost THEN Idle ELSE exec[d]
  BY <1>1, <1>2 DEF StateInv
<1>4. exec' \in [Deliveries -> DeliveryType]
  <2>1. \A d \in Deliveries : exec'[d] \in DeliveryType
    BY <1>3 DEF Placed
  <2>2. QED
    BY <1>1, <2>1
<1>5. NoRetrieval \in RetrievalType /\ NoRetrieval.starter = "nobody"
  BY DEF NoRetrieval, RetrievalType
<1>6. retrieval' \in [Procs -> RetrievalType]
  BY <1>1, <1>5, Typed
<1>7. /\ cache' \in [Procs -> Full \cup {"none"}]
      /\ faults' \in [lapses : 0..MaxLapses, others : 0..MaxFaults]
  BY <1>1, Typed, ResearchAssumption DEF Crash
<1>8. /\ records' \in [Windows -> RecordType]
      /\ \A w \in Windows :
            /\ records'[w].lease = IF records[w].lease \in lost THEN "gone" ELSE records[w].lease
            /\ records'[w].collection = records[w].collection
  BY <1>1, AbandonedRecords
<1>9. RCTypeOK'
  BY <1>1, <1>4, <1>6, <1>7, <1>8, Typed, TypedAgain
<1>10. TokensAreHeld(exec', records')
  <2> SUFFICES ASSUME NEW w \in Windows, NEW d \in Deliveries, records'[w].lease = d
               PROVE  exec'[d].pc \in Locked /\ exec'[d].window = w
    BY DEF TokensAreHeld
  <2>1. records[w].lease = d /\ d \notin lost
    BY <1>8, ResearchAssumption
  <2>2. QED
    BY <1>3, <2>1 DEF StateInv, TokensAreHeld
<1>11. HoldersAreAlone(exec', records')
  <2> SUFFICES ASSUME NEW d \in Deliveries, exec'[d].pc \in Collecting,
                      records'[exec'[d].window].lease = d
               PROVE  records'[exec'[d].window].collection = "none"
    BY DEF HoldersAreAlone
  <2>1. exec'[d] = exec[d]
    BY <1>2, <1>3 DEF Collecting
  <2>2. exec[d].window \in Windows
    BY <2>1 DEF StateInv, Placed, Collecting
  <2>3. records[exec[d].window].lease = d
    BY <1>8, <2>1, <2>2, ResearchAssumption
  <2>4. QED
    BY <1>8, <2>1, <2>2, <2>3 DEF StateInv, HoldersAreAlone
<1>12. StartersWait(exec', retrieval')
  <2> SUFFICES ASSUME NEW x \in Procs, retrieval'[x].starter # "nobody"
               PROVE  exec'[retrieval'[x].starter].pc = "join" /\ exec'[retrieval'[x].starter].proc = x
    BY DEF StartersWait
  <2>1. x # p /\ retrieval'[x] = retrieval[x]
    BY <1>1, <1>5, Typed
  <2>2. retrieval[x].starter \in Deliveries
    BY <2>1, Typed DEF RetrievalType
  <2>3. exec[retrieval[x].starter].pc = "join" /\ exec[retrieval[x].starter].proc = x
    BY <2>1 DEF StateInv, StartersWait
  <2>4. QED
    BY <1>3, <2>1, <2>2, <2>3
<1>13. QED
  BY <1>3, <1>9, <1>10, <1>11, <1>12 DEF StateInv

LEMMA InitState == Init => StateInv
<1> SUFFICES ASSUME Init PROVE StateInv
  OBVIOUS
<1>1. Placed(Idle) /\ Idle.pc = "idle" /\ Idle \in DeliveryType
  BY DEF Placed, Idle, DeliveryType, Pcs
<1>2. NoRetrieval \in RetrievalType /\ NoRetrieval.starter = "nobody"
  BY DEF NoRetrieval, RetrievalType
<1>3. RCTypeOK
  <2>1. /\ records \in [Windows -> RecordType]
        /\ researchKey \in [Runs -> Windows \cup {"none"}]
        /\ searches \in [Windows -> [Queries -> Nat]]
        /\ cache \in [Procs -> Full \cup {"none"}]
    BY DEF Init, RecordType
  <2>2. faults \in [lapses : 0..MaxLapses, others : 0..MaxFaults]
    BY ResearchAssumption DEF Init
  <2>3. exec \in [Deliveries -> DeliveryType] /\ retrieval \in [Procs -> RetrievalType]
    BY <1>1, <1>2 DEF Init
  <2>4. QED
    BY <2>1, <2>2, <2>3 DEF RCTypeOK, RecordType, DeliveryType, RetrievalType
<1>4. TokensAreHeld(exec, records)
  BY ResearchAssumption DEF Init, TokensAreHeld
<1>5. \A d \in Deliveries : Placed(exec[d]) /\ exec[d].pc = "idle"
  BY <1>1 DEF Init
<1>6. HoldersAreAlone(exec, records) /\ StartersWait(exec, retrieval)
  BY <1>2, <1>5 DEF Init, HoldersAreAlone, StartersWait, Collecting
<1>7. QED
  BY <1>3, <1>4, <1>5, <1>6 DEF StateInv

LEMMA NextKeepsState == StateInv /\ [Next]_vars => StateInv'
<1> SUFFICES ASSUME StateInv, [Next]_vars PROVE StateInv'
  OBVIOUS
<1>1. ASSUME NEW d \in Deliveries, NEW r \in Runs, NEW p \in Procs, NEW w \in Windows,
             Start(d, r, p, w)
      PROVE  StateInv'
  BY <1>1, StartKeepsState
<1>2. ASSUME NEW d \in Deliveries, DeliveryStep(d)
      PROVE  StateInv'
  BY <1>2, PutKeepsState, ClaimKeepsState, CheckKeepsState, MarkKeepsState, CollectKeepsState,
     StoreKeepsState, ReleaseKeepsState, NameKeepsState DEF DeliveryStep
<1>3. ASSUME NEW d \in Deliveries, CallFails(d)
      PROVE  StateInv'
  BY <1>3, CallFailsKeepsState
<1>4. ASSUME NEW p \in Procs, (\E q \in Queries : Search(p, q)) \/ (\E c \in Collections : Retrieved(p, c))
      PROVE  StateInv'
  BY <1>4, SearchKeepsState, RetrievedKeepsState
<1>5. ASSUME NEW p \in Procs, Crash(p)
      PROVE  StateInv'
  BY <1>5, CrashKeepsState
<1>6. CASE UNCHANGED vars
  BY <1>6 DEF vars, StateInv, RCTypeOK, TokensAreHeld, HoldersAreAlone, StartersWait
<1>7. QED
  BY <1>1, <1>2, <1>3, <1>4, <1>5, <1>6, RestKeepsState DEF Next

LEMMA StateIsKept == Spec => []StateInv
<1>1. QED
  BY InitState, NextKeepsState, PTL DEF Spec

\* In every reachable state the variables have their declared types.
THEOREM ResearchTypeCorrect == Spec => []RCTypeOK
<1>1. StateInv => RCTypeOK
  BY DEF StateInv
<1>2. QED
  BY StateIsKept, <1>1, PTL

\* A record's collection is written by Store alone.
LEMMA OnlyStoreWrites ==
    ASSUME StateInv, [Next]_vars, ~(\E d \in Deliveries : Store(d))
    PROVE  \A w \in Windows : records'[w].collection = records[w].collection
<1>1. ASSUME NEW d \in Deliveries, Claim(d)
      PROVE  \A w \in Windows : records'[w].collection = records[w].collection
  BY <1>1, Typed DEF Claim, RecordType
<1>2. ASSUME NEW d \in Deliveries, Mark(d)
      PROVE  \A w \in Windows : records'[w].collection = records[w].collection
  BY <1>2, Typed DEF Mark, RecordType
<1>3. ASSUME NEW d \in Deliveries, Release(d)
      PROVE  \A w \in Windows : records'[w].collection = records[w].collection
  BY <1>3, Typed DEF Release, RecordType
<1>4. ASSUME NEW ds, records' = Abandoned(ds)
      PROVE  \A w \in Windows : records'[w].collection = records[w].collection
  BY <1>4, AbandonedRecords
<1>5. ASSUME NEW v \in Windows, LeaseRunsOut(v)
      PROVE  \A w \in Windows : records'[w].collection = records[w].collection
  BY <1>5, Typed DEF LeaseRunsOut, RecordType
<1>6. ASSUME NEW d \in Deliveries, CallFails(d)
      PROVE  \A w \in Windows : records'[w].collection = records[w].collection
  BY <1>4, <1>6 DEF CallFails
<1>7. ASSUME NEW p \in Procs, Crash(p)
      PROVE  \A w \in Windows : records'[w].collection = records[w].collection
  BY <1>4, <1>7 DEF Crash
<1>8. ASSUME UNCHANGED records
      PROVE  \A w \in Windows : records'[w].collection = records[w].collection
  BY <1>8
<1>9. ASSUME NEW d \in Deliveries,
             \/ \E r \in Runs, p \in Procs, w \in Windows : Start(d, r, p, w)
             \/ Put(d) \/ Check(d) \/ Collect(d) \/ Name(d)
      PROVE  UNCHANGED records
  BY <1>9 DEF Start, Put, Check, Collect, Name
<1>10. ASSUME NEW p \in Procs,
              (\E q \in Queries : Search(p, q)) \/ (\E c \in Collections : Retrieved(p, c)) \/ CacheForgets(p)
       PROVE  UNCHANGED records
  BY <1>10 DEF Search, Retrieved, CacheForgets
<1>11. CASE UNCHANGED vars
  BY <1>8, <1>11 DEF vars
<1>12. QED
  BY <1>1, <1>2, <1>3, <1>5, <1>6, <1>7, <1>8, <1>9, <1>10, <1>11 DEF Next, DeliveryStep

\* A stored collection is never replaced: a delivery whose token is gone writes nothing, and the
\* one that holds it found nothing there.
THEOREM CollectionsAreFinal == Spec => CollectionIsFinal
<1>1. ASSUME StateInv, [Next]_vars, NEW w \in Windows, records[w].collection # "none"
      PROVE  records'[w].collection = records[w].collection
  <2>1. ASSUME NEW d \in Deliveries, Store(d)
        PROVE  records'[w].collection = records[w].collection
    <3> DEFINE v == exec[d].window
    <3>1. exec[d].pc = "store" /\ v \in Windows
      BY <1>1, <2>1 DEF Store, At, StateInv, Placed
    <3>2. CASE HoldsToken(d)
      <4>1. records[v].collection = "none"
        BY <1>1, <3>1, <3>2 DEF StateInv, HoldersAreAlone, HoldsToken, Record, Collecting
      <4>2. w # v
        BY <1>1, <4>1
      <4>3. QED
        BY <1>1, <2>1, <3>2, <4>2, Typed DEF Store
    <3>3. CASE ~HoldsToken(d)
      BY <2>1, <3>3 DEF Store
    <3>4. QED
      BY <3>2, <3>3
  <2>2. QED
    BY <1>1, <2>1, OnlyStoreWrites
<1>2. StateInv /\ [Next]_vars =>
         [\A w \in Windows :
             records[w].collection # "none" => records'[w].collection = records[w].collection]_vars
  BY <1>1
<1>3. QED
  BY StateIsKept, <1>2, PTL DEF Spec, CollectionIsFinal

-----------------------------------------------------------------------------
(* While leases last.  A delivery past its claim has the token until it     *)
(* releases it, so that whoever searches for a window is alone there; and   *)
(* who finds an attempt without a collection, in its own time of the token, *)
(* knows that nobody will store one any more.                               *)

\* Nothing will be written to w's collection any more.
Settled(w, recs, req) ==
    \/ recs[w].collection # "none"
    \/ /\ recs[w].attempted
       /\ \A d \in Deliveries : req[d].pc \in Collecting => req[d].window # w

LockedHold ==
    \A d \in Deliveries : exec[d].pc \in Locked => Record(d).lease = d /\ ~Record(d).lapsed

AttemptsAreMarked ==
    /\ \A w \in Windows, q \in Queries :
          /\ searches[w][q] <= 1
          /\ ~records[w].attempted => searches[w][q] = 0
    /\ \A d \in Deliveries :
          /\ exec[d].pc = "mark" => ~Record(d).attempted
          /\ exec[d].pc \in {"collect", "join", "store"} => Record(d).attempted
          /\ exec[d].pc = "collect" => \A q \in Queries : searches[exec[d].window][q] = 0

\* A retrieval sends what is still to be sent.
RetrievalsAreFresh ==
    \A p \in Procs, q \in Queries :
        retrieval[p].starter # "nobody" /\ q \notin retrieval[p].searched
            => searches[exec[retrieval[p].starter].window][q] = 0

FoundIsSettled ==
    \A d \in Deliveries : exec[d].pc \in {"release", "name"} /\ exec[d].found # "none" =>
        /\ Settled(exec[d].window, records, exec)
        /\ exec[d].found \in Collections => Record(d).collection = exec[d].found

NamesAreSettled == \A r \in Runs : researchKey[r] # "none" => Settled(researchKey[r], records, exec)

Lasting ==
    LockedHold /\ AttemptsAreMarked /\ RetrievalsAreFresh /\ FoundIsSettled /\ NamesAreSettled

-----------------------------------------------------------------------------
(* Steps while leases last.                                                 *)

\* The facts of Lasting about one delivery other than the one that moves.
LEMMA OthersAtTheirRecords ==
    ASSUME StateInv, NEW d \in Deliveries, exec[d].pc # "idle"
    PROVE  exec[d].window \in Windows /\ exec[d].run \in Runs /\ exec[d].proc \in Procs
BY DEF StateInv, Placed

\* Two deliveries that work under the lock of a window are one.
LEMMA OneIsLocked ==
    ASSUME Lasting, NEW d \in Deliveries, NEW x \in Deliveries, exec[d].pc \in Locked,
           exec[x].pc \in Locked, exec[d].window = exec[x].window
    PROVE  d = x
BY DEF Lasting, LockedHold, Record

\* Settled for good: d's step writes no collection there and takes nobody into collecting there.
LEMMA SettledStays ==
    ASSUME StateInv, NEW d \in Deliveries, NEW e, exec' = [exec EXCEPT ![d] = e],
           NEW w \in Windows, Settled(w, records, exec),
           records[w].attempted => records'[w].attempted,
           records[w].collection # "none" => records'[w].collection = records[w].collection,
           e.pc \in Collecting /\ e.window = w =>
               \/ exec[d].pc \in Collecting /\ exec[d].window = w
               \/ ~records[w].attempted /\ records[w].collection = "none"
    PROVE  Settled(w, records', exec')
<1>1. exec'[d] = e /\ \A x \in Deliveries \ {d} : exec'[x] = exec[x]
  BY Typed
<1>2. QED
  BY <1>1 DEF Settled

\* Delivery d may become e, over the records recs and the deliveries req that the step leaves.
Fits(d, e, recs, req) ==
    /\ e.pc # "idle" => e.window \in Windows
    /\ e.pc \in Locked => recs[e.window].lease = d /\ ~recs[e.window].lapsed
    /\ e.pc = "mark" => ~recs[e.window].attempted
    /\ e.pc \in {"collect", "join", "store"} => recs[e.window].attempted
    /\ e.pc = "collect" => \A q \in Queries : searches[e.window][q] = 0
    /\ e.pc \in Collecting =>
          \/ exec[d].pc \in Collecting /\ exec[d].window = e.window
          \/ ~records[e.window].attempted /\ records[e.window].collection = "none"
    /\ e.pc \in {"release", "name"} /\ e.found # "none" =>
          /\ Settled(e.window, recs, req)
          /\ e.found \in Collections => recs[e.window].collection = e.found

\* What d's step does to the records: nothing is undone, and what others hold is left alone.
Grows(d, recs) ==
    \A w \in Windows :
        /\ records[w].attempted => recs[w].attempted
        /\ records[w].collection # "none" => recs[w].collection = records[w].collection
        /\ \A x \in Deliveries \ {d} : records[w].lease = x =>
              /\ recs[w].lease = x
              /\ recs[w].lapsed = records[w].lapsed
              /\ recs[w].attempted = records[w].attempted

\* Delivery d becomes e, as a step of its own may have it.
LEMMA DeliveryKeepsLasting ==
    ASSUME StateInv, Lasting, NEW d \in Deliveries, NEW e,
           exec' = [exec EXCEPT ![d] = e], UNCHANGED searches, exec[d].pc # "join",
           Fits(d, e, records', exec'), Grows(d, records'),
           \A p \in Procs :
               \/ retrieval'[p] = retrieval[p]
               \/ /\ retrieval'[p].starter = d
                  /\ \A q \in Queries : searches[e.window][q] = 0,
           \A r \in Runs : \/ researchKey'[r] = researchKey[r]
                           \/ Settled(researchKey'[r], records', exec')
    PROVE  Lasting'
<1>1. exec'[d] = e /\ \A x \in Deliveries \ {d} : exec'[x] = exec[x]
  BY Typed
<1>2. \A x \in Deliveries : exec[x].pc # "idle" => exec[x].window \in Windows
  BY OthersAtTheirRecords
<1>3. ASSUME NEW w \in Windows, Settled(w, records, exec)
      PROVE  Settled(w, records', exec')
  <2>1. e.pc \in Collecting /\ e.window = w =>
           \/ exec[d].pc \in Collecting /\ exec[d].window = w
           \/ ~records[w].attempted /\ records[w].collection = "none"
    BY DEF Fits
  <2>2. /\ records[w].attempted => records'[w].attempted
        /\ records[w].collection # "none" => records'[w].collection = records[w].collection
    BY DEF Grows
  <2>3. QED
    BY <1>3, <2>1, <2>2, SettledStays
<1>4. LockedHold'
  <2> SUFFICES ASSUME NEW x \in Deliveries, exec'[x].pc \in Locked
               PROVE  records'[exec'[x].window].lease = x /\ ~records'[exec'[x].window].lapsed
    BY DEF LockedHold, Record
  <2>1. CASE x = d
    BY <1>1, <2>1 DEF Fits
  <2>2. CASE x # d
    <3>1. exec'[x] = exec[x] /\ exec[x].window \in Windows
      BY <1>1, <1>2, <2>2 DEF Locked
    <3>2. records[exec[x].window].lease = x /\ ~records[exec[x].window].lapsed
      BY <3>1 DEF Lasting, LockedHold, Record
    <3>3. QED
      BY <2>2, <3>1, <3>2 DEF Grows
  <2>3. QED
    BY <2>1, <2>2
<1>5. AttemptsAreMarked'
  <2>1. \A w \in Windows, q \in Queries :
           searches'[w][q] <= 1 /\ (~records'[w].attempted => searches'[w][q] = 0)
    BY DEF Lasting, AttemptsAreMarked, Grows
  <2>2. ASSUME NEW x \in Deliveries
        PROVE  /\ exec'[x].pc = "mark" => ~records'[exec'[x].window].attempted
               /\ exec'[x].pc \in {"collect", "join", "store"} => records'[exec'[x].window].attempted
               /\ exec'[x].pc = "collect" => \A q \in Queries : searches'[exec'[x].window][q] = 0
    <3>1. CASE x = d
      BY <1>1, <3>1 DEF Fits
    <3>2. CASE x # d
      <4>1. exec'[x] = exec[x]
        BY <1>1, <3>2
      <4>2. exec[x].pc \in Locked => records'[exec[x].window].attempted = records[exec[x].window].attempted
        BY <1>2, <3>2 DEF Lasting, LockedHold, Record, Locked, Grows
      <4>3. QED
        BY <4>1, <4>2 DEF Lasting, AttemptsAreMarked, Record, Locked
    <3>3. QED
      BY <3>1, <3>2
  <2>3. QED
    BY <2>1, <2>2 DEF AttemptsAreMarked, Record
<1>6. RetrievalsAreFresh'
  <2> SUFFICES ASSUME NEW p \in Procs, NEW q \in Queries, retrieval'[p].starter # "nobody",
                      q \notin retrieval'[p].searched
               PROVE  searches[exec'[retrieval'[p].starter].window][q] = 0
    BY DEF RetrievalsAreFresh
  <2>1. CASE retrieval'[p] = retrieval[p]
    <3>1. retrieval[p].starter # d /\ retrieval[p].starter \in Deliveries
      BY <2>1, Typed DEF StateInv, StartersWait, RetrievalType
    <3>2. QED
      BY <1>1, <2>1, <3>1 DEF Lasting, RetrievalsAreFresh
  <2>2. CASE retrieval'[p].starter = d /\ \A s \in Queries : searches[e.window][s] = 0
    BY <1>1, <2>2
  <2>3. QED
    BY <2>1, <2>2
<1>7. FoundIsSettled'
  <2> SUFFICES ASSUME NEW x \in Deliveries, exec'[x].pc \in {"release", "name"}, exec'[x].found # "none"
               PROVE  /\ Settled(exec'[x].window, records', exec')
                      /\ exec'[x].found \in Collections =>
                            records'[exec'[x].window].collection = exec'[x].found
    BY DEF FoundIsSettled, Record
  <2>1. CASE x = d
    BY <1>1, <2>1 DEF Fits
  <2>2. CASE x # d
    <3>1. exec'[x] = exec[x] /\ exec[x].window \in Windows
      BY <1>1, <1>2, <2>2
    <3>2. /\ Settled(exec[x].window, records, exec)
          /\ exec[x].found \in Collections => records[exec[x].window].collection = exec[x].found
      BY <3>1 DEF Lasting, FoundIsSettled, Record
    <3>3. Settled(exec[x].window, records', exec')
      BY <1>3, <3>1, <3>2
    <3>4. exec[x].found \in Collections => exec[x].found # "none"
      BY ResearchAssumption
    <3>5. QED
      BY <3>1, <3>2, <3>3, <3>4 DEF Grows
  <2>3. QED
    BY <2>1, <2>2
<1>8. NamesAreSettled'
  <2> SUFFICES ASSUME NEW r \in Runs, researchKey'[r] # "none" PROVE Settled(researchKey'[r], records', exec')
    BY DEF NamesAreSettled
  <2>1. CASE researchKey'[r] = researchKey[r]
    BY <1>3, <2>1, Typed DEF Lasting, NamesAreSettled
  <2>2. QED
    BY <2>1
<1>9. QED
  BY <1>4, <1>5, <1>6, <1>7, <1>8 DEF Lasting

\* A step of d that leaves the records alone.
LEMMA MoveKeepsLasting ==
    ASSUME StateInv, Lasting, NEW d \in Deliveries, NEW e,
           exec' = [exec EXCEPT ![d] = e], exec[d].pc # "join",
           UNCHANGED <<records, researchKey, searches, retrieval>>,
           Fits(d, e, records, exec')
    PROVE  Lasting'
<1>1. Grows(d, records')
  BY DEF Grows
<1>2. /\ \A p \in Procs : retrieval'[p] = retrieval[p]
      /\ \A r \in Runs : researchKey'[r] = researchKey[r]
      /\ UNCHANGED searches
      /\ Fits(d, e, records', exec')
  OBVIOUS
<1>3. QED
  BY <1>1, <1>2, DeliveryKeepsLasting

LEMMA StartKeepsLasting ==
    ASSUME StateInv, Lasting, NEW d \in Deliveries, NEW r \in Runs, NEW p \in Procs,
           NEW w \in Windows, Start(d, r, p, w)
    PROVE  Lasting'
<1> DEFINE e == [pc |-> "put", run |-> r, proc |-> p, window |-> w, found |-> "none"]
<1>1. e.pc = "put" /\ e.window = w
  OBVIOUS
<1>2. exec' = [exec EXCEPT ![d] = e] /\ exec[d].pc # "join"
      /\ UNCHANGED <<records, researchKey, searches, retrieval>>
  BY DEF Start, At
<1> HIDE DEF e
<1>3. Fits(d, e, records, exec')
  BY <1>1 DEF Fits, Locked, Collecting
<1>4. QED
  BY <1>2, <1>3, MoveKeepsLasting

LEMMA PutKeepsLasting ==
    ASSUME StateInv, Lasting, NEW d \in Deliveries, Put(d)
    PROVE  Lasting'
<1>1. /\ exec[d].pc = "put" /\ exec[d].window \in Windows /\ Record(d) \in RecordType
      /\ UNCHANGED <<records, researchKey, searches, retrieval>>
      /\ exec[d] \in DeliveryType /\ exec[d].pc # "join"
  BY Typed DEF Put, At, StateInv, Placed, Record
<1>2. CASE Record(d).collection # "none"
  <2> DEFINE e == [exec[d] EXCEPT !.found = Record(d).collection, !.pc = "name"]
  <2>1. e.pc = "name" /\ e.window = exec[d].window /\ e.found = Record(d).collection
    BY <1>1 DEF DeliveryType
  <2>2. exec' = [exec EXCEPT ![d] = e]
    BY <1>1, <1>2, Typed DEF Put, Finds, DeliveryType
  <2> HIDE DEF e
  <2>3. Fits(d, e, records, exec')
    BY <1>1, <1>2, <2>1 DEF Fits, Locked, Collecting, Settled, Record
  <2>4. QED
    BY <1>1, <2>2, <2>3, MoveKeepsLasting
<1>3. CASE Record(d).collection = "none"
  <2> DEFINE e == [exec[d] EXCEPT !.pc = "claim"]
  <2>1. e.pc = "claim" /\ e.window = exec[d].window
    BY <1>1 DEF DeliveryType
  <2>2. exec' = [exec EXCEPT ![d] = e]
    BY <1>1, <1>3, Typed DEF Put, Goes, DeliveryType
  <2> HIDE DEF e
  <2>3. Fits(d, e, records, exec')
    BY <1>1, <2>1 DEF Fits, Locked, Collecting
  <2>4. QED
    BY <1>1, <2>2, <2>3, MoveKeepsLasting
<1>4. QED
  BY <1>2, <1>3

\* d ends, and nobody else's lease is touched.
LEMMA EndKeepsLasting ==
    ASSUME StateInv, Lasting, NEW d \in Deliveries, Ends(d), exec[d].pc # "join",
           Grows(d, records'), UNCHANGED <<searches, retrieval>>,
           \A r \in Runs : \/ researchKey'[r] = researchKey[r]
                           \/ Settled(researchKey'[r], records', exec')
    PROVE  Lasting'
<1> DEFINE e == Idle
<1>1. e.pc = "idle"
  BY DEF Idle
<1>2. exec' = [exec EXCEPT ![d] = e] /\ \A p \in Procs : retrieval'[p] = retrieval[p]
  BY DEF Ends
<1> HIDE DEF e
<1>3. Fits(d, e, records', exec')
  BY <1>1 DEF Fits, Locked, Collecting
<1>4. QED
  BY <1>2, <1>3, DeliveryKeepsLasting

LEMMA ClaimKeepsLasting ==
    ASSUME StateInv, Lasting, NEW d \in Deliveries, Claim(d)
    PROVE  Lasting'
<1> DEFINE v == exec[d].window
<1>1. /\ exec[d].pc = "claim" /\ v \in Windows /\ exec[d].pc # "join"
      /\ exec[d] \in DeliveryType
      /\ UNCHANGED <<researchKey, searches, retrieval>>
  BY DEF Claim, At, StateInv, Placed
<1>2. CASE Record(d).lease = "nobody" \/ Record(d).lapsed
  <2> DEFINE e == [exec[d] EXCEPT !.pc = "check"]
  <2>1. e.pc = "check" /\ e.window = v
    BY <1>1 DEF DeliveryType
  <2>2. exec' = [exec EXCEPT ![d] = e]
    BY <1>2 DEF Claim, Goes
  <2>3. \A w \in Windows :
           /\ records'[w].lease = IF w = v THEN d ELSE records[w].lease
           /\ records'[w].lapsed = IF w = v THEN FALSE ELSE records[w].lapsed
           /\ records'[w].attempted = records[w].attempted
           /\ records'[w].collection = records[w].collection
    BY <1>2, ClaimedRecords
  <2>4. \A x \in Deliveries : records[v].lease # x
    <3> SUFFICES ASSUME NEW x \in Deliveries, records[v].lease = x PROVE FALSE
      OBVIOUS
    <3>1. exec[x].pc \in Locked /\ exec[x].window = v
      BY <1>1 DEF StateInv, TokensAreHeld
    <3>2. ~records[v].lapsed
      BY <3>1 DEF Lasting, LockedHold, Record
    <3>3. QED
      BY <1>2, <3>2, ResearchAssumption DEF Record
  <2> HIDE DEF e
  <2>5. Grows(d, records')
    <3> HIDE DEF v
    <3>1. QED
      BY <2>3, <2>4 DEF Grows
  <2>6. Fits(d, e, records', exec')
    BY <1>1, <2>1, <2>3 DEF Fits, Locked, Collecting
  <2>7. /\ \A p \in Procs : retrieval'[p] = retrieval[p]
        /\ \A r \in Runs : researchKey'[r] = researchKey[r]
        /\ UNCHANGED searches
    BY <1>1
  <2>8. QED
    BY <1>1, <2>2, <2>5, <2>6, <2>7, DeliveryKeepsLasting
<1>3. CASE ~(Record(d).lease = "nobody" \/ Record(d).lapsed)
  <2>1. Ends(d) /\ UNCHANGED records
    BY <1>3 DEF Claim
  <2>2. Grows(d, records')
    BY <2>1 DEF Grows
  <2>3. QED
    BY <1>1, <2>1, <2>2, EndKeepsLasting
<1>4. QED
  BY <1>2, <1>3

\* The one who is locked at a window and collects nothing knows that nobody does.
LEMMA NobodyElseCollects ==
    ASSUME StateInv, Lasting, NEW d \in Deliveries, NEW e, exec' = [exec EXCEPT ![d] = e],
           exec[d].pc \in Locked, e.pc \notin Collecting
    PROVE  \A x \in Deliveries : exec'[x].pc \in Collecting => exec'[x].window # exec[d].window
<1> SUFFICES ASSUME NEW x \in Deliveries, exec'[x].pc \in Collecting,
                    exec'[x].window = exec[d].window
             PROVE  FALSE
  OBVIOUS
<1>1. x # d /\ exec'[x] = exec[x]
  BY Typed
<1>2. exec[x].pc \in Locked
  BY <1>1 DEF Collecting, Locked
<1>3. QED
  BY <1>1, <1>2, OneIsLocked

LEMMA CheckKeepsLasting ==
    ASSUME StateInv, Lasting, NEW d \in Deliveries, Check(d)
    PROVE  Lasting'
<1> DEFINE v == exec[d].window
<1>1. /\ exec[d].pc = "check" /\ v \in Windows /\ Record(d) \in RecordType
      /\ UNCHANGED <<records, researchKey, searches, retrieval>>
      /\ exec[d] \in DeliveryType /\ exec[d].pc # "join"
      /\ records[v].lease = d /\ ~records[v].lapsed
  BY Typed DEF Check, At, StateInv, Placed, Record, Lasting, LockedHold, Locked
<1>2. ASSUME NEW f \in Collections \cup {"interrupted"}, Finds(d, f, "release"),
             \/ f = Record(d).collection
             \/ Record(d).attempted /\ f = "interrupted"
      PROVE  Lasting'
  <2> DEFINE e == [exec[d] EXCEPT !.found = f, !.pc = "release"]
  <2>1. e.pc = "release" /\ e.window = v /\ e.found = f
    BY <1>1 DEF DeliveryType
  <2>2. exec' = [exec EXCEPT ![d] = e]
    BY <1>1, <1>2, Typed DEF Finds, DeliveryType
  <2> HIDE DEF e
  <2>3. \A x \in Deliveries : exec'[x].pc \in Collecting => exec'[x].window # v
    BY <1>1, <2>1, <2>2, NobodyElseCollects DEF Locked, Collecting
  <2>4. Settled(v, records, exec')
    BY <1>2, <2>3, ResearchAssumption DEF Settled, Record
  <2>5. f \in Collections => records[v].collection = f
    BY <1>2, ResearchAssumption DEF Record
  <2>6. Fits(d, e, records, exec')
    BY <1>1, <2>1, <2>4, <2>5 DEF Fits, Locked, Collecting
  <2>7. QED
    BY <1>1, <2>2, <2>6, MoveKeepsLasting
<1>3. ASSUME Goes(d, "mark"), Record(d).collection = "none", ~Record(d).attempted
      PROVE  Lasting'
  <2> DEFINE e == [exec[d] EXCEPT !.pc = "mark"]
  <2>1. e.pc = "mark" /\ e.window = v
    BY <1>1 DEF DeliveryType
  <2>2. exec' = [exec EXCEPT ![d] = e]
    BY <1>3 DEF Goes
  <2> HIDE DEF e
  <2>3. Fits(d, e, records, exec')
    BY <1>1, <1>3, <2>1 DEF Fits, Locked, Collecting, Record
  <2>4. QED
    BY <1>1, <2>2, <2>3, MoveKeepsLasting
<1>4. QED
  BY <1>1, <1>2, <1>3 DEF Check, RecordType

LEMMA MarkKeepsLasting ==
    ASSUME StateInv, Lasting, NEW d \in Deliveries, Mark(d)
    PROVE  Lasting'
<1> DEFINE v == exec[d].window
           e == [exec[d] EXCEPT !.pc = "collect"]
<1>1. /\ exec[d].pc = "mark" /\ exec[d].pc # "join" /\ v \in Windows /\ exec[d] \in DeliveryType
      /\ UNCHANGED <<researchKey, searches, retrieval>>
      /\ exec' = [exec EXCEPT ![d] = e]
  BY DEF Mark, At, Goes, StateInv, Placed
<1>2. /\ HoldsToken(d) /\ records[v].lease = d /\ ~records[v].lapsed /\ ~records[v].attempted
      /\ \A q \in Queries : searches[v][q] = 0
  BY <1>1 DEF Lasting, LockedHold, AttemptsAreMarked, Record, HoldsToken, Locked
<1>3. e.pc = "collect" /\ e.window = v
  BY <1>1 DEF DeliveryType
<1>4. \A w \in Windows :
         /\ records'[w].lease = records[w].lease
         /\ records'[w].lapsed = records[w].lapsed
         /\ w # v => records'[w].attempted = records[w].attempted
         /\ w = v => records'[w].attempted
         /\ records'[w].collection = records[w].collection
  BY <1>2, MarkedRecords
<1> HIDE DEF e
<1>5. Grows(d, records')
  <2> HIDE DEF v
  <2>1. QED
    BY <1>1, <1>2, <1>4, Typed DEF Grows, RecordType
<1>6. Fits(d, e, records', exec')
  BY <1>1, <1>2, <1>3, <1>4 DEF Fits, Locked, Collecting
<1>7. /\ \A p \in Procs : retrieval'[p] = retrieval[p]
      /\ \A r \in Runs : researchKey'[r] = researchKey[r]
      /\ UNCHANGED searches
  BY <1>1
<1>8. QED
  BY <1>1, <1>5, <1>6, <1>7, DeliveryKeepsLasting

LEMMA CollectKeepsLasting ==
    ASSUME StateInv, Lasting, NEW d \in Deliveries, Collect(d)
    PROVE  Lasting'
<1> DEFINE v == exec[d].window
           p == exec[d].proc
<1>1. /\ exec[d].pc = "collect" /\ exec[d].pc # "join" /\ v \in Windows /\ p \in Procs
      /\ exec[d] \in DeliveryType /\ UNCHANGED <<records, researchKey, searches>>
  BY DEF Collect, At, StateInv, Placed
<1>2. /\ records[v].lease = d /\ ~records[v].lapsed /\ records[v].attempted
      /\ \A q \in Queries : searches[v][q] = 0
  BY <1>1 DEF Lasting, LockedHold, AttemptsAreMarked, Record, Locked
<1>3. CASE cache[p] # "none"
  <2> DEFINE e == [exec[d] EXCEPT !.found = cache[p], !.pc = "store"]
  <2>1. e.pc = "store" /\ e.window = v
    BY <1>1 DEF DeliveryType
  <2>2. exec' = [exec EXCEPT ![d] = e] /\ UNCHANGED retrieval
    BY <1>1, <1>3, Typed DEF Collect, Finds, DeliveryType
  <2> HIDE DEF e
  <2>3. Fits(d, e, records, exec')
    BY <1>1, <1>2, <2>1 DEF Fits, Locked, Collecting
  <2>4. QED
    BY <1>1, <2>2, <2>3, MoveKeepsLasting
<1>4. CASE cache[p] = "none"
  <2> DEFINE e == [exec[d] EXCEPT !.pc = "join"]
  <2>1. e.pc = "join" /\ e.window = v
    BY <1>1 DEF DeliveryType
  <2>2. exec' = [exec EXCEPT ![d] = e]
    BY <1>4 DEF Collect, Goes
  <2>3. \A x \in Procs : retrieval'[x] = retrieval[x] \/ retrieval'[x].starter = d
    <3>1. CASE retrieval[p].starter = "nobody"
      <4> DEFINE t == [retrieval[p] EXCEPT !.starter = d]
      <4>1. t.starter = d
        BY <1>1, Typed DEF RetrievalType
      <4>2. retrieval' = [retrieval EXCEPT ![p] = t]
        BY <1>4, <3>1 DEF Collect
      <4> HIDE DEF t, p
      <4>3. QED
        BY <1>1, <4>1, <4>2, Typed
    <3>2. CASE retrieval[p].starter # "nobody"
      BY <1>4, <3>2 DEF Collect
    <3>3. QED
      BY <3>1, <3>2
  <2> HIDE DEF e
  <2>4. Fits(d, e, records', exec')
    BY <1>1, <1>2, <2>1 DEF Fits, Locked, Collecting
  <2>5. Grows(d, records')
    BY <1>1 DEF Grows
  <2>6. \A x \in Procs : \/ retrieval'[x] = retrieval[x]
                         \/ /\ retrieval'[x].starter = d
                            /\ \A q \in Queries : searches[e.window][q] = 0
    BY <1>2, <2>1, <2>3
  <2>7. UNCHANGED searches /\ \A r \in Runs : researchKey'[r] = researchKey[r]
    BY <1>1
  <2>8. QED
    BY <1>1, <2>2, <2>4, <2>5, <2>6, <2>7, DeliveryKeepsLasting
<1>5. QED
  BY <1>3, <1>4

LEMMA StoreKeepsLasting ==
    ASSUME StateInv, Lasting, NEW d \in Deliveries, Store(d)
    PROVE  Lasting'
<1> DEFINE v == exec[d].window
           e == [exec[d] EXCEPT !.pc = "release"]
<1>1. /\ exec[d].pc = "store" /\ exec[d].pc # "join" /\ v \in Windows /\ exec[d] \in DeliveryType
      /\ exec[d].found \in Collections
      /\ UNCHANGED <<researchKey, searches, retrieval>>
      /\ exec' = [exec EXCEPT ![d] = e]
  BY DEF Store, At, Goes, StateInv, Placed
<1>2. HoldsToken(d) /\ records[v].lease = d /\ ~records[v].lapsed
  BY <1>1 DEF Lasting, LockedHold, Record, HoldsToken, Locked
<1>3. records[v].collection = "none"
  BY <1>1, <1>2 DEF StateInv, HoldersAreAlone, Collecting
<1>4. e.pc = "release" /\ e.window = v /\ e.found = exec[d].found
  BY <1>1 DEF DeliveryType
<1>5. \A w \in Windows :
         /\ records'[w].lease = records[w].lease
         /\ records'[w].lapsed = records[w].lapsed
         /\ records'[w].attempted = records[w].attempted
         /\ w # v => records'[w].collection = records[w].collection
         /\ w = v => records'[w].collection = exec[d].found
  BY <1>2, StoredRecords
<1> HIDE DEF e
<1>6. Grows(d, records')
  <2> HIDE DEF v
  <2>1. QED
    BY <1>3, <1>5 DEF Grows
<1>7. Fits(d, e, records', exec')
  BY <1>1, <1>2, <1>4, <1>5, ResearchAssumption DEF Fits, Locked, Collecting, Settled
<1>8. /\ \A p \in Procs : retrieval'[p] = retrieval[p]
      /\ \A r \in Runs : researchKey'[r] = researchKey[r]
      /\ UNCHANGED searches
  BY <1>1
<1>9. QED
  BY <1>1, <1>6, <1>7, <1>8, DeliveryKeepsLasting

LEMMA ReleaseKeepsLasting ==
    ASSUME StateInv, Lasting, NEW d \in Deliveries, Release(d)
    PROVE  Lasting'
<1> DEFINE v == exec[d].window
           e == [exec[d] EXCEPT !.pc = "name"]
<1>1. /\ exec[d].pc = "release" /\ exec[d].pc # "join" /\ v \in Windows /\ exec[d] \in DeliveryType
      /\ UNCHANGED <<researchKey, searches, retrieval>>
  BY DEF Release, At, StateInv, Placed
<1>2. \A w \in Windows :
         /\ records'[w].lease = IF records[w].lease = d THEN "nobody" ELSE records[w].lease
         /\ records[w].lease # d => records'[w].lapsed = records[w].lapsed
         /\ records'[w].attempted = records[w].attempted
         /\ records'[w].collection = records[w].collection
  BY ReleasedRecords
<1>3. Grows(d, records')
  BY <1>2 DEF Grows
<1>4. CASE exec[d].found = "none"
  <2>1. Ends(d) /\ \A r \in Runs : researchKey'[r] = researchKey[r]
    BY <1>1, <1>4 DEF Release
  <2>2. UNCHANGED <<searches, retrieval>>
    BY <1>1
  <2>3. QED
    BY <1>1, <1>3, <2>1, <2>2, EndKeepsLasting
<1>5. CASE exec[d].found # "none"
  <2>1. exec' = [exec EXCEPT ![d] = e]
    BY <1>5 DEF Release, Goes
  <2>2. e.pc = "name" /\ e.window = v /\ e.found = exec[d].found
    BY <1>1 DEF DeliveryType
  <2>3. /\ Settled(v, records, exec)
        /\ exec[d].found \in Collections => records[v].collection = exec[d].found
    BY <1>1, <1>5 DEF Lasting, FoundIsSettled, Record
  <2> HIDE DEF e
  <2>4. Settled(v, records', exec')
    <3>1. \A x \in Deliveries : exec'[x].pc \in Collecting => exec'[x].pc = exec[x].pc
                                                            /\ exec'[x].window = exec[x].window
      BY <2>1, <2>2, Typed DEF Collecting
    <3>2. QED
      BY <1>1, <1>2, <2>3, <3>1 DEF Settled
  <2>5. Fits(d, e, records', exec')
    BY <1>1, <1>2, <2>2, <2>3, <2>4 DEF Fits, Locked, Collecting
  <2>6. /\ \A p \in Procs : retrieval'[p] = retrieval[p]
        /\ \A r \in Runs : researchKey'[r] = researchKey[r]
        /\ UNCHANGED searches
    BY <1>1
  <2>7. QED
    BY <1>1, <1>3, <2>1, <2>5, <2>6, DeliveryKeepsLasting
<1>6. QED
  BY <1>4, <1>5

LEMMA NameKeepsLasting ==
    ASSUME StateInv, Lasting, NEW d \in Deliveries, Name(d)
    PROVE  Lasting'
<1> DEFINE v == exec[d].window
<1>1. /\ exec[d].pc = "name" /\ exec[d].pc # "join" /\ v \in Windows /\ exec[d].found # "none"
      /\ Ends(d) /\ UNCHANGED <<records, searches, retrieval>>
      /\ researchKey' = [researchKey EXCEPT ![exec[d].run] = v]
  BY DEF Name, At, StateInv, Placed
<1>2. Settled(v, records, exec)
  BY <1>1 DEF Lasting, FoundIsSettled
<1>3. Settled(v, records', exec')
  <2>1. \A x \in Deliveries : exec'[x].pc \in Collecting => exec'[x] = exec[x]
    BY <1>1, Typed DEF Ends, Idle, Collecting
  <2>2. QED
    BY <1>1, <1>2, <2>1 DEF Settled
<1>4. Grows(d, records')
  BY <1>1 DEF Grows
<1>5. \A r \in Runs : researchKey'[r] = researchKey[r] \/ Settled(researchKey'[r], records', exec')
  <2> HIDE DEF v
  <2>1. QED
    BY <1>1, <1>3, Typed
<1>6. UNCHANGED <<searches, retrieval>>
  BY <1>1
<1>7. QED
  BY <1>1, <1>4, <1>5, <1>6, EndKeepsLasting

LEMMA CallFailsKeepsLasting ==
    ASSUME StateInv, Lasting, NEW d \in Deliveries, CallFails(d)
    PROVE  Lasting'
<1> DEFINE v == exec[d].window
<1>1. /\ exec[d].pc \notin {"idle", "collect", "join"} /\ exec[d].pc # "join" /\ v \in Windows
      /\ exec[d] \in DeliveryType /\ UNCHANGED <<researchKey, searches, retrieval>>
  BY DEF CallFails, StateInv, Placed
<1>2. CASE exec[d].pc \in {"check", "mark", "store"}
  <2> DEFINE e == [exec[d] EXCEPT !.found = "none", !.pc = "release"]
  <2>1. e.pc = "release" /\ e.window = v /\ e.found = "none"
    BY <1>1 DEF DeliveryType
  <2>2. exec' = [exec EXCEPT ![d] = e] /\ UNCHANGED records
    BY <1>1, <1>2, Typed DEF CallFails, Finds, DeliveryType
  <2>3. records[v].lease = d /\ ~records[v].lapsed
    BY <1>2 DEF Lasting, LockedHold, Record, Locked
  <2> HIDE DEF e
  <2>4. Fits(d, e, records, exec')
    BY <1>1, <2>1, <2>3 DEF Fits, Locked, Collecting
  <2>5. UNCHANGED <<records, researchKey, searches, retrieval>>
    BY <1>1, <2>2
  <2>6. QED
    BY <1>1, <2>2, <2>4, <2>5, MoveKeepsLasting
<1>3. CASE exec[d].pc \notin {"check", "mark", "store"}
  <2>1. Ends(d) /\ records' = Abandoned({d})
    BY <1>3 DEF CallFails
  <2>2. \A w \in Windows :
           /\ records'[w].lease = IF records[w].lease \in {d} THEN "gone" ELSE records[w].lease
           /\ records'[w].attempted = records[w].attempted
           /\ records'[w].collection = records[w].collection
           /\ records'[w].lapsed = records[w].lapsed
    BY <2>1, AbandonedRecords
  <2>3. Grows(d, records')
    BY <2>2 DEF Grows
  <2>4. UNCHANGED <<searches, retrieval>> /\ \A r \in Runs : researchKey'[r] = researchKey[r]
    BY <1>1
  <2>5. QED
    BY <1>1, <2>1, <2>3, <2>4, EndKeepsLasting
<1>4. QED
  BY <1>2, <1>3

\* Steps of others that end some deliveries or hand them a collection, and take up nothing.
LEMMA EndingKeepsLasting ==
    ASSUME StateInv, Lasting, UNCHANGED <<searches, researchKey>>,
           \A d \in Deliveries :
               \/ exec'[d] = exec[d]
               \/ exec'[d].pc = "idle"
               \/ exec[d].pc = "join" /\ exec'[d].pc = "store" /\ exec'[d].window = exec[d].window,
           \A w \in Windows :
               /\ records'[w].attempted = records[w].attempted
               /\ records'[w].collection = records[w].collection,
           \A d \in Deliveries :
               exec[d].pc \in Locked /\ exec'[d].pc # "idle" =>
                   /\ records'[exec[d].window].lease = records[exec[d].window].lease
                   /\ records'[exec[d].window].lapsed = records[exec[d].window].lapsed,
           \A p \in Procs :
               \/ retrieval'[p].starter = "nobody"
               \/ retrieval'[p] = retrieval[p] /\ exec'[retrieval[p].starter] = exec[retrieval[p].starter]
    PROVE  Lasting'
<1>1. \A d \in Deliveries : exec[d].pc # "idle" => exec[d].window \in Windows
  BY OthersAtTheirRecords
<1>2. ASSUME NEW w \in Windows, Settled(w, records, exec)
      PROVE  Settled(w, records', exec')
  <2>1. \A d \in Deliveries : exec'[d].pc \in Collecting =>
           exec[d].pc \in Collecting /\ exec'[d].window = exec[d].window
    BY DEF Collecting
  <2>2. QED
    BY <1>2, <2>1 DEF Settled
<1>3. LockedHold'
  <2> SUFFICES ASSUME NEW d \in Deliveries, exec'[d].pc \in Locked
               PROVE  records'[exec'[d].window].lease = d /\ ~records'[exec'[d].window].lapsed
    BY DEF LockedHold, Record
  <2>1. exec[d].pc \in Locked /\ exec'[d].pc # "idle" /\ exec'[d].window = exec[d].window
    BY DEF Locked
  <2>2. QED
    BY <2>1 DEF Lasting, LockedHold, Record
<1>4. AttemptsAreMarked'
  <2>1. \A w \in Windows, q \in Queries :
           searches'[w][q] <= 1 /\ (~records'[w].attempted => searches'[w][q] = 0)
    BY DEF Lasting, AttemptsAreMarked
  <2>2. ASSUME NEW d \in Deliveries
        PROVE  /\ exec'[d].pc = "mark" => ~records'[exec'[d].window].attempted
               /\ exec'[d].pc \in {"collect", "join", "store"} => records'[exec'[d].window].attempted
               /\ exec'[d].pc = "collect" => \A q \in Queries : searches'[exec'[d].window][q] = 0
    <3>1. CASE exec'[d] = exec[d]
      BY <1>1, <3>1 DEF Lasting, AttemptsAreMarked, Record
    <3>2. CASE exec'[d].pc = "idle"
      BY <3>2
    <3>3. CASE exec[d].pc = "join" /\ exec'[d].pc = "store" /\ exec'[d].window = exec[d].window
      BY <1>1, <3>3 DEF Lasting, AttemptsAreMarked, Record
    <3>4. QED
      BY <3>1, <3>2, <3>3
  <2>3. QED
    BY <2>1, <2>2 DEF AttemptsAreMarked, Record
<1>5. RetrievalsAreFresh'
  BY DEF Lasting, RetrievalsAreFresh
<1>6. FoundIsSettled'
  <2> SUFFICES ASSUME NEW d \in Deliveries, exec'[d].pc \in {"release", "name"}, exec'[d].found # "none"
               PROVE  /\ Settled(exec'[d].window, records', exec')
                      /\ exec'[d].found \in Collections =>
                            records'[exec'[d].window].collection = exec'[d].found
    BY DEF FoundIsSettled, Record
  <2>1. exec'[d] = exec[d] /\ exec[d].window \in Windows
    BY <1>1
  <2>2. QED
    BY <1>2, <2>1 DEF Lasting, FoundIsSettled, Record
<1>7. NamesAreSettled'
  BY <1>2, Typed DEF Lasting, NamesAreSettled
<1>8. QED
  BY <1>3, <1>4, <1>5, <1>6, <1>7 DEF Lasting

LEMMA RetrievedKeepsLasting ==
    ASSUME StateInv, Lasting, NEW p \in Procs, NEW c \in Collections, Retrieved(p, c)
    PROVE  Lasting'
<1>1. \A d \in Deliveries :
         \/ exec'[d] = exec[d]
         \/ exec[d].pc = "join" /\ exec[d].proc = p /\ exec'[d].pc = "store"
            /\ exec'[d].window = exec[d].window
  <2> SUFFICES ASSUME NEW d \in Deliveries, exec[d].pc = "join", exec[d].proc = p
               PROVE  exec'[d].pc = "store" /\ exec'[d].window = exec[d].window
    BY DEF Retrieved
  <2>1. exec[d] \in DeliveryType
    BY Typed
  <2>2. exec'[d] = [exec[d] EXCEPT !.found = c, !.pc = "store"]
    BY DEF Retrieved
  <2>3. QED
    BY <2>1, <2>2 DEF DeliveryType
<1>2. NoRetrieval.starter = "nobody" /\ retrieval' = [retrieval EXCEPT ![p] = NoRetrieval]
  BY DEF NoRetrieval, Retrieved
<1>3. UNCHANGED <<records, researchKey, searches>>
  BY DEF Retrieved
<1>4. ASSUME NEW x \in Procs
      PROVE  \/ retrieval'[x].starter = "nobody"
             \/ retrieval'[x] = retrieval[x] /\ exec'[retrieval[x].starter] = exec[retrieval[x].starter]
  <2>1. CASE x = p
    BY <1>2, <2>1, Typed
  <2>2. CASE x # p /\ retrieval[x].starter # "nobody"
    <3>1. retrieval[x].starter \in Deliveries /\ exec[retrieval[x].starter].proc = x
      BY <2>2, Typed DEF RetrievalType, StateInv, StartersWait
    <3>2. exec'[retrieval[x].starter] = exec[retrieval[x].starter]
      BY <1>1, <2>2, <3>1
    <3>3. QED
      BY <1>2, <2>2, <3>2, Typed
  <2>3. CASE x # p /\ retrieval[x].starter = "nobody"
    BY <1>2, <2>3, Typed
  <2>4. QED
    BY <2>1, <2>2, <2>3
<1>5. QED
  BY <1>1, <1>3, <1>4, EndingKeepsLasting

LEMMA CrashKeepsLasting ==
    ASSUME StateInv, Lasting, NEW p \in Procs, Crash(p)
    PROVE  Lasting'
<1> DEFINE lost == {d \in Deliveries : exec[d].proc = p}
<1>1. /\ exec' = [d \in Deliveries |-> IF d \in lost THEN Idle ELSE exec[d]]
      /\ records' = Abandoned(lost)
      /\ retrieval' = [retrieval EXCEPT ![p] = NoRetrieval]
      /\ UNCHANGED <<researchKey, searches>>
  BY DEF Crash
<1>2. Idle.pc = "idle" /\ NoRetrieval.starter = "nobody"
  BY DEF Idle, NoRetrieval
<1>3. \A d \in Deliveries : IF d \in lost THEN exec'[d].pc = "idle" ELSE exec'[d] = exec[d]
  BY <1>1, <1>2
<1>4. \A w \in Windows :
         /\ records'[w].lease = IF records[w].lease \in lost THEN "gone" ELSE records[w].lease
         /\ records'[w].attempted = records[w].attempted
         /\ records'[w].collection = records[w].collection
         /\ records'[w].lapsed = records[w].lapsed
  BY <1>1, AbandonedRecords
<1>5. ASSUME NEW d \in Deliveries, exec[d].pc \in Locked, exec'[d].pc # "idle"
      PROVE  /\ records'[exec[d].window].lease = records[exec[d].window].lease
             /\ records'[exec[d].window].lapsed = records[exec[d].window].lapsed
  <2>1. d \notin lost /\ exec[d].window \in Windows
    BY <1>3, <1>5, OthersAtTheirRecords DEF Locked
  <2>2. records[exec[d].window].lease = d
    BY <1>5 DEF Lasting, LockedHold, Record
  <2>3. QED
    BY <1>4, <2>1, <2>2
<1>6. ASSUME NEW x \in Procs
      PROVE  \/ retrieval'[x].starter = "nobody"
             \/ retrieval'[x] = retrieval[x] /\ exec'[retrieval[x].starter] = exec[retrieval[x].starter]
  <2>1. CASE x = p
    BY <1>1, <1>2, <2>1, Typed
  <2>2. CASE x # p /\ retrieval[x].starter # "nobody"
    <3>1. retrieval[x].starter \in Deliveries /\ exec[retrieval[x].starter].proc = x
      BY <2>2, Typed DEF RetrievalType, StateInv, StartersWait
    <3>2. exec'[retrieval[x].starter] = exec[retrieval[x].starter]
      BY <1>3, <2>2, <3>1
    <3>3. QED
      BY <1>1, <2>2, <3>2, Typed
  <2>3. CASE x # p /\ retrieval[x].starter = "nobody"
    BY <1>1, <2>3, Typed
  <2>4. QED
    BY <2>1, <2>2, <2>3
<1>7. \A d \in Deliveries : exec'[d] = exec[d] \/ exec'[d].pc = "idle"
  BY <1>3
<1>8. UNCHANGED <<searches, researchKey>>
  BY <1>1
<1> HIDE DEF lost
<1>9. QED
  BY <1>4, <1>5, <1>6, <1>7, <1>8, EndingKeepsLasting

\* A search goes out for a row that nobody has searched for.
LEMMA SearchKeepsLasting ==
    ASSUME StateInv, Lasting, NEW p \in Procs, NEW q \in Queries, Search(p, q)
    PROVE  Lasting'
<1> DEFINE s == retrieval[p].starter
           w == exec[s].window
<1>1. /\ s \in Deliveries /\ exec[s].pc = "join" /\ exec[s].proc = p
      /\ q \notin retrieval[p].searched
  BY Typed DEF Search, RetrievalType, StateInv, StartersWait
<1>2. /\ w \in Windows /\ records[w].lease = s /\ records[w].attempted
  BY <1>1, OthersAtTheirRecords DEF Lasting, LockedHold, AttemptsAreMarked, Record, Locked
<1>3. searches[w][q] = 0
  BY <1>1, ResearchAssumption DEF Lasting, RetrievalsAreFresh, Search
<1>4. \A v \in Windows, x \in Queries :
         searches'[v][x] = IF v = w /\ x = q THEN 1 ELSE searches[v][x]
  <2> DEFINE row == [searches[w] EXCEPT ![q] = searches[w][q] + 1]
  <2>1. searches[w] \in [Queries -> Nat]
    BY <1>2, Typed
  <2>2. \A x \in Queries : row[x] = IF x = q THEN 1 ELSE searches[w][x]
    BY <1>3, <2>1
  <2>3. searches' = [searches EXCEPT ![w] = row]
    BY DEF Search
  <2> HIDE DEF row, w
  <2>4. QED
    BY <1>2, <2>2, <2>3, Typed
<1>5. UNCHANGED <<records, researchKey, exec>>
  BY DEF Search
<1>6. AttemptsAreMarked'
  <2>1. \A v \in Windows, x \in Queries :
           searches'[v][x] <= 1 /\ (~records'[v].attempted => searches'[v][x] = 0)
    BY <1>2, <1>4, <1>5 DEF Lasting, AttemptsAreMarked
  <2>2. ASSUME NEW d \in Deliveries, exec[d].pc = "collect", NEW x \in Queries
        PROVE  searches'[exec[d].window][x] = 0
    <3>1. exec[d].window \in Windows
      BY <2>2, OthersAtTheirRecords
    <3>2. exec[d].window # w
      BY <1>1, <2>2, OneIsLocked DEF Locked
    <3>3. QED
      BY <1>4, <2>2, <3>1, <3>2 DEF Lasting, AttemptsAreMarked
  <2>3. QED
    BY <1>5, <2>1, <2>2 DEF Lasting, AttemptsAreMarked, Record
<1>7. RetrievalsAreFresh'
  <2> SUFFICES ASSUME NEW x \in Procs, NEW y \in Queries, retrieval'[x].starter # "nobody",
                      y \notin retrieval'[x].searched
               PROVE  searches'[exec'[retrieval'[x].starter].window][y] = 0
    BY DEF RetrievalsAreFresh
  <2> DEFINE t == [retrieval[p] EXCEPT !.searched = @ \cup {q}]
  <2>1. t.starter = s /\ t.searched = retrieval[p].searched \cup {q}
    BY Typed DEF RetrievalType
  <2>2. retrieval' = [retrieval EXCEPT ![p] = t]
    BY DEF Search
  <2> HIDE DEF t
  <2>3. CASE x = p
    <3>1. retrieval'[x] = t
      BY <2>2, <2>3, Typed
    <3>2. y \notin retrieval[p].searched /\ y # q
      BY <2>1, <3>1
    <3>3. searches[w][y] = 0
      BY <1>1, <3>2, ResearchAssumption DEF Lasting, RetrievalsAreFresh
    <3>4. QED
      BY <1>2, <1>4, <1>5, <2>1, <3>1, <3>2, <3>3
  <2>4. CASE x # p
    <3>1. retrieval'[x] = retrieval[x]
      BY <2>2, <2>4, Typed
    <3>2. /\ retrieval[x].starter \in Deliveries
          /\ exec[retrieval[x].starter].pc = "join" /\ exec[retrieval[x].starter].proc = x
      BY <3>1, Typed DEF RetrievalType, StateInv, StartersWait
    <3>3. exec[retrieval[x].starter].window # w
      BY <1>1, <2>4, <3>2, OneIsLocked DEF Locked
    <3>4. exec[retrieval[x].starter].window \in Windows
      BY <3>2, OthersAtTheirRecords
    <3>5. searches[exec[retrieval[x].starter].window][y] = 0
      BY <3>1 DEF Lasting, RetrievalsAreFresh
    <3>6. QED
      BY <1>4, <1>5, <3>1, <3>3, <3>4, <3>5
  <2>5. QED
    BY <2>3, <2>4
<1>8. LockedHold' /\ FoundIsSettled' /\ NamesAreSettled'
  BY <1>5 DEF Lasting, LockedHold, FoundIsSettled, NamesAreSettled, Record
<1>9. QED
  BY <1>6, <1>7, <1>8 DEF Lasting

\* The lease of one who has ended runs out.
LEMMA LeaseRunsOutKeepsLasting ==
    ASSUME StateInv, Lasting, NEW w \in Windows, LeaseRunsOut(w), LeasesLast'
    PROVE  Lasting'
<1>1. records[w].lease = "gone"
  <2>1. faults \in [lapses : 0..MaxLapses, others : 0..MaxFaults]
    BY Typed
  <2>2. QED
    BY <2>1, ResearchAssumption DEF LeaseRunsOut, LeasesLast
<1>2. \A v \in Windows :
         /\ records'[v].attempted = records[v].attempted
         /\ records'[v].collection = records[v].collection
         /\ records'[v].lease = records[v].lease
         /\ v # w => records'[v].lapsed = records[v].lapsed
  BY Typed DEF LeaseRunsOut, RecordType
<1>3. UNCHANGED <<searches, researchKey, exec, retrieval>>
  BY DEF LeaseRunsOut
<1>4. \A d \in Deliveries : exec[d].pc \in Locked => exec[d].window \in Windows /\ exec[d].window # w
  BY <1>1, OthersAtTheirRecords, ResearchAssumption DEF Lasting, LockedHold, Record, Locked
<1>5. QED
  BY <1>2, <1>3, <1>4, EndingKeepsLasting

LEMMA CacheForgetsKeepsLasting ==
    ASSUME StateInv, Lasting, NEW p \in Procs, CacheForgets(p)
    PROVE  Lasting'
<1>1. UNCHANGED <<records, researchKey, searches, retrieval, exec>>
  BY DEF CacheForgets
<1>2. QED
  BY <1>1, EndingKeepsLasting

-----------------------------------------------------------------------------
(* The theorems.                                                            *)

WhileLeasesLast == LeasesLast => Lasting

LEMMA InitLasting == Init => WhileLeasesLast
<1> SUFFICES ASSUME Init PROVE Lasting
  BY DEF WhileLeasesLast
<1>1. \A d \in Deliveries : exec[d].pc = "idle"
  BY DEF Init, Idle
<1>2. \A p \in Procs : retrieval[p].starter = "nobody"
  BY DEF Init, NoRetrieval
<1>3. LockedHold /\ AttemptsAreMarked /\ FoundIsSettled
  BY <1>1 DEF LockedHold, AttemptsAreMarked, FoundIsSettled, Locked, Init
<1>4. RetrievalsAreFresh /\ NamesAreSettled
  BY <1>2 DEF RetrievalsAreFresh, NamesAreSettled, Init
<1>5. QED
  BY <1>3, <1>4 DEF Lasting

\* A lease that has run out stays counted.
LEMMA LapsesAreCounted ==
    ASSUME StateInv, [Next]_vars, LeasesLast'
    PROVE  LeasesLast
<1>1. faults \in [lapses : 0..MaxLapses, others : 0..MaxFaults]
  BY Typed
<1>2. ASSUME NEW d \in Deliveries, DeliveryStep(d) PROVE UNCHANGED faults
  BY <1>2 DEF DeliveryStep, Put, Claim, Check, Mark, Collect, Store, Release, Name
<1>3. ASSUME NEW d \in Deliveries, NEW r \in Runs, NEW p \in Procs, NEW w \in Windows,
             Start(d, r, p, w)
      PROVE  UNCHANGED faults
  BY <1>3 DEF Start
<1>4. ASSUME NEW p \in Procs,
             \/ \E q \in Queries : Search(p, q)
             \/ \E c \in Collections : Retrieved(p, c)
             \/ CacheForgets(p)
      PROVE  UNCHANGED faults
  BY <1>4 DEF Search, Retrieved, CacheForgets
<1>5. ASSUME (\E d \in Deliveries : CallFails(d)) \/ (\E p \in Procs : Crash(p))
      PROVE  faults'.lapses = faults.lapses
  BY <1>1, <1>5 DEF CallFails, Crash
<1>6. ASSUME NEW w \in Windows, LeaseRunsOut(w)
      PROVE  faults' = faults \/ faults'.lapses = faults.lapses + 1
  BY <1>1, <1>6 DEF LeaseRunsOut
<1>7. faults' = faults \/ faults'.lapses = faults.lapses \/ faults'.lapses = faults.lapses + 1
  BY <1>2, <1>3, <1>4, <1>5, <1>6 DEF Next, vars
<1>8. QED
  BY <1>1, <1>7, ResearchAssumption DEF LeasesLast

LEMMA NextKeepsLasting == StateInv /\ WhileLeasesLast /\ [Next]_vars => WhileLeasesLast'
<1> SUFFICES ASSUME StateInv, WhileLeasesLast, [Next]_vars, LeasesLast' PROVE Lasting'
  BY DEF WhileLeasesLast
<1>1. Lasting
  BY LapsesAreCounted DEF WhileLeasesLast
<1>2. ASSUME NEW d \in Deliveries, NEW r \in Runs, NEW p \in Procs, NEW w \in Windows,
             Start(d, r, p, w)
      PROVE  Lasting'
  BY <1>1, <1>2, StartKeepsLasting
<1>3. ASSUME NEW d \in Deliveries, DeliveryStep(d)
      PROVE  Lasting'
  BY <1>1, <1>3, PutKeepsLasting, ClaimKeepsLasting, CheckKeepsLasting, MarkKeepsLasting,
     CollectKeepsLasting, StoreKeepsLasting, ReleaseKeepsLasting, NameKeepsLasting DEF DeliveryStep
<1>4. ASSUME NEW d \in Deliveries, CallFails(d)
      PROVE  Lasting'
  BY <1>1, <1>4, CallFailsKeepsLasting
<1>5. ASSUME NEW p \in Procs, (\E q \in Queries : Search(p, q)) \/ (\E c \in Collections : Retrieved(p, c))
      PROVE  Lasting'
  BY <1>1, <1>5, SearchKeepsLasting, RetrievedKeepsLasting
<1>6. ASSUME NEW p \in Procs, CacheForgets(p) \/ Crash(p)
      PROVE  Lasting'
  BY <1>1, <1>6, CacheForgetsKeepsLasting, CrashKeepsLasting
<1>7. ASSUME NEW w \in Windows, LeaseRunsOut(w)
      PROVE  Lasting'
  BY <1>1, <1>7, LeaseRunsOutKeepsLasting
<1>8. CASE UNCHANGED vars
  <2>1. UNCHANGED <<records, researchKey, searches, retrieval, exec>>
    BY <1>8 DEF vars
  <2>2. QED
    BY <1>1, <2>1, EndingKeepsLasting
<1>9. QED
  BY <1>2, <1>3, <1>4, <1>5, <1>6, <1>7, <1>8 DEF Next

LEMMA LastingIsKept == Spec => []WhileLeasesLast
<1>1. QED
  BY InitLasting, NextKeepsLasting, StateIsKept, PTL DEF Spec

\* While leases last no search is sent twice for its usage row, whoever asks and whatever dies.
THEOREM SearchesAreNotRepeated == Spec => []OneSearch
<1>1. WhileLeasesLast => OneSearch
  BY DEF WhileLeasesLast, OneSearch, Lasting, AttemptsAreMarked
<1>2. QED
  BY LastingIsKept, <1>1, PTL

\* While leases last a delivery goes on with the collection that is stored.
THEOREM FoundStays == Spec => []FoundIsStored
<1>1. WhileLeasesLast => FoundIsStored
  <2> SUFFICES ASSUME Lasting, NEW d \in Deliveries, exec[d].pc = "name", exec[d].found \in Collections
               PROVE  Record(d).collection = exec[d].found
    BY DEF WhileLeasesLast, FoundIsStored, At
  <2>1. exec[d].found # "none"
    BY ResearchAssumption
  <2>2. QED
    BY <2>1 DEF Lasting, FoundIsSettled
<1>2. QED
  BY LastingIsKept, <1>1, PTL

\* While leases last what a run names is not written again: who could still write it is collecting
\* there, and then nobody names it.
THEOREM NamedStaysSettled == Spec => NamedIsSettled
<1>1. ASSUME StateInv, WhileLeasesLast, [Next]_vars, LeasesLast', NEW r \in Runs, researchKey[r] # "none"
      PROVE  records'[researchKey[r]].collection = records[researchKey[r]].collection
  <2> DEFINE w == researchKey[r]
  <2>1. Lasting
    BY <1>1, LapsesAreCounted DEF WhileLeasesLast
  <2>2. w \in Windows /\ Settled(w, records, exec)
    BY <1>1, <2>1, Typed DEF Lasting, NamesAreSettled
  <2>3. ASSUME NEW d \in Deliveries, Store(d)
        PROVE  records'[w].collection = records[w].collection
    <3>1. exec[d].pc = "store"
      BY <2>3 DEF Store, At
    <3>2. \A v \in Windows : records'[v].collection =
             IF v = exec[d].window /\ HoldsToken(d) THEN exec[d].found ELSE records[v].collection
      BY <1>1, <2>3, StoredRecords
    <3>3. CASE exec[d].window # w
      BY <2>2, <3>2, <3>3
    <3>4. CASE exec[d].window = w
      <4>1. records[w].lease = d
        BY <2>1, <3>1, <3>4 DEF Lasting, LockedHold, Record, Locked
      <4>2. records[w].collection = "none"
        BY <1>1, <3>1, <3>4, <4>1 DEF StateInv, HoldersAreAlone, Collecting
      <4>3. QED
        BY <2>2, <3>1, <3>4, <4>2 DEF Settled, Collecting
    <3>5. QED
      BY <3>3, <3>4
  <2>4. QED
    BY <1>1, <2>2, <2>3, OnlyStoreWrites
<1>2. StateInv /\ WhileLeasesLast /\ [Next]_vars =>
         [\A r \in Runs :
             LeasesLast' /\ researchKey[r] # "none"
                 => records'[researchKey[r]].collection = records[researchKey[r]].collection]_vars
  BY <1>1
<1>3. QED
  BY StateIsKept, LastingIsKept, <1>2, PTL DEF Spec, NamedIsSettled
=============================================================================
