--------------------------- MODULE IdempotencyProofs ---------------------------
(***************************************************************************)
(* What Idempotency checks with three requests, for any number of them and *)
(* any bounds on lapses: the invariant that makes the second look at the   *)
(* data key sufficient, what follows from it, and the refinement.          *)
(***************************************************************************)
EXTENDS Idempotency, TLAPS

\* A request that has not been answered.
Pending == {"idle", "look", "acquire", "relook", "inspect", "recheck", "run"}

\* The owner of the lock is past the SET NX and before the release.
OwnerIsInside == lock # None => req[lock].pc \in {"recheck", "run", "release", "gone"}

\* An owner runs its handler only while nothing is published: the reason nothing is overwritten.
OwnerRunsOnNothing == \A r \in Requests : Is(r, "run") /\ lock = r => data = None

\* Without a lapse whoever is past the SET NX still owns the lock.
InsideOwns ==
    clock.lapses = 0 => \A r \in Requests : req[r].pc \in {"recheck", "run"} => lock = r

PendingHasNoReply == \A r \in Requests : req[r].pc \in Pending => req[r].reply = None

\* A response that is published or was handed out is of a request that is done.
ResponsesAreDone ==
    /\ data # None => Is(data, "done")
    /\ \A r \in Requests : req[r].reply \in Requests => Is(req[r].reply, "done")

\* While nothing lapsed or was forgotten, every response handed out is the published one.
RepliesArePublished ==
    clock = [lapses |-> 0, forgets |-> 0] =>
        \A r \in Requests : req[r].reply \in Requests => req[r].reply = data

IdemInv ==
    /\ IdemTypeOK
    /\ OwnerIsInside
    /\ OwnerRunsOnNothing
    /\ InsideOwns
    /\ PendingHasNoReply
    /\ ResponsesAreDone
    /\ RightBody
    /\ RepliesArePublished

\* Initially nothing is locked, published or asked for.
LEMMA IdemInvHoldsInitially == IdemInit => IdemInv
BY IdempotencyAssumption
DEF IdemInit, IdemInv, IdemTypeOK, OwnerIsInside, OwnerRunsOnNothing, InsideOwns,
    PendingHasNoReply, ResponsesAreDone, RightBody, RepliesArePublished, Is, Errors

\* Every command of a request, every fault and every TTL keeps the invariant.
LEMMA IdemInvIsInductive == IdemInv /\ [IdemNext]_idemVars => IdemInv'
<1> SUFFICES ASSUME IdemInv, [IdemNext]_idemVars
             PROVE  IdemInv'
  OBVIOUS
<1> USE IdempotencyAssumption
    DEF IdemInv, IdemTypeOK, OwnerIsInside, OwnerRunsOnNothing, InsideOwns, PendingHasNoReply,
        ResponsesAreDone, RightBody, RepliesArePublished, Is, Errors, Pending, Goes, Gets
<1>1. ASSUME NEW r \in Requests, NEW b \in Bodies, Arrive(r, b)
      PROVE  IdemInv'
  <2>1. \A q \in Requests : /\ req'[q].reply = req[q].reply
                            /\ req'[q].pc = IF q = r THEN "look" ELSE req[q].pc
                            /\ req'[q].body = IF q = r THEN b ELSE req[q].body
    BY <1>1 DEF Arrive
  <2>2. IdemTypeOK'
    BY <1>1 DEF Arrive
  <2>3. OwnerIsInside' /\ OwnerRunsOnNothing' /\ InsideOwns' /\ PendingHasNoReply'
    BY <1>1, <2>1 DEF Arrive
  <2>4. ResponsesAreDone' /\ RepliesArePublished'
    BY <1>1, <2>1 DEF Arrive
  <2>5. RightBody'
    BY <1>1, <2>1 DEF Arrive
  <2>6. QED
    BY <2>2, <2>3, <2>4, <2>5
<1>2. ASSUME NEW r \in Requests, Look(r)
      PROVE  IdemInv'
  BY <1>2 DEF Look, Saved
<1>3. ASSUME NEW r \in Requests, Acquire(r)
      PROVE  IdemInv'
  BY <1>3 DEF Acquire
<1>4. ASSUME NEW r \in Requests, Relook(r)
      PROVE  IdemInv'
  BY <1>4 DEF Relook, Saved
<1>5. ASSUME NEW r \in Requests, Inspect(r)
      PROVE  IdemInv'
  BY <1>5 DEF Inspect
<1>6. ASSUME NEW r \in Requests, Recheck(r)
      PROVE  IdemInv'
  BY <1>6 DEF Recheck, Saved
<1>7. ASSUME NEW r \in Requests, Complete(r)
      PROVE  IdemInv'
  <2>1. CASE Owns(r)
    BY <1>7, <2>1 DEF Complete, Owns
  <2>2. CASE ~Owns(r)
    BY <1>7, <2>2 DEF Complete, Owns
  <2>3. QED
    BY <2>1, <2>2
<1>8. ASSUME NEW r \in Requests, Fail(r)
      PROVE  IdemInv'
  BY <1>8 DEF Fail
<1>9. ASSUME NEW r \in Requests, Release(r)
      PROVE  IdemInv'
  BY <1>9 DEF Release, Owns
<1>10. ASSUME NEW r \in Requests, Vanish(r)
       PROVE  IdemInv'
  BY <1>10 DEF Vanish
<1>11. CASE LockExpires
  BY <1>11 DEF LockExpires
<1>12. CASE DataExpires
  BY <1>12 DEF DataExpires
<1>13. CASE UNCHANGED idemVars
  BY <1>13 DEF idemVars
<1>14. QED
  BY <1>1, <1>2, <1>3, <1>4, <1>5, <1>6, <1>7, <1>8, <1>9, <1>10, <1>11, <1>12, <1>13
  DEF IdemNext, Serve

LEMMA IdemInvHolds == IdemSpec => []IdemInv
BY IdemInvHoldsInitially, IdemInvIsInductive, PTL DEF IdemSpec

\* The store's keys and every request's position and answer are what they should be.
THEOREM IdemTypeCorrect == IdemSpec => []IdemTypeOK
BY IdemInvHolds, PTL DEF IdemInv

\* Two handlers of one key run at the same time only after a lock has lapsed.
THEOREM ExecutionIsExclusive == IdemSpec => []OneExecution
<1>1. IdemInv => OneExecution
  BY DEF IdemInv, IdemTypeOK, InsideOwns, OneExecution, Is
<1>2. QED
  BY <1>1, IdemInvHolds, PTL

\* Without lapses and forgotten responses all requests of a key get one response.
THEOREM ResponseIsUnique == IdemSpec => []OneResponse
<1>1. IdemInv => OneResponse
  BY DEF IdemInv, RepliesArePublished, OneResponse
<1>2. QED
  BY <1>1, IdemInvHolds, PTL

\* A cached response is only ever given to a request for the same body.
THEOREM BodyIsRight == IdemSpec => []RightBody
BY IdemInvHolds, PTL DEF IdemInv

\* Only a TTL removes a published response and nothing replaces it.
THEOREM PublishedStays == IdemSpec => PublishedIsFinal
<1>1. IdemInv /\ [IdemNext]_idemVars => [data # None => data' \in {data, None}]_idemVars
  <2> SUFFICES ASSUME IdemInv, IdemNext, data # None
               PROVE  data' \in {data, None}
    BY DEF idemVars
  <2>1. ASSUME NEW r \in Requests, Complete(r)
        PROVE  data' \in {data, None}
    BY <2>1 DEF Complete, Owns, IdemInv, OwnerRunsOnNothing
  <2>2. QED
    BY <2>1 DEF IdemNext, Serve, Arrive, Look, Acquire, Relook, Inspect, Recheck, Fail, Release,
                Vanish, LockExpires, DataExpires
<1>2. QED
  BY <1>1, IdemInvHolds, PTL DEF IdemSpec, PublishedIsFinal

\* Every step publishes, answers, forgets or leaves the cell alone.

LEMMA StepIsACellStep ==
    ASSUME IdemInv, [IdemNext]_idemVars
    PROVE  [Cell!CellNext]_(Cell!CellVars)
<1> USE IdempotencyAssumption DEF Cell!CellNext, Cell!CellVars
<1>1. ASSUME NEW r \in Requests, UNCHANGED data,
             req' = [req EXCEPT ![r] = req'[r]], req'[r].reply = req[r].reply
      PROVE  UNCHANGED Cell!CellVars
  BY <1>1 DEF IdemInv, IdemTypeOK
<1>2. ASSUME NEW r \in Requests, NEW with, req[r].reply = None,
             \A q \in Requests : req'[q].reply = IF q = r THEN with ELSE req[q].reply
      PROVE  Cell!Answers(r, with)
  BY <1>2 DEF Cell!Answers
<1>3. ASSUME NEW r \in Requests, data # None, UNCHANGED data, req[r].pc \in Pending,
             NEW pc, Gets(r, Saved(r), pc)
      PROVE  Cell!CellNext
  <2> PICK with \in {data, "reused"} : with = Saved(r)
    BY DEF Saved
  <2>1. \A q \in Requests : req'[q].reply = IF q = r THEN with ELSE req[q].reply
    BY <1>3 DEF Gets, IdemInv, IdemTypeOK
  <2>2. Cell!Answers(r, with)
    BY <1>2, <1>3, <2>1 DEF IdemInv, PendingHasNoReply
  <2>3. Cell!Repeat(r) \/ Cell!Refuse(r)
    BY <1>3, <2>2 DEF Cell!Repeat, Cell!Refuse, Cell!Errors, Cell!Answers
  <2>4. QED
    BY <2>3
<1>4. ASSUME NEW r \in Requests, UNCHANGED data, req[r].pc \in Pending,
             NEW error \in Errors, NEW pc, Gets(r, error, pc)
      PROVE  Cell!CellNext
  <2>1. \A q \in Requests : req'[q].reply = IF q = r THEN error ELSE req[q].reply
    BY <1>4 DEF Gets, IdemInv, IdemTypeOK
  <2>2. Cell!Answers(r, error)
    BY <1>2, <1>4, <2>1 DEF IdemInv, PendingHasNoReply
  <2>3. Cell!Refuse(r)
    BY <1>4, <2>2 DEF Cell!Refuse, Cell!Errors, Errors
  <2>4. QED
    BY <2>3
<1>5. ASSUME NEW r \in Requests, Complete(r)
      PROVE  Cell!CellNext
  <2>1. \A q \in Requests : req'[q].reply = IF q = r THEN r ELSE req[q].reply
    BY <1>5 DEF Complete, Gets, IdemInv, IdemTypeOK
  <2>2. Cell!Answers(r, r)
    BY <1>2, <1>5, <2>1 DEF Complete, IdemInv, PendingHasNoReply, Pending, Is
  <2>3. CASE Owns(r)
    BY <1>5, <2>2, <2>3 DEF Complete, Owns, Cell!Publish, IdemInv, OwnerRunsOnNothing
  <2>4. CASE ~Owns(r)
    BY <1>5, <2>2, <2>4 DEF Complete, Cell!KeepToItself
  <2>5. QED
    BY <2>3, <2>4
<1>6. ASSUME NEW r \in Requests, Look(r) \/ Relook(r) \/ Recheck(r)
      PROVE  [Cell!CellNext]_(Cell!CellVars)
  <2>1. CASE data # None
    <3>1. UNCHANGED data /\ req[r].pc \in Pending
      BY <1>6 DEF Look, Relook, Recheck, Is, Pending
    <3>2. PICK pc \in {"done", "release"} : Gets(r, Saved(r), pc)
      BY <1>6, <2>1 DEF Look, Relook, Recheck
    <3>3. QED
      BY <1>3, <2>1, <3>1, <3>2
  <2>2. CASE data = None
    <3>1. PICK pc \in {"acquire", "inspect", "run"} : Goes(r, pc)
      BY <1>6, <2>2 DEF Look, Relook, Recheck
    <3>2. UNCHANGED data
      BY <1>6 DEF Look, Relook, Recheck
    <3>3. req'[r].reply = req[r].reply /\ req' = [req EXCEPT ![r] = req'[r]]
      BY <3>1 DEF Goes, IdemInv, IdemTypeOK
    <3>4. QED
      BY <1>1, <3>2, <3>3
  <2>3. QED
    BY <2>1, <2>2
<1>7. ASSUME NEW r \in Requests, Inspect(r)
      PROVE  Cell!CellNext
  BY <1>4, <1>7 DEF Inspect, Is, Pending, Errors
<1>8. ASSUME NEW r \in Requests, Fail(r)
      PROVE  Cell!CellNext
  BY <1>4, <1>8 DEF Fail, Is, Pending, Errors
<1>9. ASSUME NEW r \in Requests, NEW b \in Bodies, Arrive(r, b)
      PROVE  UNCHANGED Cell!CellVars
  BY <1>9, <1>1 DEF Arrive, Is, IdemInv, IdemTypeOK, PendingHasNoReply, Pending
<1>10. ASSUME NEW r \in Requests, Acquire(r) \/ Release(r) \/ Vanish(r)
       PROVE  UNCHANGED Cell!CellVars
  BY <1>1, <1>10 DEF Acquire, Release, Vanish, Goes, IdemInv, IdemTypeOK
<1>11. CASE LockExpires
  BY <1>11 DEF LockExpires
<1>12. CASE DataExpires
  BY <1>12 DEF DataExpires, Cell!Forget
<1>13. CASE UNCHANGED idemVars
  BY <1>13 DEF idemVars
<1>14. QED
  BY <1>5, <1>6, <1>7, <1>8, <1>9, <1>10, <1>11, <1>12, <1>13 DEF IdemNext, Serve

\* The Redis commands implement the cell: every step publishes, answers, forgets or stutters.
THEOREM RedisImplementsCell == IdemSpec => ImplementsCell
<1>1. IdemInit => Cell!CellInit
  BY DEF IdemInit, Cell!CellInit
<1>2. QED
  BY <1>1, StepIsACellStep, IdemInvHolds, PTL DEF IdemSpec, ImplementsCell, Cell!CellSpec
=============================================================================
