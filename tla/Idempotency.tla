------------------------------ MODULE Idempotency ------------------------------
(***************************************************************************)
(* One idempotency key of the Python service: _with_idempotency of         *)
(* app/api/v1/routes.py around a paid handler, over the Redis store of     *)
(* app/core/idempotency.py.  begin() is a sequence of Redis commands that  *)
(* interleave with those of other requests; complete, release and renew    *)
(* are Lua scripts and each is one step.                                   *)
(*                                                                         *)
(* An owner token is a fresh uuid, so it stands for the request that drew  *)
(* it, and a response for the request that computed it.  renew only moves  *)
(* the lock's expiry: it shows in what LockExpires needs.                  *)
(***************************************************************************)
EXTENDS Naturals

CONSTANTS
    Requests,   \* requests that carry the key
    Bodies,     \* what they may ask for
    None,
    MaxLapses,  \* bound: locks that expire under a live owner
    MaxForgets  \* bound: responses that reach their TTL

ASSUME IdempotencyAssumption ==
    /\ None \notin Requests \cup Bodies
    /\ Requests \cap {"reused", "in_progress", "failed"} = {}
    /\ None \notin {"reused", "in_progress", "failed"}
    /\ MaxLapses \in Nat
    /\ MaxForgets \in Nat

VARIABLES
    lock,  \* <key>:lock, the owner
    data,  \* <key>:data, whose response it holds
    req,   \* the requests
    clock  \* how often a TTL ended against a live owner, or on the response

idemVars == <<lock, data, req, clock>>

Errors == {"reused", "in_progress", "failed"}

IdemInit ==
    /\ lock = None
    /\ data = None
    /\ req = [r \in Requests |-> [pc |-> "idle", body |-> None, reply |-> None]]
    /\ clock = [lapses |-> 0, forgets |-> 0]

IdemTypeOK ==
    /\ lock \in Requests \cup {None}
    /\ data \in Requests \cup {None}
    /\ req \in [Requests ->
                 [pc : {"idle", "look", "acquire", "relook", "inspect", "recheck", "run",
                        "release", "done", "gone"},
                  body : Bodies \cup {None},
                  reply : Requests \cup {None} \cup Errors]]
    /\ clock \in [lapses : 0..MaxLapses, forgets : 0..MaxForgets]

Is(r, pc) == req[r].pc = pc
Goes(r, pc) == req' = [req EXCEPT ![r].pc = pc]

\* r leaves for pc with its answer settled.
Gets(r, reply, pc) == req' = [req EXCEPT ![r].pc = pc, ![r].reply = reply]

-----------------------------------------------------------------------------
(* begin().                                                                 *)

Arrive(r, b) ==
    /\ Is(r, "idle")
    /\ req' = [req EXCEPT ![r] = [pc |-> "look", body |-> b, reply |-> None]]
    /\ UNCHANGED <<lock, data, clock>>

\* Mutants of Saved: answers with what was asked for; does not compare the bodies.
SavedBody(r) == IF req[data].body = req[r].body THEN req[data].body ELSE "reused"
SavedForAnyBody(r) == data

\* The saved response answers a request for the same body only.
Saved(r) == IF req[data].body = req[r].body THEN data ELSE "reused"

Look(r) ==
    /\ Is(r, "look")
    /\ IF data # None THEN Gets(r, Saved(r), "done") ELSE Goes(r, "acquire")
    /\ UNCHANGED <<lock, data, clock>>

\* Mutant of Acquire: SET without NX.
AcquireAnyway(r) ==
    /\ Is(r, "acquire")
    /\ lock' = r
    /\ Goes(r, "recheck")
    /\ UNCHANGED <<data, clock>>

\* SET NX EX: the lock goes to one request.
Acquire(r) ==
    /\ Is(r, "acquire")
    /\ IF lock = None THEN lock' = r /\ Goes(r, "recheck") ELSE Goes(r, "relook") /\ UNCHANGED lock
    /\ UNCHANGED <<data, clock>>

Relook(r) ==
    /\ Is(r, "relook")
    /\ IF data # None THEN Gets(r, Saved(r), "done") ELSE Goes(r, "inspect")
    /\ UNCHANGED <<lock, data, clock>>

\* Either way a 409; the lock may have gone meanwhile.
Inspect(r) ==
    /\ Is(r, "inspect")
    /\ Gets(r, IF lock # None /\ req[lock].body # req[r].body THEN "reused" ELSE "in_progress",
            "done")
    /\ UNCHANGED <<lock, data, clock>>

\* Mutant of Recheck: goes straight to the handler.
RunAtOnce(r) ==
    /\ Is(r, "recheck")
    /\ Goes(r, "run")
    /\ UNCHANGED <<lock, data, clock>>

\* Between the first look and the lock another request may have completed.
Recheck(r) ==
    /\ Is(r, "recheck")
    /\ IF data # None THEN Gets(r, Saved(r), "release") ELSE Goes(r, "run")
    /\ UNCHANGED <<lock, data, clock>>

-----------------------------------------------------------------------------
(* The handler, complete() and release().                                   *)

\* Mutant of Owns: whoever finishes is taken for the owner.
OwnsAnyway(r) == TRUE

Owns(r) == lock = r

\* The handler returns and its response is saved if r is still the owner; the caller gets it in
\* either case.
Complete(r) ==
    /\ Is(r, "run")
    /\ IF Owns(r) THEN data' = r /\ lock' = None ELSE UNCHANGED <<data, lock>>
    /\ Gets(r, r, "done")
    /\ UNCHANGED clock

Fail(r) ==
    /\ Is(r, "run")
    /\ Gets(r, "failed", "release")
    /\ UNCHANGED <<lock, data, clock>>

Release(r) ==
    /\ Is(r, "release")
    /\ lock' = IF Owns(r) THEN None ELSE lock
    /\ Goes(r, "done")
    /\ UNCHANGED <<data, clock>>

-----------------------------------------------------------------------------
(* Faults and time.                                                         *)

\* The process dies or the request is cancelled, which no except clause catches: no release.
Vanish(r) ==
    /\ ~Is(r, "idle") /\ ~Is(r, "done") /\ ~Is(r, "gone")
    /\ Goes(r, "gone")
    /\ UNCHANGED <<lock, data, clock>>

\* The owner's heartbeat has ended, or it is late.
LockExpires ==
    /\ lock # None
    /\ lock' = None
    /\ IF Is(lock, "gone") THEN UNCHANGED clock
       ELSE clock.lapses < MaxLapses /\ clock' = [clock EXCEPT !.lapses = @ + 1]
    /\ UNCHANGED <<data, req>>

DataExpires ==
    /\ data # None
    /\ data' = None
    /\ clock.forgets < MaxForgets
    /\ clock' = [clock EXCEPT !.forgets = @ + 1]
    /\ UNCHANGED <<lock, req>>

Serve(r) ==
    \/ Look(r) \/ Acquire(r) \/ Relook(r) \/ Inspect(r) \/ Recheck(r)
    \/ Complete(r) \/ Fail(r) \/ Release(r)

IdemNext ==
    \/ \E r \in Requests : (\E b \in Bodies : Arrive(r, b)) \/ Serve(r) \/ Vanish(r)
    \/ LockExpires \/ DataExpires

IdemSpec == IdemInit /\ [][IdemNext]_idemVars

-----------------------------------------------------------------------------
(* Properties.                                                              *)

\* "Stale workers (wrong owner or expired lock) must never overwrite results."  A published
\* response stays until its TTL, also when a lock lapses under its owner and when the owner of
\* the next lock has not looked again yet.
PublishedIsFinal == [][data # None => data' \in {data, None}]_idemVars

\* One paid call at a time: two handlers run for the key only if a lock has lapsed.
OneExecution ==
    \A q, r \in Requests : q # r /\ Is(q, "run") /\ Is(r, "run") => clock.lapses > 0

\* Requests with the same key that get a response get the same one, unless a lock has lapsed or
\* the response was forgotten.
OneResponse ==
    clock = [lapses |-> 0, forgets |-> 0] =>
        \A q, r \in Requests :
            req[q].reply \in Requests /\ req[r].reply \in Requests => req[q].reply = req[r].reply

\* No request is answered with the response to another body.
RightBody ==
    \A r \in Requests : req[r].reply \in Requests => req[req[r].reply].body = req[r].body

\* The Redis commands implement a cell that is written once.
Cell == INSTANCE ResponseCell WITH cell <- data, answer <- [r \in Requests |-> req[r].reply]
ImplementsCell == Cell!CellSpec

=============================================================================
