----------------------------- MODULE ResponseCell -----------------------------
(***************************************************************************)
(* What the Python service promises about one idempotency key: a cell that *)
(* holds the response of at most one request until it is forgotten, and    *)
(* that nobody overwrites.  A request is answered with the cell, with its  *)
(* own response, or with an error.  Idempotency implements this.           *)
(***************************************************************************)
CONSTANTS
    Requests,  \* the requests that ever carry the key
    None       \* no response

Errors == {"reused", "in_progress", "failed"}

VARIABLES
    cell,      \* the request whose response is published
    answer     \* what each request is answered with

CellVars == <<cell, answer>>

CellInit == cell = None /\ answer = [r \in Requests |-> None]

Answers(r, with) ==
    /\ answer[r] = None
    /\ answer' = [answer EXCEPT ![r] = with]

Publish(r) == cell = None /\ cell' = r /\ Answers(r, r)

Repeat(r) == cell # None /\ Answers(r, cell) /\ UNCHANGED cell

\* A request that lost its lease is still answered with what it computed.
KeepToItself(r) == Answers(r, r) /\ UNCHANGED cell

Refuse(r) == (\E e \in Errors : Answers(r, e)) /\ UNCHANGED cell

Forget == cell # None /\ cell' = None /\ UNCHANGED answer

CellNext ==
    \/ \E r \in Requests : Publish(r) \/ Repeat(r) \/ KeepToItself(r) \/ Refuse(r)
    \/ Forget

CellSpec == CellInit /\ [][CellNext]_CellVars
=============================================================================
