--------------------------- MODULE MCWorkflowEngine ---------------------------
(***************************************************************************)
(* WorkflowEngine for TLC.  CallsApart lets one run ask what two workers do *)
(* by themselves, what a customer's calls do to one of them, and what one  *)
(* makes of a fault and of a worker that starts: from the first call or    *)
(* fault on there is one worker and one start, and with calls one try for  *)
(* each job and no engine.retry beside a customer's.                       *)
(***************************************************************************)
EXTENDS WorkflowEngine

First(S) == CHOOSE x \in S : TRUE

OneWorker ==
    \A a \in Procs \cup Starters : At(a, "idle") \/ a \in {First(Procs), First(Starters)}

OneTry == \A j \in JobIds : jobs[j].tries = 0

OneRetry == \A c \in Retriers, d \in Resumers : At(c, "idle") \/ At(d, "idle")

CallsApart ==
    \/ Undisturbed
    \/ NoCalls /\ OneWorker
    \/ NoFaults /\ OneWorker /\ OneTry /\ OneRetry
=============================================================================
